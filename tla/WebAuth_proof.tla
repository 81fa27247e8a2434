----------------------------- MODULE WebAuth_proof -----------------------------
(***************************************************************************)
(* Machine-checked proofs about WebAuth: type correctness, the standing of *)
(* those whose requests are accepted, revocation, the sliding expiry and   *)
(* partial updates, for every set of users, tokens and request slots, all  *)
(* request bodies and every TTL.                                           *)
(***************************************************************************)
EXTENDS WebAuth, TLAPS

\* A row of web_sessions that is there belongs to a user that is there.
WebInv ==
    \A t \in Tokens :
      /\ web[t].state = "live" => web[t].user \in Users /\ users[web[t].user].known
      /\ web[t].state # "live" => web[t].user = NoUser

\* Any moment between two uses lies between two less than a TTL apart.
NoHole(uses) ==
    \A x \in Nat : \A lo, hi \in uses :
      lo <= x /\ x < hi => \E b, c \in uses : b <= x /\ x < c /\ c < b + SessionTtl

\* The expiry follows from a use, and no use lies ahead.
UseInv ==
    \A t \in Tokens :
      /\ NoHole(web[t].uses)
      /\ web[t].state = "live" =>
           /\ \E last \in web[t].uses : web[t].expires = last + SessionTtl
           /\ \A s \in web[t].uses : s <= now

\* What a request q holds at each program counter.
PcOk(q) ==
    /\ q.stamp <= now
    /\ q.pc = "idle" => q = NoRequest
    /\ q.pc = "create" =>
         q.op = "login" /\ q.user \in Users /\ users[q.user].known /\ q.outcome = "none"
    /\ q.pc \in {"select", "refresh"} =>
         /\ q.op \in {"view", "admin"} /\ q.outcome = "none"
         /\ q.token \in Tokens /\ web[q.token].state # "unused"
    /\ q.pc \in {"act", "write"} => q.op = "admin" /\ q.outcome = "none"
    /\ q.pc = "write" =>
         /\ q.target \in Users /\ users[q.target].known
         /\ q.change \in Change
         /\ q.written \subseteq q.change.asked

\* The rank a request will be accepted with has been seen: before the select
\* it is that of the session's user, after it that of the copy.
StandingOk(q) ==
    /\ q.pc = "select" => RankUnder(users, q.token) <= q.standing
    /\ q.pc = "refresh" => q.standing >= 1
    /\ q.pc = "refresh" /\ q.admin => q.standing = 2
    /\ q.pc \in {"act", "write"} => q.standing = 2
    /\ q.op \in {"view", "admin"} /\ q.outcome \in {"forbidden", "ok", "conflict", "unknown"} =>
         q.standing >= 1
    /\ q.op = "admin" /\ q.outcome \in {"ok", "conflict", "unknown"} => q.standing = 2

\* A request on its way follows a use of its session, and once it has been let
\* in, one less than a TTL before.
FollowsUse(q) ==
    q.pc \in {"select", "refresh"} /\ web[q.token].state = "live" =>
      /\ \E lo \in web[q.token].uses : lo <= q.stamp
      /\ q.pc = "refresh" =>
           \E b \in web[q.token].uses : b <= q.stamp /\ q.stamp < b + SessionTtl

ReqOk(q) == PcOk(q) /\ StandingOk(q) /\ FollowsUse(q)

ReqInv == \A r \in Requests : ReqOk(req[r])

IInv == TypeOK /\ WebInv /\ UseInv /\ ReqInv

------------------------------------------------------------------------------
LEMMA Nulls ==
    /\ NoChange \in Change /\ NoRequest \in Request /\ NoWebSession \in WebSession
    /\ NoAccount \in Account /\ DevAccount \in Account
<1>1. NoChange \in Change
  <2>1. {} \in SUBSET Fields  OBVIOUS
  <2>2. QED  BY <2>1, WebAuthAssumption DEF NoChange, Change
<1>2. NoAccount \in Account /\ DevAccount \in Account
  BY WebAuthAssumption DEF NoAccount, DevAccount, Account
<1>3. NoWebSession \in WebSession
  <2>1. {} \in SUBSET Nat  OBVIOUS
  <2>2. QED  BY <2>1 DEF NoWebSession, WebSession
<1>4. NoRequest \in Request
  <2>1. {} \in SUBSET Fields  OBVIOUS
  <2>2. QED  BY <1>1, <2>1 DEF NoRequest, Request, Pcs, Outcomes
<1>5. QED  BY <1>1, <1>2, <1>3, <1>4

\* A finished request keeps its operation and its standing.
LEMMA FinishType ==
    ASSUME NEW q \in Request, NEW o \in Outcomes
    PROVE  /\ Finish(q, o) \in Request
           /\ Finish(q, o).op = q.op /\ Finish(q, o).pc = "done"
           /\ Finish(q, o).outcome = o /\ Finish(q, o).standing = q.standing
           /\ Finish(q, o).stamp = 0
BY Nulls DEF Finish, NoRequest, Request, Pcs

LEMMA RankType ==
    ASSUME NEW a \in Account
    PROVE  Rank(a) \in 0..2
BY DEF Rank, Enabled, Account

LEMMA RankUnderType ==
    ASSUME NEW us \in [Users -> Account], TypeOK, NEW t \in Tokens \cup {NoToken}
    PROVE  RankUnder(us, t) \in 0..2
<1>1. CASE t = NoToken  BY <1>1 DEF RankUnder
<1>2. CASE t \in Tokens
  <2>1. web[t].user \in Users \cup {NoUser}  BY <1>2 DEF TypeOK, WebSession
  <2>2. QED  BY <1>2, <2>1, RankType DEF RankUnder
<1>3. QED  BY <1>1, <1>2

\* A change of the users raises a standing and alters nothing else.
LEMMA RaisedType ==
    ASSUME TypeOK, NEW us \in [Users -> Account], NEW r \in Requests
    PROVE  /\ Raised(us, r) \in Request
           /\ \E n \in 0..2 :
                /\ Raised(us, r) = [req[r] EXCEPT !.standing = n]
                /\ n >= req[r].standing
                /\ n >= RankUnder(us, req[r].token)
<1> DEFINE k == RankUnder(us, req[r].token)
<1>1. req[r] \in Request /\ req[r].standing \in 0..2 /\ req[r].token \in Tokens \cup {NoToken}
  BY DEF TypeOK, Request
<1>2. k \in 0..2  BY <1>1, RankUnderType
<1> HIDE DEF k
<1>3. CASE k <= req[r].standing
  <2>1. Raised(us, r) = req[r]  BY <1>3 DEF Raised, k
  <2>2. req[r] = [req[r] EXCEPT !.standing = req[r].standing]  BY <1>1 DEF Request
  <2>3. QED  BY <1>1, <1>2, <1>3, <2>1, <2>2 DEF k
<1>4. CASE ~(k <= req[r].standing)
  <2>1. Raised(us, r) = [req[r] EXCEPT !.standing = k]  BY <1>4 DEF Raised, k
  <2>2. [req[r] EXCEPT !.standing = k] \in Request  BY <1>1, <1>2 DEF Request
  <2>3. k >= req[r].standing  BY <1>1, <1>2, <1>4
  <2>4. QED  BY <1>2, <2>1, <2>2, <2>3 DEF k
<1>5. QED  BY <1>3, <1>4

\* An empty or a finished request is in order, whatever the tables hold.
LEMMA EmptyOk ==
    ASSUME now \in Nat
    PROVE  ReqOk(NoRequest)
BY DEF ReqOk, PcOk, StandingOk, FollowsUse, NoRequest

LEMMA InitEstablishesIInv == Init => IInv
<1> SUFFICES ASSUME Init PROVE IInv  OBVIOUS
<1>1. TypeOK  BY Nulls, WebAuthAssumption DEF Init, TypeOK
<1>2. WebInv  BY DEF Init, WebInv, NoWebSession
<1>3. UseInv  BY DEF Init, UseInv, NoHole, NoWebSession
<1>4. ReqInv
  <2>1. now \in Nat /\ \A r \in Requests : req[r] = NoRequest  BY DEF Init
  <2>2. QED  BY <2>1, EmptyOk DEF ReqInv
<1>5. QED  BY <1>1, <1>2, <1>3, <1>4 DEF IInv

\* The invariant implies the property of accepted requests.
LEMMA IInvImpliesStanding == IInv => AcceptedHasStanding
<1> SUFFICES ASSUME IInv, NEW r \in Requests
             PROVE  /\ Accepted(r) => req[r].standing >= 1
                    /\ Administers(r) => req[r].standing = 2
  BY DEF AcceptedHasStanding
<1>1. StandingOk(req[r])  BY DEF IInv, ReqInv, ReqOk
<1>2. QED  BY <1>1 DEF StandingOk, Accepted, Administers

\* A step that changes one request and no table keeps the invariant if the
\* request is in order after it.
LEMMA LocalStep ==
    ASSUME IInv, NEW r \in Requests, NEW q \in Request, ReqOk(q),
           req' = [req EXCEPT ![r] = q], UNCHANGED <<users, web, now>>
    PROVE  IInv'
<1>1. TypeOK'  BY DEF IInv, TypeOK
<1>2. WebInv' /\ UseInv'  BY DEF IInv, WebInv, UseInv, NoHole
<1>3. \A p \in Request : ReqOk(p) => ReqOk(p)'
  BY DEF ReqOk, PcOk, StandingOk, FollowsUse, RankUnder, Rank, Enabled
<1>4. \A p \in Requests : req'[p] \in Request /\ ReqOk(req'[p])
  <2>1. req \in [Requests -> Request]  BY DEF IInv, TypeOK
  <2>2. \A p \in Requests : ReqOk(req[p])  BY DEF IInv, ReqInv
  <2>3. TAKE p \in Requests
  <2>4. CASE p = r  BY <2>1, <2>4
  <2>5. CASE p # r  BY <2>1, <2>2, <2>5
  <2>6. QED  BY <2>4, <2>5
<1>5. ReqInv'  BY <1>3, <1>4 DEF ReqInv
<1>6. QED  BY <1>1, <1>2, <1>5 DEF IInv

LEMMA AuthenticateKeepsIInv ==
    ASSUME IInv, NEW r \in Requests, NEW u \in Users, NEW p \in Passwords,
           Authenticate(r, u, p)
    PROVE  IInv'
<1> DEFINE login == [NoRequest EXCEPT !.op = "login"]
           good == [login EXCEPT !.pc = "create", !.user = u, !.stamp = now]
           bad == Finish(login, "unauthenticated")
<1>1. now \in Nat  BY WebAuthAssumption DEF IInv, TypeOK
<1>2. login \in Request /\ good \in Request
  BY <1>1, Nulls DEF NoRequest, Request, Pcs
<1>3. CASE Enabled(users[u]) /\ users[u].password = p
  <2>1. req' = [req EXCEPT ![r] = good] /\ UNCHANGED <<users, web, now>>
    BY <1>3 DEF Authenticate
  <2>2. ReqOk(good)
    BY <1>1, <1>3 DEF ReqOk, PcOk, StandingOk, FollowsUse, NoRequest, Enabled
  <2>3. QED  BY <1>2, <2>1, <2>2, LocalStep
<1>4. CASE ~(Enabled(users[u]) /\ users[u].password = p)
  <2>1. req' = [req EXCEPT ![r] = bad] /\ UNCHANGED <<users, web, now>>
    BY <1>4 DEF Authenticate
  <2>2. bad \in Request  BY <1>2, FinishType DEF Outcomes
  <2>3. ReqOk(bad)
    BY <1>1 DEF ReqOk, PcOk, StandingOk, FollowsUse, Finish, NoRequest
  <2>4. QED  BY <2>1, <2>2, <2>3, LocalStep
<1>5. QED  BY <1>3, <1>4

\* Answering is always in order for a request that the invariant lets answer so.
LEMMA FinishStep ==
    ASSUME IInv, NEW r \in Requests, NEW o \in Outcomes,
           \/ o = "unauthenticated"
           \/ o = "forbidden" /\ req[r].standing >= 1 /\ req[r].op = "admin"
           \/ req[r].op = "view" /\ req[r].standing >= 1
           \/ req[r].standing = 2
    PROVE  Finish(req[r], o) \in Request /\ ReqOk(Finish(req[r], o))
<1>1. now \in Nat /\ req[r] \in Request  BY WebAuthAssumption DEF IInv, TypeOK
<1>2. Finish(req[r], o) \in Request  BY <1>1, FinishType
<1>3. ReqOk(Finish(req[r], o))
  <2>1. /\ Finish(req[r], o).op = req[r].op /\ Finish(req[r], o).pc = "done"
        /\ Finish(req[r], o).outcome = o /\ Finish(req[r], o).stamp = 0
        /\ Finish(req[r], o).standing = req[r].standing /\ req[r].standing \in 0..2
    BY <1>1, FinishType DEF Request
  <2>2. PcOk(Finish(req[r], o)) /\ FollowsUse(Finish(req[r], o))
    BY <1>1, <2>1 DEF PcOk, FollowsUse
  <2>3. StandingOk(Finish(req[r], o))  BY <2>1 DEF StandingOk
  <2>4. QED  BY <2>2, <2>3 DEF ReqOk
<1>4. QED  BY <1>2, <1>3

LEMMA PresentKeepsIInv ==
    ASSUME IInv, NEW r \in Requests, NEW op \in {"view", "admin"}, NEW t \in Tokens,
           Present(r, op, t)
    PROVE  IInv'
<1> DEFINE k == RankUnder(users, t)
           q == [NoRequest EXCEPT !.op = op, !.pc = "select", !.token = t, !.stamp = now,
                                  !.standing = k]
<1>1. now \in Nat /\ k \in 0..2
  BY WebAuthAssumption, RankUnderType DEF IInv, TypeOK
<1>2. req' = [req EXCEPT ![r] = q] /\ UNCHANGED <<users, web, now>>
  BY DEF Present
<1> HIDE DEF k
<1>3. q \in Request  BY <1>1, Nulls DEF NoRequest, Request, Pcs
<1>4. PcOk(q)  BY <1>1 DEF Present, PcOk, NoRequest
<1>5. StandingOk(q)  BY <1>1 DEF StandingOk, NoRequest, k
<1>6. FollowsUse(q)
  <2> SUFFICES ASSUME web[t].state = "live"
               PROVE  \E lo \in web[t].uses : lo <= now
    BY DEF FollowsUse, NoRequest
  <2>1. QED  BY DEF IInv, UseInv
<1>7. QED  BY <1>2, <1>3, <1>4, <1>5, <1>6, LocalStep DEF ReqOk

\* If a use comes before s and one within a TTL of s, one does both.
LEMMA NoHoleCovers ==
    ASSUME NEW uses \in SUBSET Nat, NoHole(uses), NEW s \in Nat,
           NEW lo \in uses, lo <= s,
           NEW last \in uses, s < last + SessionTtl
    PROVE  \E b \in uses : b <= s /\ s < b + SessionTtl
<1>1. CASE last <= s  BY <1>1
<1>2. CASE s < last
  <2>1. PICK b \in uses, c \in uses : b <= s /\ s < c /\ c < b + SessionTtl
    BY <1>2 DEF NoHole
  <2>2. s < b + SessionTtl  BY <2>1, WebAuthAssumption
  <2>3. QED  BY <2>1, <2>2
<1>3. QED  BY <1>1, <1>2

LEMMA SelectKeepsIInv ==
    ASSUME IInv, NEW r \in Requests, Select(r)
    PROVE  IInv'
<1> DEFINE t == req[r].token
           found == [req[r] EXCEPT !.pc = "refresh", !.user = web[t].user,
                                   !.admin = SessionUser(t).admin]
<1>1. /\ req[r] \in Request /\ req[r].pc = "select" /\ req[r].stamp \in Nat
      /\ req[r].standing \in 0..2 /\ ReqOk(req[r])
  BY DEF IInv, TypeOK, ReqInv, Request, Select
<1>2. t \in Tokens /\ web[t] \in WebSession /\ web[t].state # "unused"
  BY <1>1 DEF IInv, TypeOK, ReqOk, PcOk
<1>3. CASE web[t].state = "live" /\ web[t].expires > req[r].stamp /\ Enabled(SessionUser(t))
  <2>1. req' = [req EXCEPT ![r] = found] /\ UNCHANGED <<users, web, now>>
    BY <1>3 DEF Select
  <2>2. web[t].user \in Users /\ SessionUser(t) \in Account
    BY <1>2, <1>3 DEF IInv, TypeOK, WebInv, SessionUser
  <2>3. found \in Request
    <3>1. SessionUser(t).admin \in BOOLEAN  BY <2>2 DEF Account
    <3> HIDE DEF t
    <3>2. QED  BY <1>1, <2>2, <3>1 DEF Request, Pcs
  <2>4. /\ found.op = req[r].op /\ found.token = t /\ found.stamp = req[r].stamp
        /\ found.pc = "refresh" /\ found.outcome = req[r].outcome
        /\ found.standing = req[r].standing /\ found.admin = SessionUser(t).admin
    BY <1>1 DEF Request
  <2>5. PcOk(found)  BY <1>1, <1>2, <2>4 DEF ReqOk, PcOk
  <2>6. StandingOk(found)
    <3>1. RankUnder(users, t) = Rank(SessionUser(t))
      BY <1>2, <2>2, WebAuthAssumption DEF RankUnder, SessionUser
    <3>2. Rank(SessionUser(t)) <= req[r].standing
      BY <1>1, <3>1 DEF ReqOk, StandingOk
    <3>3. /\ Rank(SessionUser(t)) >= 1
          /\ SessionUser(t).admin => Rank(SessionUser(t)) = 2
      BY <1>3 DEF Rank
    <3>4. Rank(SessionUser(t)) \in 0..2  BY <2>2, RankType
    <3>5. req[r].outcome = "none"  BY <1>1 DEF ReqOk, PcOk
    <3>6. QED  BY <1>1, <2>4, <3>2, <3>3, <3>4, <3>5 DEF StandingOk
  <2>7. FollowsUse(found)
    <3>1. PICK lo \in web[t].uses : lo <= req[r].stamp
      BY <1>1, <1>3 DEF ReqOk, FollowsUse
    <3>2. PICK last \in web[t].uses : web[t].expires = last + SessionTtl
      BY <1>2, <1>3 DEF IInv, UseInv
    <3>3. web[t].uses \in SUBSET Nat /\ NoHole(web[t].uses)
      BY <1>2 DEF IInv, UseInv, WebSession
    <3>4. req[r].stamp < last + SessionTtl
      BY <1>1, <1>3, <3>2, <3>3, WebAuthAssumption
    <3>5. \E b \in web[t].uses : b <= req[r].stamp /\ req[r].stamp < b + SessionTtl
      BY <1>1, <3>1, <3>2, <3>3, <3>4, NoHoleCovers
    <3>6. QED  BY <2>4, <3>1, <3>5 DEF FollowsUse
  <2>8. QED  BY <2>1, <2>3, <2>5, <2>6, <2>7, LocalStep DEF ReqOk
<1>4. CASE ~(web[t].state = "live" /\ web[t].expires > req[r].stamp /\ Enabled(SessionUser(t)))
  <2>1. /\ req' = [req EXCEPT ![r] = Finish(req[r], "unauthenticated")]
        /\ UNCHANGED <<users, web, now>>
    BY <1>4 DEF Select
  <2>2. QED  BY <2>1, FinishStep, LocalStep DEF Outcomes
<1>5. QED  BY <1>3, <1>4

\* What require_admin_session makes of a request that was let in is in order.
LEMMA AdmittedOk ==
    ASSUME IInv, NEW r \in Requests, req[r].pc = "refresh"
    PROVE  Admitted(req[r]) \in Request /\ ReqOk(Admitted(req[r]))
<1> DEFINE acting == [Finish(req[r], "none") EXCEPT !.pc = "act"]
<1>1. /\ req[r] \in Request /\ now \in Nat /\ req[r].standing \in 0..2
      /\ req[r].op \in {"view", "admin"} /\ req[r].standing >= 1
      /\ req[r].admin => req[r].standing = 2
  BY WebAuthAssumption DEF IInv, TypeOK, Request, ReqInv, ReqOk, PcOk, StandingOk
<1>2. CASE req[r].op = "view"
  <2>1. Admitted(req[r]) = Finish(req[r], "ok")  BY <1>2 DEF Admitted
  <2>2. QED  BY <1>1, <1>2, <2>1, FinishStep DEF Outcomes
<1>3. CASE req[r].op = "admin" /\ req[r].admin
  <2>1. Admitted(req[r]) = acting  BY <1>3 DEF Admitted
  <2>2. Finish(req[r], "none") \in Request  BY <1>1, FinishType DEF Outcomes
  <2>3. acting \in Request  BY <2>2 DEF Request, Pcs
  <2>4. /\ acting.pc = "act" /\ acting.op = "admin" /\ acting.outcome = "none"
        /\ acting.stamp = 0 /\ acting.standing = 2
    BY <1>1, <1>3, <2>2, FinishType DEF Request, Outcomes
  <2>5. ReqOk(acting)  BY <1>1, <2>4 DEF ReqOk, PcOk, StandingOk, FollowsUse
  <2>6. QED  BY <2>1, <2>3, <2>5
<1>4. CASE req[r].op = "admin" /\ ~req[r].admin
  <2>1. Admitted(req[r]) = Finish(req[r], "forbidden")  BY <1>4 DEF Admitted
  <2>2. QED  BY <1>1, <1>4, <2>1, FinishStep DEF Outcomes
<1>5. QED  BY <1>1, <1>2, <1>3, <1>4

\* A use that follows another within a TTL leaves no hole.
LEMMA NoHoleGrows ==
    ASSUME NEW uses \in SUBSET Nat, NoHole(uses), NEW s \in Nat,
           NEW b \in uses, b <= s, s < b + SessionTtl
    PROVE  NoHole(uses \cup {s})
<1> SUFFICES ASSUME NEW x \in Nat, NEW lo \in uses \cup {s}, NEW hi \in uses \cup {s},
                    lo <= x, x < hi
             PROVE  \E d, c \in uses \cup {s} : d <= x /\ x < c /\ c < d + SessionTtl
  BY DEF NoHole
<1>1. \E low \in uses : low <= x
  <2>1. CASE lo \in uses  BY <2>1
  <2>2. CASE lo = s  BY <2>2
  <2>3. QED  BY <2>1, <2>2
<1>2. CASE \E high \in uses : x < high
  BY <1>1, <1>2 DEF NoHole
<1>3. CASE ~\E high \in uses : x < high
  <2>1. hi = s /\ b <= x  BY <1>3
  <2>2. b <= x /\ x < s /\ s < b + SessionTtl  BY <2>1
  <2>3. QED  BY <2>2
<1>4. QED  BY <1>2, <1>3

LEMMA RefreshKeepsIInv ==
    ASSUME IInv, NEW r \in Requests, Refresh(r)
    PROVE  IInv'
<1> DEFINE t == req[r].token
           s == req[r].stamp
           q == Admitted(req[r])
<1>1. /\ req[r].pc = "refresh" /\ ReqOk(req[r]) /\ s \in Nat /\ s <= now /\ now \in Nat
      /\ t \in Tokens /\ q \in Request /\ ReqOk(q)
      /\ req' = [req EXCEPT ![r] = q] /\ UNCHANGED <<users, now>>
  BY AdmittedOk, WebAuthAssumption DEF Refresh, IInv, TypeOK, Request, ReqInv, ReqOk, PcOk
<1> HIDE DEF q
<1>2. CASE web[t].state = "live"
  <2> DEFINE row == [web[t] EXCEPT !.expires = s + SessionTtl, !.uses = @ \cup {s}]
  <2>1. web \in [Tokens -> WebSession] /\ web[t] \in WebSession
    BY <1>1 DEF IInv, TypeOK
  <2>2. web' = [web EXCEPT ![t] = row]
    BY <1>1, <1>2, <2>1 DEF Refresh, WebSession
  <2>3. /\ row.state = "live" /\ row.user = web[t].user /\ row.expires = s + SessionTtl
        /\ row.uses = web[t].uses \cup {s} /\ row \in WebSession
    <3> DEFINE w == web[t]
               e == s + SessionTtl
               used == web[t].uses \cup {s}
    <3>1. e \in Nat  BY <1>1, WebAuthAssumption
    <3>2. used \in SUBSET Nat  BY <1>1, <2>1 DEF WebSession
    <3>3. row = [w EXCEPT !.expires = e, !.uses = used]  OBVIOUS
    <3>4. w \in WebSession  BY <2>1
    <3> HIDE DEF t, s, row, e, used, w
    <3>5. /\ row \in WebSession /\ row.state = w.state /\ row.user = w.user
          /\ row.expires = e /\ row.uses = used
      BY <3>1, <3>2, <3>3, <3>4 DEF WebSession
    <3>6. QED  BY <1>2, <3>5 DEF e, used, w
  <2> HIDE DEF row
  <2>4. web' \in [Tokens -> WebSession] /\ web'[t] = row
        /\ \A x \in Tokens : x # t => web'[x] = web[x]
    BY <1>1, <2>1, <2>2, <2>3
  <2>5. TypeOK'  BY <1>1, <2>4 DEF IInv, TypeOK
  <2>6. WebInv'  BY <1>1, <1>2, <2>3, <2>4 DEF IInv, WebInv
  <2>7. UseInv'
    <3>1. PICK b \in web[t].uses : b <= s /\ s < b + SessionTtl
      BY <1>1, <1>2 DEF ReqOk, FollowsUse
    <3>2. web[t].uses \in SUBSET Nat /\ NoHole(web[t].uses)
      BY <1>1, <2>1 DEF IInv, UseInv, WebSession
    <3>3. NoHole(row.uses)  BY <1>1, <2>3, <3>1, <3>2, NoHoleGrows
    <3>4. \A x \in row.uses : x <= now
      BY <1>1, <1>2, <2>3 DEF IInv, UseInv
    <3>5. s \in row.uses  BY <2>3
    <3>6. ASSUME NEW x \in Tokens
          PROVE  /\ NoHole(web'[x].uses)
                 /\ web'[x].state = "live" =>
                      /\ \E last \in web'[x].uses : web'[x].expires = last + SessionTtl
                      /\ \A y \in web'[x].uses : y <= now'
      <4>1. CASE x = t  BY <1>1, <2>3, <2>4, <3>3, <3>4, <3>5, <4>1
      <4>2. CASE x # t  BY <1>1, <2>4, <4>2 DEF IInv, UseInv
      <4>3. QED  BY <4>1, <4>2
    <3>7. QED  BY <3>6 DEF UseInv, NoHole
  <2>8. \A p \in Request : ReqOk(p) => ReqOk(p)'
    <3> SUFFICES ASSUME NEW p \in Request, ReqOk(p) PROVE ReqOk(p)'
      OBVIOUS
    <3>1. p.token \in Tokens \cup {NoToken}  BY DEF Request
    <3>2. PcOk(p)'  BY <1>1, <2>3, <2>4 DEF ReqOk, PcOk
    <3>3. RankUnder(users, p.token)' = RankUnder(users, p.token)
      BY <1>1, <2>3, <2>4, <3>1 DEF RankUnder, Rank, Enabled
    <3>4. StandingOk(p)'  BY <1>1, <3>3 DEF ReqOk, StandingOk
    <3>5. FollowsUse(p)'
      <4>1. CASE p.token = t
        BY <1>1, <1>2, <2>3, <2>4, <4>1 DEF ReqOk, FollowsUse
      <4>2. CASE p.token # t
        <5>1. p.pc \in {"select", "refresh"} => web'[p.token] = web[p.token]
          BY <2>4, <4>2 DEF ReqOk, PcOk
        <5>2. QED  BY <5>1 DEF ReqOk, FollowsUse
      <4>3. QED  BY <4>1, <4>2
    <3>6. QED  BY <3>2, <3>4, <3>5 DEF ReqOk
  <2>9. ReqInv'
    <3>1. req \in [Requests -> Request] /\ \A p \in Requests : ReqOk(req[p])
      BY DEF IInv, TypeOK, ReqInv
    <3>2. \A p \in Requests : req'[p] \in Request /\ ReqOk(req'[p])
      BY <1>1, <3>1
    <3>3. QED  BY <2>8, <3>2 DEF ReqInv
  <2>10. QED  BY <2>5, <2>6, <2>7, <2>9 DEF IInv
<1>3. CASE web[t].state # "live"
  <2>1. UNCHANGED web  BY <1>3 DEF Refresh
  <2>2. QED  BY <1>1, <2>1, LocalStep
<1>4. QED  BY <1>2, <1>3

LEMMA ViewKeepsIInv ==
    ASSUME IInv, NEW r \in Requests, View(r)
    PROVE  IInv'
<1>1. req[r].standing = 2  BY DEF View, IInv, ReqInv, ReqOk, StandingOk
<1>2. QED  BY <1>1, FinishStep, LocalStep DEF View, Outcomes

LEMMA UpdateReadKeepsIInv ==
    ASSUME IInv, NEW r \in Requests, NEW u \in Users, NEW change \in Payloads,
           UpdateRead(r, u, change)
    PROVE  IInv'
<1> DEFINE fields == Differing(users[u], change)
           q == [req[r] EXCEPT !.pc = "write", !.target = u, !.change = change,
                               !.written = fields]
<1>1. /\ req[r] \in Request /\ req[r].pc = "act" /\ ReqOk(req[r]) /\ change \in Change
  BY WebAuthAssumption DEF UpdateRead, IInv, TypeOK, ReqInv
<1>2. req[r].standing = 2 /\ req[r].op = "admin" /\ req[r].outcome = "none"
      /\ req[r].stamp <= now
  BY <1>1 DEF ReqOk, PcOk, StandingOk
<1>3. CASE users[u].known
  <2>1. req' = [req EXCEPT ![r] = q] /\ UNCHANGED <<users, web, now>>
    BY <1>3 DEF UpdateRead
  <2>2. fields \subseteq change.asked /\ fields \subseteq Fields
    BY <1>1 DEF Differing, Change
  <2> HIDE DEF fields
  <2>3. q \in Request  BY <1>1, <2>2 DEF Request, Pcs
  <2>4. /\ q.pc = "write" /\ q.target = u /\ q.change = change /\ q.written = fields
        /\ q.op = "admin" /\ q.outcome = "none" /\ q.stamp <= now /\ q.standing = 2
    BY <1>1, <1>2 DEF Request
  <2>5. ReqOk(q)
    BY <1>1, <1>3, <2>2, <2>4 DEF ReqOk, PcOk, StandingOk, FollowsUse
  <2>6. QED  BY <2>1, <2>3, <2>5, LocalStep
<1>4. CASE ~users[u].known
  <2>1. req' = [req EXCEPT ![r] = Finish(req[r], "unknown")] /\ UNCHANGED <<users, web, now>>
    BY <1>4 DEF UpdateRead
  <2>2. QED  BY <1>2, <2>1, FinishStep, LocalStep DEF Outcomes
<1>5. QED  BY <1>3, <1>4

LEMMA ReturnKeepsIInv ==
    ASSUME IInv, NEW r \in Requests, Return(r)
    PROVE  IInv'
<1>1. now \in Nat  BY WebAuthAssumption DEF IInv, TypeOK
<1>2. QED  BY <1>1, Nulls, EmptyOk, LocalStep DEF Return

\* A row changes under a token that no request holds before or after its select.
LEMMA CreateSessionKeepsIInv ==
    ASSUME IInv, NEW r \in Requests, NEW t \in Tokens, CreateSession(r, t)
    PROVE  IInv'
<1> DEFINE s == req[r].stamp
           e == s + SessionTtl
           row == [state |-> "live", user |-> req[r].user, expires |-> e, uses |-> {s}]
           q == Finish(req[r], "signed_in")
<1>1. /\ req[r] \in Request /\ req[r].pc = "create" /\ ReqOk(req[r])
      /\ s \in Nat /\ s <= now /\ now \in Nat /\ req[r].op = "login"
      /\ req[r].user \in Users /\ users[req[r].user].known
  BY WebAuthAssumption DEF CreateSession, IInv, TypeOK, Request, ReqInv, ReqOk, PcOk
<1>2. /\ web[t].state = "unused" /\ web' = [web EXCEPT ![t] = row]
      /\ req' = [req EXCEPT ![r] = q] /\ UNCHANGED <<users, now>>
  BY DEF CreateSession
<1>3. e \in Nat  BY <1>1, WebAuthAssumption
<1> HIDE DEF e
<1>4. row \in WebSession  BY <1>1, <1>3 DEF WebSession
<1>5. q \in Request /\ ReqOk(q)
  <2>1. q \in Request  BY <1>1, FinishType DEF Outcomes
  <2>2. /\ q.op = "login" /\ q.pc = "done" /\ q.outcome = "signed_in" /\ q.stamp = 0
    BY <1>1, FinishType DEF Outcomes
  <2>3. QED  BY <1>1, <2>1, <2>2 DEF ReqOk, PcOk, StandingOk, FollowsUse
<1>6. /\ row.state = "live" /\ row.user = req[r].user /\ row.expires = s + SessionTtl
      /\ row.uses = {s}
  BY DEF e
<1> HIDE DEF row, q
<1>7. /\ web' \in [Tokens -> WebSession] /\ web'[t] = row
      /\ \A x \in Tokens : x # t => web'[x] = web[x]
  BY <1>2, <1>4 DEF IInv, TypeOK
<1>8. TypeOK'  BY <1>2, <1>5, <1>7 DEF IInv, TypeOK
<1>9. WebInv'  BY <1>1, <1>2, <1>6, <1>7 DEF IInv, WebInv
<1>10. UseInv'
  <2>1. NoHole({s})  BY <1>1 DEF NoHole
  <2>2. ASSUME NEW x \in Tokens
        PROVE  /\ NoHole(web'[x].uses)
               /\ web'[x].state = "live" =>
                    /\ \E last \in web'[x].uses : web'[x].expires = last + SessionTtl
                    /\ \A y \in web'[x].uses : y <= now'
    <3>1. CASE x = t  BY <1>1, <1>2, <1>6, <1>7, <2>1, <3>1
    <3>2. CASE x # t  BY <1>2, <1>7, <3>2 DEF IInv, UseInv
    <3>3. QED  BY <3>1, <3>2
  <2>3. QED  BY <2>2 DEF UseInv, NoHole
<1>11. \A p \in Request : ReqOk(p) => ReqOk(p)'
  <2> SUFFICES ASSUME NEW p \in Request, ReqOk(p) PROVE ReqOk(p)'
    OBVIOUS
  <2>1. p.pc \in {"select", "refresh"} => p.token \in Tokens /\ web'[p.token] = web[p.token]
    BY <1>2, <1>7 DEF ReqOk, PcOk
  <2>2. PcOk(p)'  BY <1>2, <2>1 DEF ReqOk, PcOk
  <2>3. p.pc = "select" => RankUnder(users, p.token)' = RankUnder(users, p.token)
    BY <1>2, <2>1 DEF RankUnder, Rank, Enabled
  <2>4. StandingOk(p)'  BY <1>2, <2>3 DEF ReqOk, StandingOk
  <2>5. FollowsUse(p)'  BY <2>1 DEF ReqOk, FollowsUse
  <2>6. QED  BY <2>2, <2>4, <2>5 DEF ReqOk
<1>12. ReqInv'
  <2>1. req \in [Requests -> Request] /\ \A p \in Requests : ReqOk(req[p])
    BY DEF IInv, TypeOK, ReqInv
  <2>2. \A p \in Requests : req'[p] \in Request /\ ReqOk(req'[p])
    BY <1>2, <1>5, <2>1
  <2>3. QED  BY <1>11, <2>2 DEF ReqInv
<1>13. QED  BY <1>8, <1>9, <1>10, <1>12 DEF IInv

LEMMA LogoutKeepsIInv ==
    ASSUME IInv, NEW t \in Tokens, Logout(t)
    PROVE  IInv'
<1> DEFINE row == [NoWebSession EXCEPT !.state = "revoked"]
<1>1. web' = [web EXCEPT ![t] = row] /\ UNCHANGED <<users, now, req>>
  BY DEF Logout
<1>2. /\ row \in WebSession /\ row.state = "revoked" /\ row.user = NoUser /\ row.uses = {}
  BY Nulls DEF NoWebSession, WebSession
<1> HIDE DEF row
<1>3. /\ web' \in [Tokens -> WebSession] /\ web'[t] = row
      /\ \A x \in Tokens : x # t => web'[x] = web[x]
  BY <1>1, <1>2 DEF IInv, TypeOK
<1>4. TypeOK'  BY <1>1, <1>3 DEF IInv, TypeOK
<1>5. WebInv'  BY <1>1, <1>2, <1>3 DEF IInv, WebInv
<1>6. UseInv'
  <2>1. ASSUME NEW x \in Tokens
        PROVE  /\ NoHole(web'[x].uses)
               /\ web'[x].state = "live" =>
                    /\ \E last \in web'[x].uses : web'[x].expires = last + SessionTtl
                    /\ \A y \in web'[x].uses : y <= now'
    <3>1. CASE x = t  BY <1>2, <1>3, <3>1 DEF NoHole
    <3>2. CASE x # t  BY <1>1, <1>3, <3>2 DEF IInv, UseInv
    <3>3. QED  BY <3>1, <3>2
  <2>2. QED  BY <2>1 DEF UseInv, NoHole
<1>7. ASSUME NEW p \in Request, ReqOk(p)
      PROVE  ReqOk(p)'
  <2>1. p.standing \in 0..2 /\ p.token \in Tokens \cup {NoToken}  BY DEF Request
  <2>2. PcOk(p)'  BY <1>1, <1>2, <1>3, <1>7 DEF ReqOk, PcOk
  <2>3. p.pc = "select" => RankUnder(users, p.token)' <= p.standing
    <3>1. CASE p.token = t
      <4>1. RankUnder(users, p.token)' = 0  BY <1>2, <1>3, <3>1 DEF RankUnder
      <4>2. QED  BY <2>1, <4>1
    <3>2. CASE p.token # t
      <4>1. RankUnder(users, p.token)' = RankUnder(users, p.token)
        BY <1>1, <1>3, <2>1, <3>2 DEF RankUnder, Rank, Enabled
      <4>2. QED  BY <1>7, <4>1 DEF ReqOk, StandingOk
    <3>3. QED  BY <3>1, <3>2
  <2>4. StandingOk(p)'  BY <1>1, <1>7, <2>3 DEF ReqOk, StandingOk
  <2>5. FollowsUse(p)'
    <3>1. p.pc \in {"select", "refresh"} => p.token \in Tokens  BY <1>7 DEF ReqOk, PcOk
    <3>2. QED  BY <1>2, <1>3, <1>7, <3>1 DEF ReqOk, FollowsUse
  <2>6. QED  BY <2>2, <2>4, <2>5 DEF ReqOk
<1>8. ReqInv'  BY <1>1, <1>7 DEF IInv, TypeOK, ReqInv
<1>9. QED  BY <1>4, <1>5, <1>6, <1>8 DEF IInv

LEMMA TickKeepsIInv ==
    ASSUME IInv, Tick
    PROVE  IInv'
<1>1. /\ now \in Nat /\ now' = now + 1 /\ now' \in 0..MaxTime
      /\ UNCHANGED <<users, web, req>>
  BY WebAuthAssumption DEF IInv, TypeOK, Tick
<1>2. TypeOK'  BY <1>1 DEF IInv, TypeOK
<1>3. WebInv'  BY <1>1 DEF IInv, WebInv
<1>4. UseInv'
  <2>1. \A t \in Tokens : web[t].uses \subseteq Nat  BY DEF IInv, TypeOK, WebSession
  <2>2. QED  BY <1>1, <2>1 DEF IInv, UseInv, NoHole
<1>5. ReqInv'
  <2>1. ASSUME NEW p \in Requests PROVE ReqOk(req[p])'
    <3>1. req[p].stamp \in Nat /\ ReqOk(req[p])  BY DEF IInv, TypeOK, Request, ReqInv
    <3>2. PcOk(req[p])'  BY <1>1, <3>1 DEF ReqOk, PcOk
    <3>3. StandingOk(req[p])' /\ FollowsUse(req[p])'
      BY <1>1, <3>1 DEF ReqOk, StandingOk, FollowsUse, RankUnder, Rank, Enabled
    <3>4. QED  BY <3>2, <3>3 DEF ReqOk
  <2>2. QED  BY <1>1, <2>1 DEF ReqInv
<1>6. QED  BY <1>2, <1>3, <1>4, <1>5 DEF IInv

\* A step on the users' table that removes nobody leaves all but the standings.
LEMMA UsersStep ==
    ASSUME IInv, users' \in [Users -> Account], UNCHANGED <<web, now>>,
           \A u \in Users : users[u].known => users'[u].known
    PROVE  /\ WebInv' /\ UseInv'
           /\ \A p \in Request : PcOk(p) => PcOk(p)'
           /\ \A p \in Request : FollowsUse(p) => FollowsUse(p)'
<1>1. WebInv'  BY DEF IInv, WebInv
<1>2. UseInv'  BY DEF IInv, UseInv, NoHole
<1>3. \A p \in Request : PcOk(p) => PcOk(p)'  BY DEF PcOk
<1>4. \A p \in Request : FollowsUse(p) => FollowsUse(p)'  BY DEF FollowsUse
<1>5. QED  BY <1>1, <1>2, <1>3, <1>4

LEMMA CreateUserKeepsIInv ==
    ASSUME IInv, NEW r \in Requests, NEW u \in Users, NEW body \in Registrations,
           CreateUser(r, u, body)
    PROVE  IInv'
<1> DEFINE account == [known |-> TRUE, password |-> body.password, admin |-> body.admin,
                       disabled |-> FALSE]
           q == Finish(req[r], "ok")
<1>1. req[r].standing = 2
  BY DEF CreateUser, IInv, ReqInv, ReqOk, StandingOk
<1>2. CASE users[u].known
  <2>1. req' = [req EXCEPT ![r] = Finish(req[r], "conflict")] /\ UNCHANGED <<users, web, now>>
    BY <1>2 DEF CreateUser
  <2>2. QED  BY <1>1, <2>1, FinishStep, LocalStep DEF Outcomes
<1>3. CASE ~users[u].known
  <2>1. /\ users' = [users EXCEPT ![u] = account]
        /\ req' = [req EXCEPT ![r] = q] /\ UNCHANGED <<web, now>>
    BY <1>3 DEF CreateUser
  <2>2. account \in Account  BY WebAuthAssumption DEF Registration, Account
  <2>3. q \in Request /\ ReqOk(q) /\ q.pc = "done"
    <3>1. q \in Request /\ ReqOk(q)  BY <1>1, FinishStep DEF Outcomes
    <3>2. q.pc = "done"  BY FinishType DEF IInv, TypeOK, Outcomes
    <3>3. QED  BY <3>1, <3>2
  <2>4. account.known  OBVIOUS
  <2> HIDE DEF account, q
  <2>5. /\ users' \in [Users -> Account]
        /\ \A v \in Users : users[v].known => users'[v] = users[v]
        /\ \A v \in Users : users[v].known => users'[v].known
    BY <1>3, <2>1, <2>2, <2>4 DEF IInv, TypeOK
  <2>6. TypeOK'  BY <2>1, <2>3, <2>5 DEF IInv, TypeOK
  <2>7. /\ WebInv' /\ UseInv'
        /\ \A p \in Request : PcOk(p) => PcOk(p)'
        /\ \A p \in Request : FollowsUse(p) => FollowsUse(p)'
    BY <2>1, <2>5, UsersStep
  <2>8. ASSUME NEW p \in Request, ReqOk(p) PROVE ReqOk(p)'
    <3>1. p.token \in Tokens \cup {NoToken}  BY DEF Request
    <3>2. RankUnder(users, p.token)' = RankUnder(users, p.token)
      <4>1. CASE p.token = NoToken  BY <4>1 DEF RankUnder
      <4>2. CASE p.token \in Tokens /\ web[p.token].user = NoUser
        BY <2>1, <4>2 DEF RankUnder
      <4>3. CASE p.token \in Tokens /\ web[p.token].user # NoUser
        <5>1. web[p.token].user \in Users /\ users[web[p.token].user].known
          BY <4>3 DEF IInv, WebInv
        <5>2. users'[web[p.token].user] = users[web[p.token].user]  BY <2>5, <5>1
        <5>3. QED  BY <2>1, <5>2 DEF RankUnder, Rank, Enabled
      <4>4. QED  BY <3>1, <4>1, <4>2, <4>3
    <3>3. StandingOk(p)'  BY <2>8, <3>2 DEF ReqOk, StandingOk
    <3>4. QED  BY <2>7, <2>8, <3>3 DEF ReqOk
  <2>9. ReqInv'
    <3>1. req \in [Requests -> Request] /\ \A p \in Requests : ReqOk(req[p])
      BY DEF IInv, TypeOK, ReqInv
    <3>2. \A p \in Requests : req'[p] \in Request /\ ReqOk(req'[p])
      BY <2>1, <2>3, <3>1
    <3>3. QED  BY <2>8, <3>2 DEF ReqInv
  <2>10. QED  BY <2>6, <2>7, <2>9 DEF IInv
<1>4. QED  BY <1>2, <1>3

LEMMA UpdatedType ==
    ASSUME NEW account \in Account, NEW change \in Change, NEW fields
    PROVE  /\ Updated(account, change, fields) \in Account
           /\ Updated(account, change, fields).known = account.known
           /\ "password" \notin fields =>
                Updated(account, change, fields).password = account.password
           /\ "admin" \notin fields =>
                Updated(account, change, fields).admin = account.admin
           /\ "disabled" \notin fields =>
                Updated(account, change, fields).disabled = account.disabled
BY DEF Updated, Account, Change

\* A request that was in order is so with its standing raised to the new rank.
LEMMA RaisedOk ==
    ASSUME IInv, users' \in [Users -> Account], UNCHANGED <<web, now>>,
           \A u \in Users : users[u].known => users'[u].known,
           NEW r \in Requests, NEW x, x = Raised(users', r)
    PROVE  x \in Request /\ ReqOk(x)'
<1> DEFINE q == req[r]
           k == RankUnder(users', req[r].token)
<1>1. q \in Request /\ ReqOk(q) /\ q.standing \in 0..2 /\ q.token \in Tokens \cup {NoToken}
  BY DEF IInv, TypeOK, ReqInv, Request
<1>2. x \in Request /\ \E n \in 0..2 :
        x = [q EXCEPT !.standing = n] /\ n >= q.standing /\ n >= k
  BY RaisedType DEF IInv
<1>3. PICK n \in 0..2 : x = [q EXCEPT !.standing = n] /\ n >= q.standing /\ n >= k
  BY <1>2
<1>4. q.pc = "idle" => x = q
  <2>1. q.pc = "idle" => q.token = NoToken /\ q.standing = 0
    BY <1>1 DEF ReqOk, PcOk, NoRequest
  <2>2. QED  BY <2>1 DEF Raised, RankUnder
<1>5. /\ x.pc = q.pc /\ x.op = q.op /\ x.token = q.token /\ x.stamp = q.stamp
      /\ x.user = q.user /\ x.admin = q.admin /\ x.target = q.target
      /\ x.change = q.change /\ x.written = q.written /\ x.outcome = q.outcome
      /\ x.standing = n
  BY <1>1, <1>3 DEF Request
<1>6. RankUnder(users, x.token)' = k
  BY <1>5 DEF RankUnder, Rank, Enabled
<1> HIDE DEF k
<1>7. PcOk(x)  BY <1>1, <1>4, <1>5 DEF ReqOk, PcOk
<1>8. FollowsUse(x)  BY <1>1, <1>5 DEF ReqOk, FollowsUse
<1>9. StandingOk(x)'  BY <1>1, <1>3, <1>5, <1>6 DEF ReqOk, StandingOk
<1>10. PcOk(x)' /\ FollowsUse(x)'  BY <1>2, <1>7, <1>8, UsersStep
<1>11. QED  BY <1>2, <1>9, <1>10 DEF ReqOk

LEMMA UpdateWriteKeepsIInv ==
    ASSUME IInv, NEW r \in Requests, UpdateWrite(r)
    PROVE  IInv'
<1> DEFINE target == req[r].target
           account == Updated(users[target], req[r].change, req[r].written)
           q == Finish(req[r], "ok")
<1>1. /\ target \in Users /\ users[target].known /\ req[r].change \in Change
      /\ req[r].standing = 2 /\ users[target] \in Account
  BY DEF UpdateWrite, IInv, TypeOK, ReqInv, ReqOk, PcOk, StandingOk
<1>2. /\ users' = [users EXCEPT ![target] = account]
      /\ req' = [p \in Requests |-> IF p = r THEN q ELSE Raised(users', p)]
      /\ UNCHANGED <<web, now>>
  BY DEF UpdateWrite
<1>3. account \in Account /\ account.known = users[target].known
  BY <1>1, UpdatedType
<1>4. q \in Request /\ ReqOk(q)  BY <1>1, FinishStep DEF Outcomes
<1> HIDE DEF account, q, target
<1>5. /\ users' \in [Users -> Account]
      /\ \A u \in Users : users[u].known => users'[u].known
  BY <1>1, <1>2, <1>3 DEF IInv, TypeOK
<1>6. ASSUME NEW p \in Requests
      PROVE  req'[p] \in Request /\ ReqOk(req[p])'
  <2>1. CASE p = r
    <3> SUFFICES ASSUME NEW x, x = req'[p] PROVE x \in Request /\ ReqOk(x)'
      BY DEF ReqOk, PcOk, StandingOk, FollowsUse, RankUnder, Rank, Enabled
    <3>1. x = q  BY <1>2, <2>1
    <3>2. x \in Request /\ ReqOk(x)  BY <1>4, <3>1
    <3>3. PcOk(x)' /\ FollowsUse(x)'  BY <1>2, <1>5, <3>2, UsersStep DEF ReqOk
    <3>4. x.pc # "select"  BY <3>1, FinishType DEF q, IInv, TypeOK, Outcomes
    <3>5. StandingOk(x)'  BY <3>2, <3>4 DEF ReqOk, StandingOk
    <3>6. QED  BY <3>2, <3>3, <3>5 DEF ReqOk
  <2>2. CASE p # r
    <3> SUFFICES ASSUME NEW x, x = req'[p] PROVE x \in Request /\ ReqOk(x)'
      BY DEF ReqOk, PcOk, StandingOk, FollowsUse, RankUnder, Rank, Enabled
    <3>1. x = Raised(users', p)  BY <1>2, <2>2
    <3>2. QED  BY <1>2, <1>5, <3>1, RaisedOk
  <2>3. QED  BY <2>1, <2>2
<1>7. TypeOK'
  <2>1. req' \in [Requests -> Request]  BY <1>2, <1>6
  <2>2. QED  BY <1>2, <1>5, <2>1 DEF IInv, TypeOK
<1>8. ReqInv'  BY <1>6 DEF ReqInv
<1>9. WebInv' /\ UseInv'  BY <1>2, <1>5, UsersStep
<1>10. QED  BY <1>7, <1>8, <1>9 DEF IInv

LEMMA RestartKeepsIInv ==
    ASSUME IInv, Restart
    PROVE  IInv'
<1>1. /\ users' = [users EXCEPT ![DevUser].admin = TRUE]
      /\ req' = [r \in Requests |-> NoRequest] /\ UNCHANGED <<web, now>>
  BY DEF Restart
<1>2. /\ users' \in [Users -> Account]
      /\ \A u \in Users : users[u].known => users'[u].known
  <2>1. users \in [Users -> Account]  BY DEF IInv, TypeOK
  <2>2. ASSUME NEW a \in Account
        PROVE  [a EXCEPT !.admin = TRUE] \in Account
               /\ [a EXCEPT !.admin = TRUE].known = a.known
    BY DEF Account
  <2>3. QED  BY <1>1, <2>1, <2>2
<1>3. TypeOK'  BY <1>1, <1>2, Nulls DEF IInv, TypeOK
<1>4. WebInv' /\ UseInv'  BY <1>1, <1>2, UsersStep
<1>5. ReqInv'
  <2>1. now' \in Nat  BY <1>1, WebAuthAssumption DEF IInv, TypeOK
  <2>2. ReqOk(NoRequest)'  BY <2>1 DEF ReqOk, PcOk, StandingOk, FollowsUse, NoRequest
  <2>3. QED
    <3> SUFFICES ASSUME NEW r \in Requests PROVE ReqOk(req[r])'  BY DEF ReqInv
    <3>1. req'[r] = NoRequest  BY <1>1
    <3>2. QED  BY <2>2, <3>1 DEF ReqOk, PcOk, StandingOk, FollowsUse, RankUnder, Rank, Enabled
<1>6. QED  BY <1>3, <1>4, <1>5 DEF IInv

LEMMA NextKeepsIInv == IInv /\ [Next]_vars => IInv'
<1> SUFFICES ASSUME IInv, [Next]_vars PROVE IInv'  OBVIOUS
<1>1. ASSUME NEW r \in Requests, NEW u \in Users, NEW p \in Passwords, Authenticate(r, u, p)
      PROVE  IInv'
  BY <1>1, AuthenticateKeepsIInv
<1>2. ASSUME NEW r \in Requests, NEW t \in Tokens, CreateSession(r, t) PROVE IInv'
  BY <1>2, CreateSessionKeepsIInv
<1>3. ASSUME NEW r \in Requests, NEW op \in {"view", "admin"}, NEW t \in Tokens,
             Present(r, op, t)
      PROVE  IInv'
  BY <1>3, PresentKeepsIInv
<1>4. ASSUME NEW r \in Requests, Select(r) PROVE IInv'  BY <1>4, SelectKeepsIInv
<1>5. ASSUME NEW r \in Requests, Refresh(r) PROVE IInv'  BY <1>5, RefreshKeepsIInv
<1>6. ASSUME NEW r \in Requests, View(r) PROVE IInv'  BY <1>6, ViewKeepsIInv
<1>7. ASSUME NEW r \in Requests, NEW u \in Users, NEW body \in Registrations,
             CreateUser(r, u, body)
      PROVE  IInv'
  BY <1>7, CreateUserKeepsIInv
<1>8. ASSUME NEW r \in Requests, NEW u \in Users, NEW change \in Payloads,
             UpdateRead(r, u, change)
      PROVE  IInv'
  BY <1>8, UpdateReadKeepsIInv
<1>9. ASSUME NEW r \in Requests, UpdateWrite(r) PROVE IInv'  BY <1>9, UpdateWriteKeepsIInv
<1>10. ASSUME NEW r \in Requests, Return(r) PROVE IInv'  BY <1>10, ReturnKeepsIInv
<1>11. ASSUME NEW t \in Tokens, Logout(t) PROVE IInv'  BY <1>11, LogoutKeepsIInv
<1>12. CASE Restart  BY <1>12, RestartKeepsIInv
<1>13. CASE Tick  BY <1>13, TickKeepsIInv
<1>14. CASE UNCHANGED vars
  BY <1>14 DEF vars, IInv, TypeOK, WebInv, UseInv, NoHole, ReqInv, ReqOk, PcOk, StandingOk,
               FollowsUse, RankUnder, Rank, Enabled
<1>15. QED
  BY <1>1, <1>2, <1>3, <1>4, <1>5, <1>6, <1>7, <1>8, <1>9, <1>10, <1>11, <1>12, <1>13, <1>14
     DEF Next

------------------------------------------------------------------------------
\* The inductive invariant holds in every reachable state: rows of sessions
\* belong to users that are there, uses leave no hole, and each request holds
\* what its place in resolve_session, the routes or update_user requires
\* (service.py:93-223).
THEOREM Invariance == Spec => []IInv
<1>1. Init => IInv  BY InitEstablishesIInv
<1>2. IInv /\ [Next]_vars => IInv'  BY NextKeepsIInv
<1>3. QED  BY <1>1, <1>2, PTL DEF Spec

\* Users, sessions and requests keep the shapes the tables and the routes give
\* them (models/orm/auth.py, service.py:226-246).
THEOREM TypeCorrect == Spec => []TypeOK
<1>1. IInv => TypeOK  BY DEF IInv
<1>2. QED  BY <1>1, Invariance, PTL

\* Nobody's request is accepted, or acts as an administrator's, whose user had
\* not the standing for it since the request was made (service.py:124-153,
\* dependencies.py:11-44).
THEOREM StandingSafety == Spec => []AcceptedHasStanding
<1>1. IInv => AcceptedHasStanding  BY IInvImpliesStanding
<1>2. QED  BY <1>1, Invariance, PTL

\* Every use of a session but its first comes less than a TTL after an earlier
\* one, in whatever order overlapping requests move the expiry
\* (service.py:106-153).
THEOREM ExpirySafety == Spec => []UsesLeaveNoGap
<1>1. IInv => UsesLeaveNoGap
  <2> SUFFICES ASSUME IInv, NEW t \in Tokens, NEW s \in web[t].uses,
                      NEW other \in web[t].uses, ~(s <= other)
               PROVE  \E before \in web[t].uses : before < s /\ s < before + SessionTtl
    BY DEF UsesLeaveNoGap
  <2>1. web[t].uses \subseteq Nat /\ NoHole(web[t].uses)
    BY DEF IInv, TypeOK, WebSession, UseInv
  <2>2. s \in Nat /\ other \in Nat /\ s - 1 \in Nat /\ other <= s - 1 /\ s - 1 < s
    BY <2>1
  <2>3. PICK b \in web[t].uses, c \in web[t].uses :
          b <= s - 1 /\ s - 1 < c /\ c < b + SessionTtl
    BY <2>1, <2>2 DEF NoHole
  <2>4. b < s /\ s < b + SessionTtl  BY <2>1, <2>2, <2>3, WebAuthAssumption
  <2>5. QED  BY <2>4
<1>2. QED  BY <1>1, Invariance, PTL

\* Where a step takes the program counter of a request that is not its own.
LEMMA OthersKeepTheirPlace ==
    ASSUME IInv, NEW q \in Requests, UpdateWrite(q), NEW r \in Requests, r # q
    PROVE  req'[r].pc = req[r].pc
<1>1. req'[r] = Raised(users', r)  BY DEF UpdateWrite
<1>2. req[r] \in Request  BY DEF IInv, TypeOK
<1>3. QED  BY <1>1, <1>2 DEF Raised, Request

\* A session that was logged out is never live again and lets no request in
\* that it had not let in already (service.py:124-168).
THEOREM RevocationSafety == Spec => RevokedIsFinal
<1> DEFINE Final(t) ==
      web[t].state = "revoked" =>
        /\ web'[t].state = "revoked"
        /\ \A r \in Requests :
             req[r].pc = "select" /\ req[r].token = t => req'[r].pc # "refresh"
<1>1. IInv /\ [Next]_vars => \A t \in Tokens : Final(t)
  <2> SUFFICES ASSUME IInv, [Next]_vars, NEW t \in Tokens, web[t].state = "revoked"
               PROVE  /\ web'[t].state = "revoked"
                      /\ \A r \in Requests :
                           req[r].pc = "select" /\ req[r].token = t => req'[r].pc # "refresh"
    OBVIOUS
  <2>0. web \in [Tokens -> WebSession] /\ req \in [Requests -> Request]
    BY DEF IInv, TypeOK
  <2>1. web'[t].state = "revoked"
    <3>1. ASSUME NEW r \in Requests, NEW x \in Tokens, CreateSession(r, x)
          PROVE  web'[t] = web[t]
      BY <2>0, <3>1 DEF CreateSession
    <3>2. ASSUME NEW r \in Requests, Refresh(r) PROVE web'[t] = web[t]
      BY <2>0, <3>2 DEF Refresh
    <3>3. ASSUME NEW x \in Tokens, Logout(x) PROVE web'[t].state = "revoked"
      BY <2>0, <3>3 DEF Logout, NoWebSession
    <3>4. QED
      BY <3>1, <3>2, <3>3
         DEF Next, vars, Authenticate, Present, Select, View, CreateUser, UpdateRead,
             UpdateWrite, Return, Restart, Tick
  <2>2. ASSUME NEW r \in Requests, req[r].pc = "select", req[r].token = t
        PROVE  req'[r].pc # "refresh"
    <3>1. CASE Select(r)
      <4>1. req'[r] = Finish(req[r], "unauthenticated")  BY <2>0, <2>2, <3>1 DEF Select
      <4>2. QED  BY <2>0, <4>1, FinishType DEF Outcomes
    <3>2. ASSUME NEW q \in Requests, UpdateWrite(q) PROVE req'[r].pc = "select"
      BY <2>2, <3>2, OthersKeepTheirPlace DEF UpdateWrite
    <3>3. CASE Restart  BY <3>3 DEF Restart, NoRequest
    <3>4. ASSUME NEW q \in Requests, q # r, Select(q) PROVE req'[r] = req[r]
      BY <2>0, <3>4 DEF Select
    <3>5. ASSUME NEW q \in Requests, Refresh(q) PROVE req'[r] = req[r]
      BY <2>0, <2>2, <3>5 DEF Refresh
    <3>6. ASSUME NEW q \in Requests,
                 \/ \E u \in Users, p \in Passwords : Authenticate(q, u, p)
                 \/ \E x \in Tokens : CreateSession(q, x)
                 \/ \E op \in {"view", "admin"}, x \in Tokens : Present(q, op, x)
                 \/ View(q)
                 \/ \E u \in Users, body \in Registrations : CreateUser(q, u, body)
                 \/ \E u \in Users, change \in Payloads : UpdateRead(q, u, change)
                 \/ Return(q)
          PROVE  req'[r] = req[r]
      BY <2>0, <2>2, <3>6
         DEF Authenticate, CreateSession, Present, View, CreateUser, UpdateRead, Return
    <3>7. QED
      BY <2>2, <3>1, <3>2, <3>3, <3>4, <3>5, <3>6 DEF Next, vars, Logout, Tick
  <2>3. QED  BY <2>1, <2>2
<1>2. QED  BY <1>1, Invariance, PTL DEF Spec, RevokedIsFinal

\* An update writes nothing it was not asked to, over whatever the updates it
\* overlapped with have written (service.py:202-223).
THEOREM UpdateSafety == Spec => UpdatesKeepTheRest
<1> DEFINE Keeps(r) ==
      req[r].pc = "write" /\ req'[r].pc = "done" =>
        LET old == users[req[r].target]
            new == users'[req[r].target] IN
        /\ new.known
        /\ "password" \notin req[r].change.asked => new.password = old.password
        /\ "admin" \notin req[r].change.asked => new.admin = old.admin
        /\ "disabled" \notin req[r].change.asked => new.disabled = old.disabled
<1>1. IInv /\ [Next]_vars => \A r \in Requests : Keeps(r)
  <2> SUFFICES ASSUME IInv, [Next]_vars, NEW r \in Requests,
                      req[r].pc = "write", req'[r].pc = "done"
               PROVE  Keeps(r)
    OBVIOUS
  <2>0. req \in [Requests -> Request]  BY DEF IInv, TypeOK
  <2>1. UpdateWrite(r)
    <3>1. ASSUME NEW q \in Requests, UpdateWrite(q), q # r PROVE FALSE
      BY <3>1, OthersKeepTheirPlace
    <3>2. CASE Restart  BY <3>2 DEF Restart, NoRequest
    <3>3. ASSUME NEW q \in Requests, Refresh(q) \/ Select(q) PROVE req'[r] = req[r]
      BY <2>0, <3>3 DEF Refresh, Select
    <3>4. ASSUME NEW q \in Requests,
                 \/ \E u \in Users, p \in Passwords : Authenticate(q, u, p)
                 \/ \E x \in Tokens : CreateSession(q, x)
                 \/ \E op \in {"view", "admin"}, x \in Tokens : Present(q, op, x)
                 \/ View(q)
                 \/ \E u \in Users, body \in Registrations : CreateUser(q, u, body)
                 \/ \E u \in Users, change \in Payloads : UpdateRead(q, u, change)
                 \/ Return(q)
          PROVE  req'[r] = req[r]
      BY <2>0, <3>4
         DEF Authenticate, CreateSession, Present, View, CreateUser, UpdateRead, Return
    <3>5. QED  BY <3>1, <3>2, <3>3, <3>4 DEF Next, vars, Logout, Tick
  <2>2. /\ req[r].target \in Users /\ users[req[r].target].known
        /\ req[r].change \in Change /\ req[r].written \subseteq req[r].change.asked
        /\ users[req[r].target] \in Account
    BY DEF IInv, TypeOK, ReqInv, ReqOk, PcOk
  <2>3. users'[req[r].target] =
          Updated(users[req[r].target], req[r].change, req[r].written)
    BY <2>1, <2>2 DEF UpdateWrite, IInv, TypeOK
  <2>4. QED  BY <2>2, <2>3, UpdatedType
<1>2. QED  BY <1>1, Invariance, PTL DEF Spec, UpdatesKeepTheRest

\* What a step may do to the account of u: nothing, what ensure_schema does to
\* the seeded user, or what a request may that acts as an administrator's.
ChangedByAdmin(u) ==
    \E r \in Requests :
      /\ req[r].op = "admin" /\ req[r].standing = 2
      /\ users'[u].known
      /\ \/ req[r].pc = "act" /\ ~users[u].known
         \/ req[r].pc = "write" /\ users[u].known /\ req[r].target = u

AccountStep(u) ==
    \/ users'[u] = users[u]
    \/ u = DevUser /\ users'[u] = [users[u] EXCEPT !.admin = TRUE]
    \/ ChangedByAdmin(u)

\* Nobody creates, promotes, demotes, disables or enables an account, or sets
\* its password, but a request whose user was an enabled administrator at some
\* time since it was made, however it overlaps with the demotion or the logout
\* of that user; and no account that is known is created anew
\* (auth/service.py:186-223, dependencies.py:33-44).
THEOREM AccountSafety == Spec => [][\A u \in Users : AccountStep(u)]_vars
<1>1. ASSUME IInv, [Next]_vars, NEW u \in Users PROVE AccountStep(u)
  <2> USE <1>1
  <2>1. users \in [Users -> Account] /\ \A r \in Requests : PcOk(req[r]) /\ StandingOk(req[r])
    BY DEF IInv, TypeOK, ReqInv, ReqOk
  <2>2. ASSUME NEW r \in Requests, NEW v \in Users, NEW body \in Registrations,
               CreateUser(r, v, body)
        PROVE  AccountStep(u)
    <3>1. CASE users' = users
      BY <3>1 DEF AccountStep
    <3>2. CASE users' # users
      <4>1. /\ req[r].pc = "act" /\ ~users[v].known
            /\ users' = [users EXCEPT ![v] =
                 [known |-> TRUE, password |-> body.password, admin |-> body.admin,
                  disabled |-> FALSE]]
        BY <2>2, <3>2 DEF CreateUser
      <4>2. users'[v].known /\ (u # v => users'[u] = users[u])
        BY <2>1, <4>1
      <4>3. req[r].op = "admin" /\ req[r].standing = 2
        BY <2>1, <4>1 DEF PcOk, StandingOk
      <4> QED BY <4>1, <4>2, <4>3 DEF AccountStep, ChangedByAdmin
    <3> QED BY <3>1, <3>2
  <2>3. ASSUME NEW r \in Requests, UpdateWrite(r) PROVE AccountStep(u)
    <3>1. /\ req[r].op = "admin" /\ req[r].pc = "write" /\ req[r].standing = 2
          /\ req[r].target \in Users /\ users[req[r].target].known
          /\ users' = [users EXCEPT ![req[r].target] =
                         Updated(@, req[r].change, req[r].written)]
      BY <2>1, <2>3 DEF UpdateWrite, PcOk, StandingOk
    <3>2. CASE u # req[r].target
      BY <2>1, <3>1, <3>2 DEF AccountStep
    <3>3. CASE u = req[r].target
      <4>1. users'[u] = Updated(users[u], req[r].change, req[r].written)
        BY <2>1, <3>1, <3>3
      <4>2. /\ users[u] \in Account /\ req[r].change \in Change
            /\ req[r].written \subseteq req[r].change.asked
        BY <2>1, <3>1 DEF PcOk
      <4>3. users'[u].known
        BY <3>1, <3>3, <4>1, <4>2, UpdatedType
      <4> QED BY <3>1, <3>3, <4>3 DEF AccountStep, ChangedByAdmin
    <3> QED BY <3>2, <3>3
  <2>4. CASE Restart
    BY <2>1, <2>4 DEF Restart, AccountStep
  <2>5. CASE users' = users
    BY <2>5 DEF AccountStep
  <2>6. QED
    BY <2>2, <2>3, <2>4, <2>5
       DEF Next, vars, Authenticate, CreateSession, Present, Select, Refresh, View,
           UpdateRead, Return, Logout, Tick
<1> DEFINE Steps == \A u \in Users : AccountStep(u)
<1>2. IInv /\ [Next]_vars => [Steps]_vars
  BY <1>1
<1> QED  BY <1>2, Invariance, PTL DEF Spec
===============================================================================
