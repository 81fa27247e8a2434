-------------------------------- MODULE WebAuth --------------------------------
(***************************************************************************)
(* Web authentication: users, browser sessions and the requests that need  *)
(* them (app/services/auth/service.py, app/domain/dependencies.py, and the *)
(* auth and user routes under app/domain/routes/v1).                       *)
(*                                                                         *)
(* A request is cut where it awaits the database.  resolve_session takes   *)
(* its timestamp before it waits for a connection, selects, and refreshes  *)
(* the session by token with that timestamp; update_user writes the        *)
(* columns that differ from the row it has read.  The role of a user is    *)
(* the one selected with the session.                                      *)
(*                                                                         *)
(* Left out: cookies (a client presents any token it was ever given),      *)
(* hashes of tokens and passwords, last_seen_at, which is written together *)
(* with expires_at and never read, and the data that the views return.     *)
(* A token is used for one session, so Tokens bounds the number of logins; *)
(* the clock is bounded by MaxTime.                                        *)
(***************************************************************************)
EXTENDS Naturals

CONSTANTS Users,      \* usernames
          DevUser,    \* DEV_USERNAME, seeded at start
          Passwords, DevPassword,
          Tokens,     \* session tokens
          NoUser, NoToken,
          Requests,   \* request slots, each reused by later requests
          Registrations, Payloads,  \* bodies of create and update requests
          SessionTtl, \* session_ttl_seconds
          MaxTime     \* bound on the clock

Fields == {"password", "admin", "disabled"}

\* CreateUserRequest, but for the name.
Registration == [password: Passwords, admin: BOOLEAN]

\* UpdateUserRequest: the fields asked to change, with the values asked for.
Change == [asked: SUBSET Fields, password: Passwords, admin: BOOLEAN, disabled: BOOLEAN]

ASSUME WebAuthAssumption ==
    /\ DevUser \in Users /\ NoUser \notin Users
    /\ DevPassword \in Passwords
    /\ NoToken \notin Tokens
    /\ Registrations \subseteq Registration
    /\ Payloads \subseteq Change
    /\ SessionTtl \in Nat \ {0}
    /\ MaxTime \in Nat

VARIABLES users,  \* the users table
          web,    \* the web_sessions table, by token
          now,    \* the clock
          req     \* req[r]: what request slot r is doing

vars == <<users, web, now, req>>

Account == [known: BOOLEAN, password: Passwords, admin: BOOLEAN, disabled: BOOLEAN]

NoAccount == [known |-> FALSE, password |-> DevPassword, admin |-> FALSE, disabled |-> FALSE]

DevAccount == [NoAccount EXCEPT !.known = TRUE, !.admin = TRUE]

\* A row of web_sessions.  uses is history: when the session was opened and
\* the timestamps of the requests that were accepted under it.
WebSession == [state: {"unused", "live", "revoked"}, user: Users \cup {NoUser},
               expires: Nat, uses: SUBSET Nat]

NoWebSession == [state |-> "unused", user |-> NoUser, expires |-> 0, uses |-> {}]

NoChange == [asked |-> {}, password |-> DevPassword, admin |-> FALSE, disabled |-> FALSE]

\* create: credentials are good; select, refresh: inside resolve_session; act:
\* an administrator's request is past its checks; write: update_user has read.
Pcs == {"idle", "create", "select", "refresh", "act", "write", "done"}

Outcomes == {"none", "unauthenticated", "signed_in", "forbidden", "ok", "conflict",
             "unknown"}

\* user, admin: the copy of the user's row; written: the columns the UPDATE
\* sets.  standing is history: the highest rank (Rank) the session's user has
\* had since the request was made.
Request == [op: {"none", "login", "view", "admin"}, pc: Pcs, token: Tokens \cup {NoToken},
            user: Users \cup {NoUser}, admin: BOOLEAN, stamp: Nat,
            target: Users \cup {NoUser}, change: Change, written: SUBSET Fields,
            outcome: Outcomes, standing: 0..2]

NoRequest == [op |-> "none", pc |-> "idle", token |-> NoToken, user |-> NoUser,
              admin |-> FALSE, stamp |-> 0, target |-> NoUser, change |-> NoChange,
              written |-> {}, outcome |-> "none", standing |-> 0]

\* ensure_schema on an empty database.
Init ==
    /\ users = [u \in Users |-> IF u = DevUser THEN DevAccount ELSE NoAccount]
    /\ web = [t \in Tokens |-> NoWebSession]
    /\ now = 0
    /\ req = [r \in Requests |-> NoRequest]

------------------------------------------------------------------------------
Enabled(a) == a.known /\ ~a.disabled

\* What an account may do: nothing, what every user may, what an admin may.
Rank(a) == IF ~Enabled(a) THEN 0 ELSE IF a.admin THEN 2 ELSE 1

SessionUser(t) == users[web[t].user]

\* The rank that the table us gives the user of a session, if there is one.
RankUnder(us, t) ==
    IF t = NoToken THEN 0 ELSE IF web[t].user = NoUser THEN 0 ELSE Rank(us[web[t].user])

\* History: the users change to us while request r is under way.
Raised(us, r) ==
    IF RankUnder(us, req[r].token) <= req[r].standing
    THEN req[r]
    ELSE [req[r] EXCEPT !.standing = RankUnder(us, req[r].token)]

\* The route answers; what it worked with is forgotten.
Finish(request, outcome) ==
    [NoRequest EXCEPT !.op = request.op, !.pc = "done", !.outcome = outcome,
                      !.standing = request.standing]

\* login: authenticate finds the enabled user and checks the password;
\* create_session then takes its timestamp.
Authenticate(r, u, p) ==
    /\ req[r].pc = "idle"
    /\ LET login == [NoRequest EXCEPT !.op = "login"] IN
       req' = [req EXCEPT ![r] =
         IF Enabled(users[u]) /\ users[u].password = p
         THEN [login EXCEPT !.pc = "create", !.user = u, !.stamp = now]
         ELSE Finish(login, "unauthenticated")]
    /\ UNCHANGED <<users, web, now>>

\* create_session inserts a row under a token never used before.
CreateSession(r, t) ==
    /\ req[r].pc = "create"
    /\ web[t].state = "unused"
    /\ web' = [web EXCEPT ![t] =
         [state |-> "live", user |-> req[r].user, expires |-> req[r].stamp + SessionTtl,
          uses |-> {req[r].stamp}]]
    /\ req' = [req EXCEPT ![r] = Finish(req[r], "signed_in")]
    /\ UNCHANGED <<users, now>>

\* A request presents a token; resolve_session takes its timestamp.
Present(r, op, t) ==
    /\ req[r].pc = "idle"
    /\ op \in {"view", "admin"}
    /\ web[t].state # "unused"
    /\ req' = [req EXCEPT ![r] = [NoRequest EXCEPT
                 !.op = op, !.pc = "select", !.token = t, !.stamp = now,
                 !.standing = RankUnder(users, t)]]
    /\ UNCHANGED <<users, web, now>>

\* Variant: the user's row is returned in place of its id.
SelectRow(r) ==
    LET t == req[r].token IN
    /\ req[r].pc = "select"
    /\ req' = [req EXCEPT ![r] =
         IF web[t].state = "live" /\ web[t].expires > req[r].stamp /\ Enabled(SessionUser(t))
         THEN [req[r] EXCEPT !.pc = "refresh", !.user = SessionUser(t),
                             !.admin = SessionUser(t).admin]
         ELSE Finish(req[r], "unauthenticated")]
    /\ UNCHANGED <<users, web, now>>

\* Variant: a disabled user's session is still found.
SelectDisabled(r) ==
    LET t == req[r].token IN
    /\ req[r].pc = "select"
    /\ req' = [req EXCEPT ![r] =
         IF web[t].state = "live" /\ web[t].expires > req[r].stamp
         THEN [req[r] EXCEPT !.pc = "refresh", !.user = web[t].user,
                             !.admin = SessionUser(t).admin]
         ELSE Finish(req[r], "unauthenticated")]
    /\ UNCHANGED <<users, web, now>>

\* Variant: whether the session has expired is not asked.
SelectExpired(r) ==
    LET t == req[r].token IN
    /\ req[r].pc = "select"
    /\ req' = [req EXCEPT ![r] =
         IF web[t].state = "live" /\ Enabled(SessionUser(t))
         THEN [req[r] EXCEPT !.pc = "refresh", !.user = web[t].user,
                             !.admin = SessionUser(t).admin]
         ELSE Finish(req[r], "unauthenticated")]
    /\ UNCHANGED <<users, web, now>>

\* resolve_session selects the enabled user of a session that has not expired.
Select(r) ==
    LET t == req[r].token IN
    /\ req[r].pc = "select"
    /\ req' = [req EXCEPT ![r] =
         IF web[t].state = "live" /\ web[t].expires > req[r].stamp /\ Enabled(SessionUser(t))
         THEN [req[r] EXCEPT !.pc = "refresh", !.user = web[t].user,
                             !.admin = SessionUser(t).admin]
         ELSE Finish(req[r], "unauthenticated")]
    /\ UNCHANGED <<users, web, now>>

\* require_admin_session looks at the role that was selected.
Admitted(request) ==
    IF request.op = "view" THEN Finish(request, "ok")
    ELSE IF request.admin THEN [Finish(request, "none") EXCEPT !.pc = "act"]
    ELSE Finish(request, "forbidden")

\* Variant: the row is written back, not updated where it is.
RefreshWhole(r) ==
    LET t == req[r].token IN
    /\ req[r].pc = "refresh"
    /\ web' = [web EXCEPT ![t] =
         [state |-> "live", user |-> req[r].user, expires |-> req[r].stamp + SessionTtl,
          uses |-> @.uses \cup {req[r].stamp}]]
    /\ req' = [req EXCEPT ![r] = Admitted(req[r])]
    /\ UNCHANGED <<users, now>>

\* resolve_session moves the expiry of the row with this token, if there is
\* one still, and returns the user; the route goes on.
Refresh(r) ==
    LET t == req[r].token IN
    /\ req[r].pc = "refresh"
    /\ web' = IF web[t].state = "live"
              THEN [web EXCEPT ![t].expires = req[r].stamp + SessionTtl,
                               ![t].uses = @ \cup {req[r].stamp}]
              ELSE web
    /\ req' = [req EXCEPT ![r] = Admitted(req[r])]
    /\ UNCHANGED <<users, now>>

\* The manager's listings read other stores and change nothing.
View(r) ==
    /\ req[r].pc = "act"
    /\ req' = [req EXCEPT ![r] = Finish(req[r], "ok")]
    /\ UNCHANGED <<users, web, now>>

\* create_user: a username that is taken violates the table's constraint.
CreateUser(r, u, body) ==
    /\ req[r].pc = "act"
    /\ IF users[u].known
       THEN /\ req' = [req EXCEPT ![r] = Finish(req[r], "conflict")]
            /\ UNCHANGED users
       ELSE /\ users' = [users EXCEPT ![u] =
                 [known |-> TRUE, password |-> body.password, admin |-> body.admin,
                  disabled |-> FALSE]]
            /\ req' = [req EXCEPT ![r] = Finish(req[r], "ok")]
    /\ UNCHANGED <<web, now>>

\* The columns that differ once the fields asked for are assigned: a new hash
\* and a new time of disabling always do.
Differing(account, change) ==
    {f \in change.asked :
       \/ f = "password"
       \/ f = "admin" /\ change.admin # account.admin
       \/ f = "disabled" /\ (change.disabled \/ account.disabled)}

\* update_user reads the row; the ORM will write the columns that differ.
UpdateRead(r, u, change) ==
    /\ req[r].pc = "act"
    /\ req' = [req EXCEPT ![r] =
         IF users[u].known
         THEN [req[r] EXCEPT !.pc = "write", !.target = u, !.change = change,
                             !.written = Differing(users[u], change)]
         ELSE Finish(req[r], "unknown")]
    /\ UNCHANGED <<users, web, now>>

\* The account after the columns in fields have been set.
Updated(account, change, fields) ==
    [account EXCEPT !.password = IF "password" \in fields THEN change.password ELSE @,
                    !.admin = IF "admin" \in fields THEN change.admin ELSE @,
                    !.disabled = IF "disabled" \in fields THEN change.disabled ELSE @]

\* Variant: every field of the body is written, asked for or not.
UpdateWriteWhole(r) ==
    /\ req[r].pc = "write"
    /\ users' = [users EXCEPT ![req[r].target] = Updated(@, req[r].change, Fields)]
    /\ req' = [q \in Requests |-> IF q = r THEN Finish(req[r], "ok") ELSE Raised(users', q)]
    /\ UNCHANGED <<web, now>>

\* update_user commits.
UpdateWrite(r) ==
    /\ req[r].pc = "write"
    /\ users' = [users EXCEPT ![req[r].target] = Updated(@, req[r].change, req[r].written)]
    /\ req' = [q \in Requests |-> IF q = r THEN Finish(req[r], "ok") ELSE Raised(users', q)]
    /\ UNCHANGED <<web, now>>

\* logout: revoke_session deletes the row.
Logout(t) ==
    /\ web[t].state = "live"
    /\ web' = [web EXCEPT ![t] = [NoWebSession EXCEPT !.state = "revoked"]]
    /\ UNCHANGED <<users, now, req>>

\* The response is out; the slot takes another request.
Return(r) ==
    /\ req[r].pc = "done"
    /\ req' = [req EXCEPT ![r] = NoRequest]
    /\ UNCHANGED <<users, web, now>>

\* The gateway stops, which no request survives, and starts: ensure_schema
\* makes the seeded user an administrator again.
Restart ==
    /\ users' = [users EXCEPT ![DevUser].admin = TRUE]
    /\ req' = [r \in Requests |-> NoRequest]
    /\ UNCHANGED <<web, now>>

Tick ==
    /\ now < MaxTime
    /\ now' = now + 1
    /\ UNCHANGED <<users, web, req>>

Next ==
    \/ \E r \in Requests :
         \/ \E u \in Users, p \in Passwords : Authenticate(r, u, p)
         \/ \E t \in Tokens : CreateSession(r, t)
         \/ \E op \in {"view", "admin"}, t \in Tokens : Present(r, op, t)
         \/ Select(r)
         \/ Refresh(r)
         \/ View(r)
         \/ \E u \in Users, body \in Registrations : CreateUser(r, u, body)
         \/ \E u \in Users, change \in Payloads : UpdateRead(r, u, change)
         \/ UpdateWrite(r)
         \/ Return(r)
    \/ \E t \in Tokens : Logout(t)
    \/ Restart
    \/ Tick

Spec == Init /\ [][Next]_vars

------------------------------------------------------------------------------
\* Variables range over what the tables and the routes can hold.
TypeOK ==
    /\ users \in [Users -> Account]
    /\ web \in [Tokens -> WebSession]
    /\ now \in 0..MaxTime
    /\ req \in [Requests -> Request]

Accepted(r) ==
    /\ req[r].op \in {"view", "admin"}
    /\ \/ req[r].pc \in {"refresh", "act", "write"}
       \/ req[r].outcome \in {"forbidden", "ok", "conflict", "unknown"}

Administers(r) ==
    /\ req[r].op = "admin"
    /\ req[r].pc \in {"act", "write"} \/ req[r].outcome \in {"ok", "conflict", "unknown"}

\* A request is accepted only if the user of its session has been enabled, and
\* acts as an administrator's only if that user has been an enabled admin, at
\* some time since the request was made: disabling or demoting a user takes
\* hold of every later request, under sessions that are open already
\* (service.py:124-153, dependencies.py:33-44).
AcceptedHasStanding ==
    \A r \in Requests :
      /\ Accepted(r) => req[r].standing >= 1
      /\ Administers(r) => req[r].standing = 2

\* README: "POST /api/logout revokes that session".  A session that was logged
\* out stays so, whatever requests under it were on their way, and none that
\* has not been let in yet is (service.py:124-168).
RevokedIsFinal ==
    [][\A t \in Tokens : web[t].state = "revoked" =>
         /\ web'[t].state = "revoked"
         /\ \A r \in Requests :
              req[r].pc = "select" /\ req[r].token = t => req'[r].pc # "refresh"]_vars

\* A session that has gone unused for its TTL is not used again, although
\* requests that overlap can move its expiry backwards: every use but the
\* first comes less than a TTL after an earlier one (service.py:106-153).
UsesLeaveNoGap ==
    \A t \in Tokens : \A s \in web[t].uses :
      \/ \A other \in web[t].uses : s <= other
      \/ \E before \in web[t].uses : before < s /\ s < before + SessionTtl

\* An update leaves every field it was not asked to change as the updates it
\* overlapped with have left it (service.py:202-223).
UpdatesKeepTheRest ==
    [][\A r \in Requests :
         req[r].pc = "write" /\ req'[r].pc = "done" =>
           LET old == users[req[r].target]
               new == users'[req[r].target] IN
           /\ new.known
           /\ "password" \notin req[r].change.asked => new.password = old.password
           /\ "admin" \notin req[r].change.asked => new.admin = old.admin
           /\ "disabled" \notin req[r].change.asked => new.disabled = old.disabled]_vars
===============================================================================
