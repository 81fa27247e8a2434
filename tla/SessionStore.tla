----------------------------- MODULE SessionStore -----------------------------
(***************************************************************************)
(* The gateway's session store (app/services/session/service.py) and the   *)
(* request paths that use it: MCP initialize, MCP requests with the audit  *)
(* lookup that ends a tool call (app/middleware.py), the two data-key      *)
(* routes and the HTTP DELETE that ends a session.                         *)
(*                                                                         *)
(* Every method of the store runs its own short database transaction, so a *)
(* request is cut at each await where another one can run: the read of a   *)
(* row and the UPDATE that follows it are separate steps, and the UPDATE   *)
(* writes only the columns the method assigned.  Single statements (the    *)
(* upsert of open_session, the conditional UPDATE of close_session) are    *)
(* one step each.                                                          *)
(*                                                                         *)
(* Left out: client name and version, server name, key hashing, log lines, *)
(* last_used_at of a key (no decision reads it), listings.  The clock is   *)
(* bounded by MaxTime.                                                     *)
(***************************************************************************)
EXTENDS Naturals

CONSTANTS Sids,      \* MCP transport session ids
          Keys,      \* API keys
          Requests,  \* request slots, each reused by later requests
          NoKey, NoSid,
          IdleTtl,   \* idle_ttl_seconds: 0 switches expiry off
          MaxTime    \* bound on the clock

ASSUME SessionAssumption ==
    /\ NoKey \notin Keys
    /\ NoSid \notin Sids
    /\ IdleTtl \in Nat
    /\ MaxTime \in Nat

VARIABLES rows,      \* the sessions table, one row per mcp_session_id
          revoked,   \* the keys whose revoked_at is set
          minted,    \* number of data keys handed to inserted rows
          now,       \* the clock
          req        \* req[r]: what request slot r is doing

vars == <<rows, revoked, minted, now, req>>

Row == [state: {"absent", "open", "closed"}, owner: Keys \cup {NoKey},
        lastSeen: Nat, dataKey: Nat]

NoRow == [state |-> "absent", owner |-> NoKey, lastSeen |-> 0, dataKey |-> 0]

\* SessionRecord, the copy of a row that a store method returns: the fields a
\* request goes on to use.
Record == [owner: Keys \cup {NoKey}, dataKey: Nat]

ToSession(row) == [owner |-> row.owner, dataKey |-> row.dataKey]

NoRecord == ToSession(NoRow)

Ops == {"none", "initialize", "call", "data_key", "latest"}

\* upsert, fetch: inside open_session; read: before the lookup of a data-key
\* route; refresh, expire: an UPDATE is about to be written; running: an
\* admitted MCP request is past the session check; done: answered.
Pcs == {"idle", "upsert", "fetch", "read", "refresh", "expire", "running", "done"}

Outcomes == {"none", "opened", "ok", "refused", "forbidden", "audited", "unaudited"}

Request == [op: Ops, pc: Pcs, sid: Sids \cup {NoSid}, key: Keys \cup {NoKey},
            session: Record, stamp: Nat, outcome: Outcomes]

NoRequest == [op |-> "none", pc |-> "idle", sid |-> NoSid, key |-> NoKey,
              session |-> NoRecord, stamp |-> 0, outcome |-> "none"]

Init ==
    /\ rows = [s \in Sids |-> NoRow]
    /\ revoked = {}
    /\ minted = 0
    /\ now = 0
    /\ req = [r \in Requests |-> NoRequest]

------------------------------------------------------------------------------
\* _is_idle_expired
IdleExpired(row) == IdleTtl > 0 /\ now - row.lastSeen > IdleTtl

Answer(r, outcome) ==
    req' = [req EXCEPT ![r].pc = "done", ![r].outcome = outcome]

\* authenticate: the routes that present a Bearer key look it up first.
\* open_session takes its timestamp as soon as it is entered.
Authenticate(r, op, s, k) ==
    /\ req[r].pc = "idle"
    /\ op \in {"initialize", "data_key", "latest"}
    /\ req' = [req EXCEPT ![r] = [NoRequest EXCEPT
                 !.op = op, !.key = k,
                 !.stamp = IF op = "initialize" THEN now ELSE 0,
                 !.sid = IF op = "latest" THEN NoSid ELSE s,
                 !.pc = IF k \in revoked THEN "done"
                        ELSE IF op = "initialize" THEN "upsert" ELSE "read",
                 !.outcome = IF k \in revoked THEN "refused" ELSE "none"]]
    /\ UNCHANGED <<rows, revoked, minted, now>>

\* Variant: the conflict clause hands out a data key again.
UpsertRekey(r) ==
    /\ req[r].pc = "upsert"
    /\ rows' = [rows EXCEPT ![req[r].sid] =
         [state |-> "open", owner |-> req[r].key, lastSeen |-> req[r].stamp,
          dataKey |-> minted + 1]]
    /\ minted' = minted + 1
    /\ req' = [req EXCEPT ![r].pc = "fetch", ![r].stamp = 0]
    /\ UNCHANGED <<revoked, now>>

\* INSERT ... ON CONFLICT DO UPDATE: a new row gets a fresh data key, an
\* existing one is re-bound and re-opened and keeps the data key it has.
Upsert(r) ==
    LET s == req[r].sid
        new == rows[s].state = "absent"
    IN /\ req[r].pc = "upsert"
       /\ rows' = [rows EXCEPT ![s] =
            [state |-> "open", owner |-> req[r].key, lastSeen |-> req[r].stamp,
             dataKey |-> IF new THEN minted + 1 ELSE rows[s].dataKey]]
       /\ minted' = IF new THEN minted + 1 ELSE minted
       /\ req' = [req EXCEPT ![r].pc = "fetch", ![r].stamp = 0]
       /\ UNCHANGED <<revoked, now>>

\* Variant: the stored row itself is returned, not a copy of its fields.
FetchOpenedRow(r) ==
    /\ req[r].pc = "fetch"
    /\ req' = [req EXCEPT ![r].pc = "done", ![r].outcome = "opened",
                          ![r].session = rows[req[r].sid]]
    /\ UNCHANGED <<rows, revoked, minted, now>>

\* The row is read back after the commit, as other requests have left it.
FetchOpened(r) ==
    /\ req[r].pc = "fetch"
    /\ req' = [req EXCEPT ![r].pc = "done", ![r].outcome = "opened",
                          ![r].session = ToSession(rows[req[r].sid])]
    /\ UNCHANGED <<rows, revoked, minted, now>>

\* Variant: closed rows are found too.
TouchReadClosed(r, s) ==
    /\ req[r].pc = "idle"
    /\ LET start == [NoRequest EXCEPT !.op = "call", !.sid = s] IN
       req' = [req EXCEPT ![r] =
         IF rows[s].state = "absent"
         THEN [start EXCEPT !.pc = "done", !.outcome = "refused"]
         ELSE [start EXCEPT !.pc = "refresh", !.stamp = now,
                            !.session = ToSession(rows[s])]]
    /\ UNCHANGED <<rows, revoked, minted, now>>

\* touch, first half: an MCP request names a session, no key is checked.
TouchRead(r, s) ==
    /\ req[r].pc = "idle"
    /\ LET start == [NoRequest EXCEPT !.op = "call", !.sid = s] IN
       req' = [req EXCEPT ![r] =
         IF rows[s].state # "open"
         THEN [start EXCEPT !.pc = "done", !.outcome = "refused"]
         ELSE IF IdleExpired(rows[s])
         THEN [start EXCEPT !.pc = "expire"]
         ELSE [start EXCEPT !.pc = "refresh", !.stamp = now,
                            !.session = ToSession(rows[s])]]
    /\ UNCHANGED <<rows, revoked, minted, now>>

\* Variant: touch merges the whole row it read, closed_at included.
TouchRefreshWhole(r) ==
    /\ req[r].pc = "refresh"
    /\ rows' = [rows EXCEPT ![req[r].sid].lastSeen = req[r].stamp,
                            ![req[r].sid].state = "open"]
    /\ req' = [req EXCEPT ![r].pc = "running", ![r].stamp = 0]
    /\ UNCHANGED <<revoked, minted, now>>

\* touch, second half: UPDATE last_seen_at of the row, whatever became of it.
TouchRefresh(r) ==
    /\ req[r].pc = "refresh"
    /\ rows' = [rows EXCEPT ![req[r].sid].lastSeen = req[r].stamp]
    /\ req' = [req EXCEPT ![r].pc = "running", ![r].stamp = 0]
    /\ UNCHANGED <<revoked, minted, now>>

\* UPDATE closed_at of a row that was idle when touch, get_session or
\* get_latest_open_session read it.  An admitted call loses only its audit row.
ExpireCommit(r) ==
    /\ req[r].pc = "expire"
    /\ rows' = [rows EXCEPT ![req[r].sid].state = "closed"]
    /\ Answer(r, IF req[r].session = NoRecord THEN "refused" ELSE "unaudited")
    /\ UNCHANGED <<revoked, minted, now>>

\* The end of an admitted request.  For a tool call _persist looks the session
\* up once more (get_session) and writes the history row if it finds it.
\* Nothing is written if the session is closed by now, if the request was no
\* tool call, or if an exception on the way was swallowed.
AuditRead(r) ==
    LET row == rows[req[r].sid] IN
    /\ req[r].pc = "running"
    /\ \/ Answer(r, "unaudited")
       \/ /\ row.state = "open" /\ IdleExpired(row)
          /\ req' = [req EXCEPT ![r].pc = "expire"]
       \/ /\ row.state = "open" /\ ~IdleExpired(row)
          /\ Answer(r, "audited")
    /\ UNCHANGED <<rows, revoked, minted, now>>

\* Variant: the ownership check is missing.
DataKeyReadUnchecked(r) ==
    LET row == rows[req[r].sid] IN
    /\ req[r].op = "data_key" /\ req[r].pc = "read"
    /\ \/ row.state # "open" /\ Answer(r, "refused")
       \/ /\ row.state = "open"
          /\ req' = [req EXCEPT ![r].pc = "done", ![r].outcome = "ok",
                                ![r].session = ToSession(row)]
    /\ UNCHANGED <<rows, revoked, minted, now>>

\* get_session_data_key: get_session, then the ownership check.
DataKeyRead(r) ==
    LET row == rows[req[r].sid] IN
    /\ req[r].op = "data_key" /\ req[r].pc = "read"
    /\ \/ /\ row.state # "open"
          /\ Answer(r, "refused")
       \/ /\ row.state = "open" /\ IdleExpired(row)
          /\ req' = [req EXCEPT ![r].pc = "expire"]
       \/ /\ row.state = "open" /\ ~IdleExpired(row)
          /\ req[r].key # row.owner
          /\ Answer(r, "forbidden")
       \/ /\ row.state = "open" /\ ~IdleExpired(row)
          /\ req[r].key = row.owner
          /\ req' = [req EXCEPT ![r].pc = "done", ![r].outcome = "ok",
                                ![r].session = ToSession(row)]
    /\ UNCHANGED <<rows, revoked, minted, now>>

\* The open rows bound to key k that no other one of them was seen after.
LatestOf(k) ==
    LET mine == {s \in Sids : rows[s].state = "open" /\ rows[s].owner = k}
    IN {s \in mine : \A t \in mine : rows[t].lastSeen <= rows[s].lastSeen}

\* get_data_key_for_api_key: get_latest_open_session of the presented key.
LatestRead(r) ==
    /\ req[r].op = "latest" /\ req[r].pc = "read"
    /\ \/ /\ LatestOf(req[r].key) = {}
          /\ Answer(r, "refused")
       \/ \E s \in LatestOf(req[r].key) :
            /\ IdleExpired(rows[s])
            /\ req' = [req EXCEPT ![r].pc = "expire", ![r].sid = s]
       \/ \E s \in LatestOf(req[r].key) :
            /\ ~IdleExpired(rows[s])
            /\ req' = [req EXCEPT ![r].pc = "done", ![r].outcome = "ok",
                                  ![r].sid = s, ![r].session = ToSession(rows[s])]
    /\ UNCHANGED <<rows, revoked, minted, now>>

\* HTTP DELETE: one conditional UPDATE; the rowcount only decides a log line.
CloseSession(s) ==
    /\ rows[s].state = "open"
    /\ rows' = [rows EXCEPT ![s].state = "closed"]
    /\ UNCHANGED <<revoked, minted, now, req>>

\* The response has left; the slot serves another request.
Return(r) ==
    /\ req[r].pc = "done"
    /\ req' = [req EXCEPT ![r] = NoRequest]
    /\ UNCHANGED <<rows, revoked, minted, now>>

\* An operator sets revoked_at in the api_keys table; no code here does.
RevokeKey(k) ==
    /\ k \in Keys \ revoked
    /\ revoked' = revoked \cup {k}
    /\ UNCHANGED <<rows, minted, now, req>>

Tick ==
    /\ now < MaxTime
    /\ now' = now + 1
    /\ UNCHANGED <<rows, revoked, minted, req>>

Next ==
    \/ \E r \in Requests :
         \/ \E op \in Ops, s \in Sids, k \in Keys : Authenticate(r, op, s, k)
         \/ Upsert(r)
         \/ FetchOpened(r)
         \/ \E s \in Sids : TouchRead(r, s)
         \/ TouchRefresh(r)
         \/ ExpireCommit(r)
         \/ AuditRead(r)
         \/ DataKeyRead(r)
         \/ LatestRead(r)
         \/ Return(r)
    \/ \E s \in Sids : CloseSession(s)
    \/ \E k \in Keys : RevokeKey(k)
    \/ Tick

Spec == Init /\ [][Next]_vars

------------------------------------------------------------------------------
\* Variables range over the values the tables and handlers can hold.
TypeOK ==
    /\ rows \in [Sids -> Row]
    /\ revoked \subseteq Keys
    /\ minted \in Nat
    /\ now \in 0..MaxTime
    /\ req \in [Requests -> Request]

\* Requests that act for a session they have read: an admitted call until it
\* is answered, and a data-key route that answers with a key.
Acting(r) == req[r].op # "initialize" /\ req[r].session # NoRecord

\* The data key a request works with (to hash PII for a call, to answer a
\* data-key route) stays the one stored for its session, and is no other
\* session's, whatever reconnects, closes or expires meanwhile: open_session
\* keeps the key of an existing row (service.py:145-155).
DataKeyIdentifiesSession ==
    \A r \in Requests, s \in Sids :
        Acting(r) => (req[r].session.dataKey = rows[s].dataKey <=> s = req[r].sid)

\* A data-key route answers only with a session of the presented key.
DataKeyOnlyForOwner ==
    \A r \in Requests :
        req[r].outcome = "ok" => req[r].key = req[r].session.owner

\* A session changes hands or comes back from closed only in the step of an
\* initialize that presented the new owner's key: no late UPDATE of touch or
\* of an idle close, written from a stale read, revives or re-binds a row.
OnlyInitializeBindsOrReopens ==
    [][\A s \in Sids :
         \/ rows'[s].owner # rows[s].owner
         \/ rows[s].state # "open" /\ rows'[s].state = "open"
         => \E r \in Requests :
              /\ req[r].op = "initialize" /\ req[r].pc = "upsert" /\ req[r].sid = s
              /\ req'[r].pc = "fetch" /\ rows'[s].owner = req[r].key]_vars

\* A request closes an open session for idleness only if no request was seen
\* for longer than the TTL ("Sessions expire after ... with no requests",
\* README.md:67).
IdleCloseOnlyIdle ==
    [][\A r \in Requests :
         LET s == req[r].sid IN
         (req[r].pc = "expire" /\ req'[r].pc = "done" /\ rows[s].state = "open")
           => IdleExpired(rows[s])]_vars

\* The abstract lifecycle this module implements: the read of a row is the
\* instant at which a request is granted the session.
L == INSTANCE SessionLifecycle WITH
       status <- [s \in Sids |-> rows[s].state],
       holder <- [s \in Sids |-> rows[s].owner],
       grant <- [r \in Requests |->
                   IF Acting(r) THEN [sid |-> req[r].sid, key |-> req[r].session.owner]
                   ELSE [sid |-> NoSid, key |-> NoKey]]

\* Every step of the store is a step of the lifecycle or leaves it unchanged:
\* touch, get_session and the routes grant a session only while it is open
\* and under the key it is bound to, and only open sessions are closed.
ImplementsLifecycle == L!LSpec
===============================================================================
