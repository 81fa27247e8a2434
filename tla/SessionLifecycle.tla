--------------------------- MODULE SessionLifecycle ---------------------------
(***************************************************************************)
(* What the gateway's session store promises, with the clock, the idle     *)
(* TTL, the database round trips and their interleavings left out.  A      *)
(* session is opened for an API key, may be re-opened for the same or for  *)
(* another key, and is closed.  A request is granted a session at a single *)
(* instant at which the session is open, and the grant names the key the   *)
(* session was bound to at that instant.  SessionStore implements it.      *)
(***************************************************************************)
CONSTANTS Sids,      \* MCP transport session ids
          Keys,      \* API keys
          Requests,  \* request slots
          NoKey,     \* owner of a session that was never opened
          NoSid      \* session of a request that has no grant

VARIABLES status,    \* status[s]: "absent", "open" or "closed"
          holder,    \* holder[s]: the key session s is bound to
          grant      \* grant[r]: the session and key request r acts for

lvars == <<status, holder, grant>>

NoGrant == [sid |-> NoSid, key |-> NoKey]

LInit ==
    /\ status = [s \in Sids |-> "absent"]
    /\ holder = [s \in Sids |-> NoKey]
    /\ grant = [r \in Requests |-> NoGrant]

\* Initialize binds the session to the presented key, whatever its status.
LOpen(s, k) ==
    /\ status' = [status EXCEPT ![s] = "open"]
    /\ holder' = [holder EXCEPT ![s] = k]
    /\ UNCHANGED grant

\* Only an open session is closed, and its binding outlives it.
LClose(s) ==
    /\ status[s] = "open"
    /\ status' = [status EXCEPT ![s] = "closed"]
    /\ UNCHANGED <<holder, grant>>

\* A request without a grant is granted an open session.
LGrant(r, s) ==
    /\ grant[r] = NoGrant
    /\ status[s] = "open"
    /\ grant' = [grant EXCEPT ![r] = [sid |-> s, key |-> holder[s]]]
    /\ UNCHANGED <<status, holder>>

LRelease(r) ==
    /\ grant[r] # NoGrant
    /\ grant' = [grant EXCEPT ![r] = NoGrant]
    /\ UNCHANGED <<status, holder>>

LNext ==
    \/ \E s \in Sids, k \in Keys : LOpen(s, k)
    \/ \E s \in Sids : LClose(s)
    \/ \E r \in Requests, s \in Sids : LGrant(r, s)
    \/ \E r \in Requests : LRelease(r)

LSpec == LInit /\ [][LNext]_lvars
===============================================================================
