------------------------------ MODULE CallHistory ------------------------------
(***************************************************************************)
(* The history of tool calls: how calls become lines under the sessions    *)
(* they ran in, and how clients page through the lines while others are    *)
(* added (app/services/history/service.py, the end of                      *)
(* ToolReportMiddleware in app/middleware.py, and the history routes under *)
(* app/domain/routes/v1).                                                  *)
(*                                                                         *)
(* Sessions are those of SessionLifecycle, which SessionStore implements:  *)
(* a call runs under a grant, and at its end the session is read once      *)
(* more.  A page is two statements, a count and a select, each of which    *)
(* sees the lines committed before it; pages are requests of their own.    *)
(*                                                                         *)
(* A client that reads page after page waits for each.  The console in the *)
(* browser does not: it may ask for the next page, or of another filter,   *)
(* by the total of an earlier answer (HistoryPage.tsx:479, 301-309).  To   *)
(* the server each such request is the first of a walk of its own, which   *)
(* begins at any offset.                                                   *)
(*                                                                         *)
(* Left out: the columns no listing asks about; the filters by session,    *)
(* server, tool and time, which like the one by key are conditions on      *)
(* columns that never change, and the lists of their values (list_facets); *)
(* the check of the browser session (WebAuth).                             *)
(***************************************************************************)
EXTENDS Naturals, FiniteSets

CONSTANTS Sids, Keys, NoKey, NoSid,  \* as in SessionLifecycle
          Calls,    \* tool calls
          Users,    \* users of the client console
          NoUser,   \* owner of a key that is nobody's
          Owner,    \* Owner[k]: api_keys.user_id
          Admin,    \* reader of the manager console, who sees all
          Walks,    \* clients that read the listing
          Offsets,  \* where a client may begin
          PageSize  \* limit

\* What lines are sorted by: created_at, either way, or another column.
Orders == {"newest", "oldest", "status"}

ASSUME HistoryAssumption ==
    /\ NoKey \notin Keys /\ NoSid \notin Sids
    /\ Admin \notin Users /\ NoUser \notin Users
    /\ Owner \in [Keys -> Users \cup {NoUser}]
    /\ Offsets \subseteq Nat
    /\ PageSize \in Nat \ {0}

VARIABLES status, holder, grant,  \* as in SessionLifecycle, for Calls
          call,      \* call[c]: where call c is
          composed,  \* number of lines composed: the clock of created_at
          lines,     \* the tool_calls table
          walk       \* walk[w]: what client w is doing

hvars == <<status, holder, grant, call, composed, lines, walk>>

Sessions == INSTANCE SessionLifecycle WITH Requests <- Calls

\* A row of tool_calls; created_at tells microseconds apart, so stamps differ.
Line == [id: Calls, sid: Sids, key: Keys, stamp: Nat, blocked: BOOLEAN]

\* entry: the line to insert.  held is history: the keys the session of a
\* call under way has been bound to.
Call == [pc: {"idle", "running", "insert", "recorded", "dropped"},
         held: SUBSET Keys, entry: SUBSET Line]

NoCall == [pc |-> "idle", held |-> {}, entry |-> {}]

\* The answer is total and items.  unseen is history: of a walk from the start,
\* the lines there were to find when it began and that no page has shown.
Walk == [pc: {"idle", "count", "rows", "page", "line"}, reader: Users \cup {Admin},
         scope: SUBSET Keys, order: Orders, offset: Nat,
         total: Nat, items: SUBSET Line, unseen: SUBSET Line]

NoWalk == [pc |-> "idle", reader |-> Admin, scope |-> {}, order |-> "newest",
           offset |-> 0, total |-> 0, items |-> {}, unseen |-> {}]

Init ==
    /\ Sessions!LInit
    /\ call = [c \in Calls |-> NoCall]
    /\ composed = 0
    /\ lines = {}
    /\ walk = [w \in Walks |-> NoWalk]

------------------------------------------------------------------------------
\* initialize opens a session or binds it anew.
Open(s, k) ==
    /\ Sessions!LOpen(s, k)
    /\ call' = [c \in Calls |->
         IF grant[c].sid = s
         THEN [call[c] EXCEPT !.held = @ \cup {k}] ELSE call[c]]
    /\ UNCHANGED <<composed, lines, walk>>

Close(s) ==
    /\ Sessions!LClose(s)
    /\ UNCHANGED <<call, composed, lines, walk>>

\* Variant: a session that was never opened admits the call.
StartUnknown(c, s) ==
    /\ call[c].pc = "idle"
    /\ grant' = [grant EXCEPT ![c] = [sid |-> s, key |-> holder[s]]]
    /\ call' = [call EXCEPT ![c] = [NoCall EXCEPT !.pc = "running", !.held = {holder[s]}]]
    /\ UNCHANGED <<status, holder, composed, lines, walk>>

\* SessionAuth admits a tool call to its open session.
Start(c, s) ==
    /\ call[c].pc = "idle"
    /\ Sessions!LGrant(c, s)
    /\ call' = [call EXCEPT ![c] = [NoCall EXCEPT !.pc = "running", !.held = {holder[s]}]]
    /\ UNCHANGED <<composed, lines, walk>>

\* The call is over: _persist reads the session again and composes a line
\* under the key it is bound to now, or leaves the call out if it has ended.
Compose(c, blocked) ==
    LET s == grant[c].sid
        line == [id |-> c, sid |-> s, key |-> holder[s], stamp |-> composed + 1,
                 blocked |-> blocked]
    IN
    /\ call[c].pc = "running"
    /\ IF status[s] = "open"
       THEN /\ call' = [call EXCEPT ![c].pc = "insert", ![c].entry = {line}]
            /\ composed' = composed + 1
       ELSE /\ call' = [call EXCEPT ![c] = [NoCall EXCEPT !.pc = "dropped"]]
            /\ UNCHANGED composed
    /\ Sessions!LRelease(c)
    /\ UNCHANGED <<lines, walk>>

\* Variant: the line takes its key from the session when it is inserted.
InsertRebound(c) ==
    /\ call[c].pc = "insert"
    /\ lines' = lines \cup {[line EXCEPT !.key = holder[line.sid]] : line \in call[c].entry}
    /\ call' = [call EXCEPT ![c] = [NoCall EXCEPT !.pc = "recorded"]]
    /\ UNCHANGED <<status, holder, grant, composed, walk>>

\* record inserts the line.
Insert(c) ==
    /\ call[c].pc = "insert"
    /\ lines' = lines \cup call[c].entry
    /\ call' = [call EXCEPT ![c] = [NoCall EXCEPT !.pc = "recorded"]]
    /\ UNCHANGED <<status, holder, grant, composed, walk>>

\* A cancellation ends the call, or the insert raises, which _persist swallows.
Drop(c) ==
    /\ call[c].pc \in {"running", "insert"}
    /\ call' = [call EXCEPT ![c] = [NoCall EXCEPT !.pc = "dropped"]]
    /\ grant' = [grant EXCEPT ![c] = Sessions!NoGrant]
    /\ UNCHANGED <<status, holder, composed, lines, walk>>

------------------------------------------------------------------------------
\* Lines that satisfy the predicates of a listing.
Matching(scope) == {line \in lines : line.key \in scope}

\* line comes before other in the order asked for; the status column has ties.
Before(order, line, other) ==
    \/ order = "newest" /\ line.stamp > other.stamp
    \/ order = "oldest" /\ line.stamp < other.stamp
    \/ order = "status" /\ ~line.blocked /\ other.blocked

\* What ORDER BY, OFFSET and LIMIT may return of some lines: the lines skipped,
\* the page and the rest follow each other, lines that tie in any order; the
\* page is full unless it is the last, and so is what was skipped.
IsPage(page, from, order, offset) ==
    \E skipped \in SUBSET (from \ page) :
      LET rest == from \ (skipped \cup page) IN
      /\ \A a \in skipped, b \in page \cup rest : ~Before(order, b, a)
      /\ \A a \in page, b \in rest : ~Before(order, b, a)
      /\ IF page \cup rest = {} THEN Cardinality(skipped) <= offset
                                ELSE Cardinality(skipped) = offset
      /\ IF rest = {} THEN Cardinality(page) <= PageSize
                      ELSE Cardinality(page) = PageSize

\* The keys whose lines a reader may see: list_api_key_ids_for_user, or all.
Readable(reader) == IF reader = Admin THEN Keys ELSE {k \in Keys : Owner[k] = reader}

\* A client asks for a page: a user of what ran under his keys, newest first, of
\* which there is nothing if he has none; the manager of all keys or of some, in
\* any order.
Enter(w, reader, scope, order, offset) ==
    /\ walk[w].pc = "idle"
    /\ \/ reader # Admin /\ scope = Readable(reader) /\ order = "newest"
       \/ reader = Admin /\ scope # {}
    /\ walk' = [walk EXCEPT ![w] = [NoWalk EXCEPT
         !.pc = IF scope = {} THEN "page" ELSE "count",
         !.reader = reader, !.scope = scope, !.order = order, !.offset = offset,
         !.unseen = IF offset = 0 THEN Matching(scope) ELSE {}]]
    /\ UNCHANGED <<status, holder, grant, call, composed, lines>>

\* Variant: the total is that of the table.
CountAll(w) ==
    /\ walk[w].pc = "count"
    /\ walk' = [walk EXCEPT ![w].pc = "rows", ![w].total = Cardinality(lines)]
    /\ UNCHANGED <<status, holder, grant, call, composed, lines>>

\* The first statement of a listing counts.
Count(w) ==
    /\ walk[w].pc = "count"
    /\ walk' = [walk EXCEPT
         ![w].pc = "rows",
         ![w].total = Cardinality(Matching(walk[w].scope))]
    /\ UNCHANGED <<status, holder, grant, call, composed, lines>>

\* Variant: a select without an order.
RowsUnordered(w) ==
    \E page \in SUBSET Matching(walk[w].scope) :
      LET there == Cardinality(Matching(walk[w].scope)) IN
      /\ walk[w].pc = "rows"
      /\ Cardinality(page) <= PageSize
      /\ Cardinality(page) + walk[w].offset <= there \/ page = {}
      /\ Cardinality(page) = PageSize \/ Cardinality(page) + walk[w].offset >= there
      /\ walk' = [walk EXCEPT ![w].pc = "page", ![w].items = page, ![w].unseen = @ \ page]
      /\ UNCHANGED <<status, holder, grant, call, composed, lines>>

\* The second statement selects the page.
Rows(w) ==
    \E page \in SUBSET Matching(walk[w].scope) :
      /\ walk[w].pc = "rows"
      /\ IsPage(page, Matching(walk[w].scope), walk[w].order, walk[w].offset)
      /\ walk' = [walk EXCEPT ![w].pc = "page", ![w].items = page, ![w].unseen = @ \ page]
      /\ UNCHANGED <<status, holder, grant, call, composed, lines>>

\* A client that reads on asks for the next page while the total says there is
\* one, or the page was full.
NextPage(w) ==
    LET offset == walk[w].offset + PageSize IN
    /\ walk[w].pc = "page"
    /\ offset < walk[w].total \/ Cardinality(walk[w].items) = PageSize
    /\ walk' = [walk EXCEPT ![w].pc = "count", ![w].offset = offset,
                            ![w].total = 0, ![w].items = {}]
    /\ UNCHANGED <<status, holder, grant, call, composed, lines>>

\* A call is read by its id: by its owner, or by the manager.
OpenLine(w, c) ==
    /\ walk[w].pc = "page"
    /\ walk' = [walk EXCEPT ![w] = [NoWalk EXCEPT
         !.pc = "line", !.reader = walk[w].reader,
         !.items = {line \in lines : line.id = c /\ line.key \in Readable(walk[w].reader)}]]
    /\ UNCHANGED <<status, holder, grant, call, composed, lines>>

Leave(w) ==
    /\ walk[w].pc \in {"page", "line"}
    /\ walk' = [walk EXCEPT ![w] = NoWalk]
    /\ UNCHANGED <<status, holder, grant, call, composed, lines>>

Next ==
    \/ \E s \in Sids, k \in Keys : Open(s, k)
    \/ \E s \in Sids : Close(s)
    \/ \E c \in Calls :
         \/ \E s \in Sids : Start(c, s)
         \/ \E blocked \in BOOLEAN : Compose(c, blocked)
         \/ Insert(c)
         \/ Drop(c)
    \/ \E w \in Walks :
         \/ \E reader \in Users \cup {Admin}, scope \in SUBSET Keys, order \in Orders,
               offset \in Offsets : Enter(w, reader, scope, order, offset)
         \/ Count(w)
         \/ Rows(w)
         \/ NextPage(w)
         \/ \E c \in Calls : OpenLine(w, c)
         \/ Leave(w)

Spec == Init /\ [][Next]_hvars

------------------------------------------------------------------------------
\* Variables range over what the tables, the middleware and the clients hold.
TypeOK ==
    /\ status \in [Sids -> {"absent", "open", "closed"}]
    /\ holder \in [Sids -> Keys \cup {NoKey}]
    /\ grant \in [Calls -> [sid: Sids \cup {NoSid}, key: Keys \cup {NoKey}]]
    /\ call \in [Calls -> Call]
    /\ composed \in Nat
    /\ lines \in SUBSET Line
    /\ walk \in [Walks -> Walk]

\* Whoever pages by date until a page is not full has been shown every line
\* there was when he began, although lines are added meanwhile, and not in the
\* order of their dates (service.py:97-139, 160-240).  A column with ties, whose
\* order Postgres may choose anew for each page, promises nothing of the kind.
WalkFindsAll ==
    \A w \in Walks :
      /\ walk[w].pc = "page" /\ walk[w].order \in {"newest", "oldest"}
      /\ Cardinality(walk[w].items) < PageSize
      => walk[w].unseen = {}

\* The total and the page are read by two statements, between which lines are
\* added; yet a page that is not full ends the listing: there is no line that the
\* total counts and neither the page nor those before it have
\* (service.py:117-139, 199-236).
PageAgreesWithTotal ==
    \A w \in Walks :
      /\ walk[w].pc = "page"
      /\ Cardinality(walk[w].items) < PageSize
      => walk[w].total <= walk[w].offset + Cardinality(walk[w].items)

\* A line joins the others, which stay as they are, under a key that held its
\* session while the call ran, and is the only one of its call; what a user is
\* shown or opens ran under a key of his (middleware.py:218-274,
\* client/history.py:26-66).
LinesKeepTheirOwners ==
    [][ /\ lines \subseteq lines'
        /\ \A line \in lines' \ lines :
             /\ line.key \in call[line.id].held
             /\ \A other \in lines : other.id # line.id
        /\ \A w \in Walks : walk'[w].reader \in Users =>
             \A line \in walk'[w].items :
               Owner[line.key] = walk'[w].reader /\ line \in lines' ]_hvars
===============================================================================
