------------------------------ MODULE SqlPolicy ------------------------------
(***************************************************************************)
(* SqlPolicyEnforcer (app/policies/sql.py) and the validation of a rewrite *)
(* (app/services/rewriter/service.py), over statements of which only what  *)
(* they decide on is kept.  A statement is one SELECT: whether it passes   *)
(* the checks of its kind, keywords and tables is a flag, the projections  *)
(* are a set, and each of them reads one column under an output name; of   *)
(* the rest (WHERE, ORDER BY, ...) the columns it names are kept.          *)
(* Every column name belongs to one table.                                 *)
(***************************************************************************)

CONSTANTS Tables, Columns,
          Aliases,  \* output names that are not names of columns
          TableOf   \* the table of each column

ASSUME SqlAssumption ==
    /\ TableOf \in [Columns -> Tables]
    /\ Aliases \cap Columns = {}

Actions == {"unlisted", "allow", "mask", "drop", "block"}

\* What a policy says of each column, which columns it declares for each
\* table (for the expansion of a star), and the names that are denied keywords.
Policy == [action: [Columns -> Actions], declared: [Tables -> SUBSET Columns],
           denied: SUBSET Columns]

\* A projection; hashed: its value is wrapped in the hash keyed by data_key.
Item == [col: Columns, out: Columns \cup Aliases, hashed: BOOLEAN]

\* stars: the tables all of whose columns a star projects;
\* refs: the columns named elsewhere than in projections;
\* key: whether the text holds the placeholder or the data_key itself.
Statement == [legal: BOOLEAN, tables: SUBSET Tables, stars: SUBSET Tables,
              items: SUBSET Item, refs: SUBSET Columns,
              key: {"none", "placeholder", "secret"}]

Plain(c) == [col |-> c, out |-> c, hashed |-> FALSE]
Selected(s) == {i.col : i \in s.items}
Referenced(s) == Selected(s) \cup s.refs
OutputNames(s) == {i.out : i \in s.items}

\* columns_by_action over the tables of a statement.
ColumnsByAction(p, tables, action) ==
    {c \in Columns : TableOf[c] \in tables /\ p.action[c] = action}

\* _enforce_star_projection: for every table of the statement, whichever of
\* them the star is about.
StarPermitted(p, s) ==
    \A t \in s.tables :
      /\ ColumnsByAction(p, {t}, "block") = {}
      /\ \/ p.declared[t] # {}
         \/ ColumnsByAction(p, {t}, "drop") \cup ColumnsByAction(p, {t}, "mask") = {}

\* enforce, of a statement that parses.
Enforced(p, s) ==
    /\ s.legal
    /\ (Referenced(s) \cup OutputNames(s)) \cap p.denied = {}
    /\ Selected(s) \cap ColumnsByAction(p, s.tables, "block") = {}
    /\ s.stars # {} => StarPermitted(p, s)

\* _projected_pii_columns: with a star, all columns of that action.
Projected(p, s, action) ==
    {c \in ColumnsByAction(p, s.tables, action) : s.stars # {} \/ c \in Selected(s)}

\* expand_stars: nothing is expanded when the columns of one of the tables
\* are not declared.
ExpandStars(p, s) ==
    IF \E t \in s.stars : p.declared[t] = {}
    THEN s
    ELSE [s EXCEPT !.stars = {},
                   !.items = @ \cup {Plain(c) : c \in UNION {p.declared[t] : t \in s.stars}}]

\* drop_columns: projections go by their output name; stars stay.
DropColumns(s, names) == [s EXCEPT !.items = {i \in @ : i.out \notin names}]

\* _prepare_sql of PiiHashRewriteMiddleware, when it does not raise.
Prepared(p, s) ==
    LET expanded == ExpandStars(p, s) IN
    DropColumns(expanded, Projected(p, expanded, "drop"))

\* ... and how it fails: the policy rejects what the expansion or the drop
\* leaves, or the drop leaves nothing to select.
PrepareFailure(p, s) ==
    LET expanded == ExpandStars(p, s) IN
    IF expanded # s /\ ~Enforced(p, expanded) THEN "blocked"
    ELSE IF Projected(p, expanded, "drop") = {} THEN "none"
    ELSE IF Prepared(p, s).items = {} /\ expanded.stars = {} THEN "error"
    ELSE IF ~Enforced(p, Prepared(p, s)) THEN "blocked"
    ELSE "none"

\* s with its projections as in f, and the rest of its text as given.
RewriteAs(s, f, refs, legal, key) ==
    [s EXCEPT !.refs = refs, !.legal = legal, !.key = key,
              !.items = {[col |-> f[i].col, out |-> i.out, hashed |-> f[i].hashed] : i \in @}]

\* The model's answers for a statement: any projection may read any column,
\* hashed or not, under the name it had; the rest of the text may name any
\* columns or become something the policy rejects, and the placeholder may be
\* missing.
Rewrites(s) ==
    {RewriteAs(s, f, refs, legal, key) :
       f \in [s.items -> [col: Columns, hashed: BOOLEAN]], refs \in SUBSET Columns,
       legal \in BOOLEAN, key \in {"none", "placeholder"}}

\* _validate of the rewriter: r for s, whose columns to hash are the targets.
\* It asks for the placeholder and for the targets anywhere in the text, not
\* that one is wrapped in the other.  The names are not compared when s still
\* has a star.
ValidRewrite(s, r, targets) ==
    /\ r.key = "placeholder"
    /\ targets \subseteq Referenced(r)
    /\ \/ s.stars # {}
       \/ r.stars = {} /\ OutputNames(r) = OutputNames(s)

\* _substitute_data_key.
Substituted(r) == [r EXCEPT !.key = IF @ = "placeholder" THEN "secret" ELSE @]
===============================================================================
