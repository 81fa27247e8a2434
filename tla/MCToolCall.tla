------------------------------ MODULE MCToolCall ------------------------------
(* TLC instances of ToolCall: two tables with one column each, a column that *)
(* is always hashed and one that every action is tried on.                   *)
EXTENDS ToolCall, TLC

CONSTANTS t1, t2, email, card, x

MCTableOf == email :> t1 @@ card :> t2

As(c, name) == [col |-> c, out |-> name, hashed |-> FALSE]
Select(tables, stars, items) ==
    [legal |-> TRUE, tables |-> tables, stars |-> stars, items |-> items, refs |-> {},
     key |-> "none"]

\* Queries of one or both tables: aliases, stars over one table, filtered by the
\* other's column, and over both, and one that is not permitted.
MCQueries ==
    {Select({t1}, {}, {As(email, x)}),
     [Select({t1, t2}, {t1}, {}) EXCEPT !.refs = {card}],
     Select({t1, t2}, {t1, t2}, {}),
     Select({t1, t2}, {}, {As(card, x)}),
     [Select({t2}, {}, {Plain(card)}) EXCEPT !.legal = FALSE]}

\* Policies that hash one table's column and do anything with the other's,
\* declared or not ("allow" is no rule of any check and acts as "unlisted"),
\* and one under which its name is a denied keyword.
MCPolicy(action, declared, denied) ==
    [action |-> email :> "mask" @@ card :> action,
     declared |-> t1 :> {email} @@ t2 :> declared, denied |-> denied]

MCPolicies ==
    {MCPolicy(action, declared, {}) :
       action \in {"mask", "drop", "block"}, declared \in {{}, {card}}}
    \cup {MCPolicy("unlisted", {}, {}), MCPolicy("unlisted", {card}, {card})}
===============================================================================
