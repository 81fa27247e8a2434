----------------------------- MODULE WorkflowGraph -----------------------------
(***************************************************************************)
(* The graph that the manager is shown of a workflow                       *)
(* (app/services/workflows/graph.py): the source, the MCP server, the      *)
(* policies and the output that the definition names, each marked as       *)
(* missing when nothing of that name is loaded.  A workflow only describes *)
(* a chain, it is never executed.  Labels and details are left out.        *)
(***************************************************************************)
EXTENDS Naturals

Node(kind, name, found) == [kind |-> kind, name |-> name, missing |-> name \notin found]

PolicyNodes(w, policies) == {Node("policy", q, policies) : q \in w.policies}

Nodes(w, sources, servers, policies, outputs) ==
    {Node("source", w.source, sources), Node("mcp", w.server, servers),
     Node("output", w.output, outputs)}
    \cup PolicyNodes(w, policies)

\* Every policy hangs between the server and the output; without any the two
\* are linked.
Edges(w, sources, servers, policies, outputs) ==
    LET source == Node("source", w.source, sources)
        mcp == Node("mcp", w.server, servers)
        output == Node("output", w.output, outputs)
        between == PolicyNodes(w, policies)
    IN {<<source, mcp>>}
       \cup (IF between = {} THEN {<<mcp, output>>}
             ELSE {<<mcp, q>> : q \in between} \cup {<<q, output>> : q \in between})

\* build_workflow_summary
Summary(w, sources, servers, policies, outputs) ==
    LET nodes == Nodes(w, sources, servers, policies, outputs) IN
    [valid |-> \A n \in nodes : ~n.missing,
     nodes |-> nodes,
     edges |-> Edges(w, sources, servers, policies, outputs)]
===============================================================================
