------------------------------- MODULE MCGateway -------------------------------
(* TLC instance of GatewayProcess: two names of servers, one policy that may *)
(* or may not be there, and chains of tasks that refer to them.              *)
EXTENDS GatewayProcess

CONSTANTS p, flow, none

File(enabled, fault, name, body) ==
    [enabled |-> enabled, fault |-> fault, name |-> name, body |-> body]

Task(type, name, option, onFailure) ==
    [type |-> type, enabled |-> TRUE, name |-> name, option |-> option,
     onFailure |-> onFailure]

Off(task) == [task EXCEPT !.enabled = FALSE]

Server(policy, guard) == [policy |-> policy, guard |-> guard]

\* Every fault and every way to switch a file off.
Troubled(name, body) ==
    {File("absent", fault, name, body) : fault \in {"unreadable", "invalid"}}
    \cup {File("no", fault, name, body) : fault \in Faults}
    \cup {File(enabled, "none", name, body) : enabled \in {"falsy", "text"}}

Good(name, body) == File("absent", "none", name, body)

\* The first server comes in every combination of policy and guard, the second
\* in one.
ServerFiles ==
    {Good(1, Server(NoPolicy, guard)) : guard \in {"default", "on"}}
    \cup {Good(1, Server(p, guard)) : guard \in {"default", "off"}}
    \cup Troubled(1, Server(NoPolicy, "default"))
    \cup {Good(2, Server(p, "default"))} \cup Troubled(2, Server(p, "default"))

\* Failures that are tolerated or of tasks that are disabled, with and without
\* somebody who requires the output.
Chains ==
    {<<Task("mcp_server", 2, "", "warn"), Task("validation", none, "server", "fail")>>,
     <<Task("policy", p, "", "skip"), Task("transform", none, "merge", "fail"),
       Task("validation", none, "policy", "fail")>>,
     <<Task("guard", none, "call", "fail"), Task("policy", p, "", "fail"),
       Task("output", none, "", "fail")>>,
     <<Task("guard", none, "call", "warn"), Task("validation", none, "verdict", "fail"),
       Task("guard", none, "call", "fail")>>,
     <<Task("source", 1, "", "fail"), Task("transform", none, "collect", "fail"),
       Off(Task("mcp_server", 1, "", "fail")), Task("custom", none, "", "fail")>>,
     <<Task("policy", p, "", "skip"), Off(Task("transform", none, "merge", "fail")),
       Task("validation", none, "policy", "warn"), Task("mcp_server", 1, "", "fail")>>}

Workflow(server, policies) ==
    [source |-> none, server |-> server, policies |-> policies, output |-> none]

Plain(name) == {Good(name, none)} \cup Troubled(name, none)

MCFiles ==
    [servers |-> ServerFiles, policies |-> Plain(p),
     sources |-> Plain(none), outputs |-> Plain(none),
     workflows |-> {Good(none, Workflow(1, {p})), Good(none, Workflow(2, {}))}
                   \cup Troubled(none, Workflow(1, {})),
     pipelines |-> {Good(flow, chain) : chain \in Chains}
                   \cup Troubled(flow, CHOOSE chain \in Chains : TRUE)]
===============================================================================
