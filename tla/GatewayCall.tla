------------------------------ MODULE GatewayCall ------------------------------
(***************************************************************************)
(* What the gateway promises of one tool call, without saying how: a call  *)
(* is sent at most once and only cleared, it succeeds only after it was    *)
(* sent, and its line of history, if it gets one, is written at most once  *)
(* and tells how it ended.                                                 *)
(***************************************************************************)
EXTENDS SqlPolicy

CONSTANT NotSent

VARIABLES server, policy, sent, status, recorded

vars == <<server, policy, sent, status, recorded>>

Init ==
    /\ sent = NotSent
    /\ status = "none"
    /\ recorded = "none"

\* The arguments sent are cleared by the policy in force.
Send ==
    /\ sent = NotSent /\ status = "none"
    /\ sent' # NotSent
    /\ server.permitted
    /\ server.sql => \A k \in DOMAIN sent' : Enforced(policy, sent'[k])
    /\ UNCHANGED <<server, policy, status, recorded>>

Succeed ==
    /\ status = "none" /\ sent # NotSent
    /\ status' = "ok"
    /\ UNCHANGED <<server, policy, sent, recorded>>

Fail ==
    /\ status = "none"
    /\ status' \in {"blocked", "error", "cancelled"}
    /\ UNCHANGED <<server, policy, sent, recorded>>

Record ==
    /\ status \in {"ok", "blocked", "error"} /\ recorded = "none"
    /\ recorded' = status
    /\ UNCHANGED <<server, policy, sent, status>>

\* A call can be cancelled until its end was recorded, and while it is.
CancelLate ==
    /\ status \in {"ok", "blocked", "error"} /\ recorded = "none"
    /\ status' = "cancelled"
    /\ recorded' \in {"none", status}
    /\ UNCHANGED <<server, policy, sent>>

Next == Send \/ Succeed \/ Fail \/ Record \/ CancelLate

Spec == Init /\ [][Next]_vars
===============================================================================
