----------------------------- MODULE MCLlmServices -----------------------------
(* TLC instances of LlmServices with two texts.  The model is asked about the *)
(* first; the checks before it may decide the second.                         *)
EXTENDS LlmServices

CONSTANTS a, b

MCInit == Init /\ screen[a] = "ask"

MCSpec == MCInit /\ [][Next]_vars
MCFairSpec == MCSpec /\ Fairness
===============================================================================
