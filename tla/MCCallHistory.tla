----------------------------- MODULE MCCallHistory -----------------------------
(* TLC instances of CallHistory. *)
EXTENDS CallHistory, TLC

CONSTANTS k1, k2, u1

\* A user has a key, another user has none, and one key is nobody's.
MCOwner == (k1 :> u1) @@ (k2 :> NoUser)

Symmetry == Permutations(Calls)
===============================================================================
