---------------------------- MODULE MCSessionStore ----------------------------
(* TLC instances of SessionStore. *)
EXTENDS SessionStore, TLC

Symmetry == Permutations(Sids) \cup Permutations(Keys) \cup Permutations(Requests)
===============================================================================
