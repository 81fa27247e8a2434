------------------------------- MODULE MCWebAuth -------------------------------
(* TLC instances of WebAuth. *)
EXTENDS WebAuth, TLC

CONSTANT pw

Body(asked) == [asked |-> asked, password |-> pw, admin |-> FALSE, disabled |-> FALSE]

\* A user who is no administrator.
MCRegistrations == {[password |-> pw, admin |-> FALSE]}

\* Demote, promote with a password, disable, enable.
MCPayloads ==
    {Body({"admin"}), [Body({"admin", "password"}) EXCEPT !.admin = TRUE],
     [Body({"disabled"}) EXCEPT !.disabled = TRUE], Body({"disabled"})}

Symmetry == Permutations(Tokens) \cup Permutations(Requests)
===============================================================================
