------------------------------ MODULE MCSignIn ------------------------------
(* A small instance of SignIn.  A behaviour with a second factor changes   *)
(* the password or issues a reset link once; one without may do more.      *)
EXTENDS SignIn, TLC

CONSTANT MaxChanges
ASSUME ChangesAssumption == MaxChanges \in Nat

Bounded == account.pw + reset.id + 2 * factor.secret <= MaxChanges
BoundedSpec == Init /\ [][Next /\ Bounded']_vars

Symmetry == Permutations(Sessions) \cup Permutations(Requests)
=============================================================================
