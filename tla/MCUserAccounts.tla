--------------------------- MODULE MCUserAccounts ---------------------------
(***************************************************************************)
(* Instances of UserAccounts for TLC.                                      *)
(***************************************************************************)
EXTENDS UserAccounts, TLC

CONSTANTS anna, boris, a1, e1, w1, lead1

Symmetric == Permutations(People) \cup Permutations(Admins)
=============================================================================
