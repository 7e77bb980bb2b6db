---------------------------- MODULE MCOwnership ----------------------------
(***************************************************************************)
(* Owners that start, end and die in every order.  There are enough        *)
(* inodes for every process to bind, and few enough that they are reused.  *)
(***************************************************************************)
EXTENDS Ownership, TLC

\* No action tells inodes apart.
Alike == Permutations(Inodes)
=============================================================================
