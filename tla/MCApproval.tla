------------------------------ MODULE MCApproval ------------------------------
(***************************************************************************)
(* Approval with a handful of people; nobody but the creator is special.   *)
(***************************************************************************)
EXTENDS Approval_proofs, TLC

CONSTANTS boss, ann, bob, p1, p2, k1, k2

MCSym == Permutations(Users \ {Creator}) \cup Permutations(Preps) \cup Permutations(Keys)
===============================================================================
