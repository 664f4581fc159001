------------------------------ MODULE MCAdminAuth ------------------------------
(* An instance of AdminAuth for TLC. *)
EXTENDS AdminAuth, TLC

Symmetry == Permutations(Requests) \cup Permutations(Sessions)
===============================================================================
