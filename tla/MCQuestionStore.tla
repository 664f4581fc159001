--------------------------- MODULE MCQuestionStore ---------------------------
(* Instances of QuestionStore for TLC. *)
EXTENDS QuestionStore, TLC

LiveDrafts == {[enabled |-> TRUE, published |-> TRUE]}

Symmetry == Permutations(Reqs)
===============================================================================
