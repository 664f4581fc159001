--------------------------- MODULE MCQuestionRunner ---------------------------
(* An instance of QuestionRunner for TLC. *)
EXTENDS QuestionRunner, TLC
===============================================================================
