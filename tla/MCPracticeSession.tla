--------------------------- MODULE MCPracticeSession ---------------------------
(* Practice sessions with few tabs, questions and sessions. *)
EXTENDS PracticeSession
===============================================================================
