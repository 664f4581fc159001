--------------------------- MODULE MCTaskController ---------------------------
(* An instance of TaskController for TLC. *)
EXTENDS TaskController, TLC

Symmetry == Permutations(Procs)
MCRoadmap == <<"a", "b">>
MCDependsOn == [t \in {"a", "b"} |-> IF t = "b" THEN {"a"} ELSE {}]
===============================================================================
