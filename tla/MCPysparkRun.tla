----------------------------- MODULE MCPysparkRun -----------------------------
(* The PySpark runner with few runs and questions. *)
EXTENDS PysparkRun
===============================================================================
