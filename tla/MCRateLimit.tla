------------------------------ MODULE MCRateLimit ------------------------------
(* An instance of RateLimit for TLC, and plausible errors of its operators. *)
EXTENDS RateLimit, TLC

MCLimit == [f \in Families |-> IF f = "admin" THEN 2 ELSE 1]

Symmetry == Permutations(Clients)
===============================================================================
