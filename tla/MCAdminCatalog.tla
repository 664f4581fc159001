---------------------------- MODULE MCAdminCatalog ----------------------------
(* Instances of AdminCatalog for TLC. *)
EXTENDS AdminCatalog, TLC

\* Administrators are alike: a text is named by the page that wrote it.
Symmetry == Permutations(Pages)
===============================================================================
