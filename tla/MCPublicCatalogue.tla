-------------------------- MODULE MCPublicCatalogue --------------------------
(* An instance of PublicCatalogue for TLC. *)
EXTENDS PublicCatalogue, TLC

Content(e, c, r) == [engine |-> e, category |-> c, difficulty |-> "Easy", rank |-> r]
Joins == Content("SQL", "Joins", 1)
Windows == Content("SQL", "Windows", 2)
Frames == Content("PySpark", "Joins", 1)
MCContents == {Joins, Windows, Frames}

Row(e, p, d, c) == [enabled |-> e, published |-> p, deleted |-> d, content |-> c]
\* q1 is rewritten and moved to another category, disabled and deleted; q2,
\* which shares its category and title, is a draft that is published.
MCRowsOf == [i \in {"q1", "q2"} |->
  IF i = "q1" THEN {Row(TRUE, TRUE, FALSE, Joins), Row(TRUE, TRUE, FALSE, Windows),
                    Row(FALSE, TRUE, FALSE, Joins), Row(TRUE, TRUE, TRUE, Joins)}
  ELSE {Row(TRUE, FALSE, FALSE, Frames), Row(TRUE, TRUE, FALSE, Frames)}]

List(e, c, d) == [kind |-> "list", engine |-> e, category |-> c, difficulty |-> d]
One(i) == [kind |-> "one", id |-> i]
MCUrls == {List("All", "Joins", ""), List("SQL", "All", Absent),
           List("Perl", Absent, Absent), List(Absent, "<", "Easy"),
           One("q1"), One("Q 1")}
===============================================================================
