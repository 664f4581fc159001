-------------------------- MODULE MCProductAnalytics --------------------------
(* An instance of ProductAnalytics for TLC. *)
EXTENDS ProductAnalytics, TLC

MCPermittedOn == [n \in EventNames |-> IF n = "submitted" THEN {"outcome"} ELSE {"page"}]
MCValuesOf == [k \in {"outcome", "page"} |-> IF k = "outcome" THEN {"right", "wrong"} ELSE {"learn"}]

MCEvents == {[name |-> "submitted", props |-> [k \in {"outcome"} |-> "right"]]}

Event(e, p) == [extra |-> FALSE, d |-> 3, e |-> e, p |-> p]
Body(events) == [extra |-> FALSE, events |-> events]
Right == [k \in {"outcome"} |-> "right"]

\* A repeated event without a property, and bodies the server must refuse: a
\* property of another event, a value that is not listed, yesterday's date in
\* the second event, an extra key.
MCBodies ==
  {Body(<<Event("submitted", Right), Event("submitted", <<>>)>>),
   Body(<<Event("viewed", Right)>>),
   Body(<<Event("submitted", [k \in {"outcome"} |-> "learn"])>>),
   Body(<<Event("viewed", <<>>), [Event("viewed", <<>>) EXCEPT !.d = 2]>>),
   Body(<<[Event("viewed", <<>>) EXCEPT !.extra = TRUE]>>)}

\* Without a first day, which is after the last one from the fourth day on.
MCFilters == {[from |-> NoDate, to |-> 2, event |-> "submitted"]}
===============================================================================
