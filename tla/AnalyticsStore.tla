----------------------------- MODULE AnalyticsStore -----------------------------
(***************************************************************************)
(* The server's half of product analytics (server/analytics.ts): what a     *)
(* batch may contain, the counters it adds to, the range a report serves,   *)
(* and the sums the administration page shows (AdminAnalyticsPage.tsx).     *)
(* Days are numbers; a table is a function from the rows it has to their    *)
(* counts.                                                                  *)
(***************************************************************************)
EXTENDS Integers, Sequences, FiniteSets, Functions

CONSTANTS EventNames,     \* ANALYTICS_EVENTS
          PermittedOn,    \* ANALYTICS_EVENT_PROPERTIES: property names of an event
          ValuesOf,       \* ANALYTICS_PROPERTY_VALUES: values of a property
          MaxBatch,       \* MAX_EVENTS_PER_REQUEST
          MaxRangeDays,   \* widest range of a report
          MaxLookback,    \* how far back a report may reach
          DefaultDays,    \* range of a report without dates
          NoDate          \* a missing or unreal date

ASSUME StoreAssumption ==
  /\ PermittedOn \in [EventNames -> SUBSET DOMAIN ValuesOf]
  /\ "" \notin DOMAIN ValuesOf /\ \A k \in DOMAIN ValuesOf : IsFiniteSet(ValuesOf[k])
  /\ MaxBatch \in Nat \ {0} /\ MaxRangeDays \in Nat \ {0}
  /\ MaxLookback \in Nat /\ DefaultDays \in 1 .. MaxLookback /\ MaxRangeDays <= MaxLookback

\* A dimension of a row; the event's own total has an empty one.
Total == <<"", "">>
Dimensions(name) == {Total} \cup UNION {{k} \X ValuesOf[k] : k \in PermittedOn[name]}

\* The cells a day can have, whatever callers send.
Cells == UNION {{n} \X Dimensions(n) : n \in EventNames}

\* parseEvent: fields d, e and p only, today's date, a known event, and
\* permitted properties with listed values.
EventIsValid(raw, today) ==
  /\ ~raw.extra
  /\ raw.d = today
  /\ raw.e \in EventNames
  /\ \A k \in DOMAIN raw.p : k \in PermittedOn[raw.e] /\ raw.p[k] \in ValuesOf[k]

\* parseAnalyticsBatch: one bad event refuses the whole body.
BatchIsValid(body, today) ==
  /\ ~body.extra
  /\ Len(body.events) \in 1 .. MaxBatch
  /\ \A i \in 1 .. Len(body.events) : EventIsValid(body.events[i], today)

\* The rows one event counts in, and the deltas of a batch: equal rows are
\* one delta with the summed increment.
CellsOf(raw) == {<<raw.e, Total>>} \cup {<<raw.e, <<k, raw.p[k]>>>> : k \in DOMAIN raw.p}
DeltasOfLast(events) ==   \* mutant: equal rows overwrite instead of adding up
  LET touched == UNION {CellsOf(events[i]) : i \in 1 .. Len(events)}
  IN [c \in touched |-> 1]
Deltas(events) ==
  LET touched == UNION {CellsOf(events[i]) : i \in 1 .. Len(events)}
  IN [c \in touched |-> Cardinality({i \in 1 .. Len(events) : c \in CellsOf(events[i])})]

\* INSERT ... ON CONFLICT DO UPDATE SET count = count + excluded.count, all
\* statements of a batch in one transaction.
CountOf(table, row) == IF row \in DOMAIN table THEN table[row] ELSE 0
Recorded(table, day, deltas) ==
  LET rows == {<<day, c>> : c \in DOMAIN deltas}
  IN [r \in DOMAIN table \cup rows |->
        CountOf(table, r) + IF r \in rows THEN deltas[r[2]] ELSE 0]

\* DELETE ... WHERE bucket_date < cutoff
Purged(table, cutoff) == Restrict(table, {r \in DOMAIN table : r[1] >= cutoff})

\* parseAnalyticsQuery: dates are clamped, never refused; the lower bound
\* gives way when the range is too wide; an unknown event means every event.
ReadDate(raw, fallback, today) ==
  IF raw = NoDate THEN fallback
  ELSE IF raw > today THEN today
  ELSE IF raw < today - MaxLookback THEN today - MaxLookback
  ELSE raw
ServedRange(query, today) ==
  LET to == ReadDate(query.to, today, today)
      from == ReadDate(query.from, today - DefaultDays + 1, today)
      low == IF from <= to THEN from ELSE to
      widest == to - MaxRangeDays + 1
  IN [from |-> IF low < widest THEN widest ELSE low, to |-> to,
      event |-> IF query.event \in EventNames THEN query.event ELSE "all"]

\* readAnalytics: the rows of the range, and of the event if one is asked for.
RowsIn(table, range) ==
  Restrict(table, {r \in DOMAIN table :
                     /\ r[1] \in range.from .. range.to
                     /\ range.event \in {"all", r[2][1]}})

\* A sum over a finite set, counted in units: f[x] of them for each x.
Units(S, f) == UNION {{x} \X (1 .. f[x]) : x \in S}
SumOver(S, f) == Cardinality(Units(S, f))

\* summarise: the total of an event adds up its rows without a dimension
\* only, and each dimension its own rows.
RowsOf(rows, name, dimension) == {r \in DOMAIN rows : r[2] = <<name, dimension>>}
SummedBy(rows, name, dimension) == SumOver(RowsOf(rows, name, dimension), rows)
Summed(rows, name) == SummedBy(rows, name, Total)
===============================================================================
