--------------------------- MODULE ProductAnalytics ---------------------------
(***************************************************************************)
(* Product analytics from end to end: the queues of the browser tabs        *)
(* (src/lib/analytics.ts), the requests on their way, the ingest endpoint    *)
(* and its daily counters (server/analytics.ts through AnalyticsStore), the  *)
(* retention delete, and the report page (AdminAnalyticsPage.tsx).           *)
(***************************************************************************)
EXTENDS AnalyticsStore

CONSTANTS Tabs,
          Flushes,     \* bound: flushes of a tab under way at once (1 .. n)
          MaxQueue,    \* MAX_QUEUE
          ClientBatch, \* MAX_EVENTS_PER_REQUEST of src/lib/analytics.ts
          Events,      \* what the product reports: [name, props]
          Bodies,      \* bodies anyone may post to the public endpoint
          Filters,     \* what an administrator asks for: [from, to, event]
          Retention,   \* ANALYTICS_RETENTION_DAYS
          MaxDay,      \* bound: days that pass
          MaxEvents,   \* bound: events tracked
          MaxForeign,  \* bound: bodies of others that are accepted
          MaxLoads     \* bound: reports asked for

ASSUME AnalyticsAssumption ==
  /\ Retention \in Nat \ {0} /\ MaxQueue \in Nat \ {0} /\ ClientBatch \in 1 .. MaxBatch
  /\ \A e \in Events : e.name \in EventNames /\ DOMAIN e.props = PermittedOn[e.name]
  /\ \A f \in Filters : {f.from, f.to} \subseteq Int \cup {NoDate}
ASSUME BoundsAssumption ==
  /\ Flushes \subseteq Nat \ {0} /\ IsFiniteSet(Flushes)
  /\ MaxDay \in Nat /\ Retention + 2 <= MaxDay
  /\ {MaxEvents, MaxForeign} \subseteq Nat /\ MaxLoads \in Nat \ {0}

VARIABLES today,     \* the UTC date, the same for tabs and server
          tab,       \* tab[t]: the module state of analytics.ts in tab t
          wire,      \* requests that were sent and not yet answered
          table,     \* analytics_daily
          page,      \* the report page: its filters, its calls, its view
          tracked,   \* history: events tracked so far
          counted,   \* history: how often the event with an id was counted
          foreign,   \* history: events of other clients that were accepted
          truth,     \* history: events accepted per day and name
          cleared    \* history: the latest cutoff of the retention delete

analyticsVars == <<today, tab, wire, table, page, tracked, counted, foreign, truth, cleared>>

Days == 0 .. MaxDay
Ids == 1 .. MaxEvents
FirstDay == MaxDay - 2

Queued == [id : Ids, d : Days, event : Events]
Raw(q) == [extra |-> FALSE, d |-> q.d, e |-> q.event.name, p |-> q.event.props]

\* A build without an API starts suppressed; any other starts undetermined.
NewTab(available) ==
  [queue |-> <<>>, available |-> available, probe |-> "none",
   flush |-> [f \in Flushes |-> "idle"], hidden |-> FALSE, open |-> TRUE]

\* The page opens with the last days of every event, and is loading.
OpeningFilter == [from |-> FirstDay - DefaultDays + 1, to |-> FirstDay, event |-> ""]
NoView == [kind |-> "loading"]

AnalyticsInit ==
  /\ today = FirstDay
  /\ tab \in [Tabs -> {NewTab("no"), NewTab("unknown")}]
  /\ wire = {}
  /\ table = <<>>
  /\ page = [filter |-> OpeningFilter, loads |-> 1, view |-> NoView,
             calls |-> {[no |-> 1, filter |-> OpeningFilter]}]
  /\ tracked = 0
  /\ counted = [i \in Ids |-> 0]
  /\ foreign = 0
  /\ truth = [r \in Days \X EventNames |-> 0]
  /\ cleared = FirstDay - Retention

\* What a step of a tab leaves alone.
Elsewhere == <<page, table, counted, foreign, truth, cleared, today>>

-------------------------------------------------------------------------------
\* The tab.

Least(a, b) == IF a < b THEN a ELSE b

\* The n-th batch that comes off a queue, and what is left after n of them.
Batch(queue, n) == SubSeq(queue, (n - 1) * ClientBatch + 1, Least(n * ClientBatch, Len(queue)))
Left(queue, n) == SubSeq(queue, n * ClientBatch + 1, Len(queue))

\* A request on its way; `flush' waits for it, or nothing does.
Post(t, f, batch) == [tab |-> t, flush |-> f, batch |-> batch, phase |-> "sent", day |-> 0]
Unawaited == 0

\* Beyond the cap the oldest events go.
KeptAtCap(queue) ==
  IF Len(queue) > MaxQueue THEN SubSeq(queue, Len(queue) - MaxQueue + 1, Len(queue)) ELSE queue

\* ensureApiAvailability: whoever needs the answer first asks, once.
Asked(s) == IF s.probe = "none" /\ s.available = "unknown" THEN [s EXCEPT !.probe = "pending"] ELSE s

\* The synchronous part of flush() started as f, from the tab's state s: the
\* state it leaves and the requests it sends.
FlushBegun(t, f, s) ==
  IF s.queue = <<>> THEN [state |-> s, sent |-> {}]
  ELSE IF s.available = "no" THEN [state |-> [s EXCEPT !.queue = <<>>], sent |-> {}]
  ELSE IF s.available = "unknown"
       THEN [state |-> [Asked(s) EXCEPT !.flush[f] = "probe"], sent |-> {}]
  ELSE [state |-> [s EXCEPT !.flush[f] = "send", !.queue = Left(s.queue, 1)],
        sent |-> {Post(t, f, Batch(s.queue, 1))}]

\* flushOnUnload cannot wait for a probe: it sends one batch or drops all.
Unloaded(s) ==
  IF s.available = "yes" THEN [s EXCEPT !.queue = Left(s.queue, 1)] ELSE [s EXCEPT !.queue = <<>>]
UnloadPostsBlind(t, s) ==   \* mutant: sends whether or not there is an API
  IF s.queue # <<>> THEN {Post(t, Unawaited, Batch(s.queue, 1))} ELSE {}
UnloadPosts(t, s) ==
  IF s.available = "yes" /\ s.queue # <<>>
  THEN {Post(t, Unawaited, Batch(s.queue, 1))} ELSE {}

Idle(t) == {f \in Flushes : tab[t].flush[f] = "idle"}

\* trackEvent: queue, drop the oldest beyond the cap, ask whether there is an
\* API, and flush at once in a hidden tab.
Track(t, e) ==
  /\ tab[t].open /\ tab[t].available # "no"
  /\ tracked < MaxEvents
  /\ LET entry == [id |-> tracked + 1, d |-> today, event |-> e]
         queued == Asked([tab[t] EXCEPT !.queue = KeptAtCap(Append(tab[t].queue, entry))])
     IN \/ /\ ~tab[t].hidden
           /\ tab' = [tab EXCEPT ![t] = queued]
           /\ wire' = wire
        \/ /\ tab[t].hidden
           /\ \E f \in Idle(t) :
                LET begun == FlushBegun(t, f, queued)
                IN /\ tab' = [tab EXCEPT ![t] = begun.state]
                   /\ wire' = wire \cup begun.sent
  /\ tracked' = tracked + 1
  /\ UNCHANGED Elsewhere

\* The interval of startAnalytics fires, whatever other flushes are doing.
Timer(t) ==
  /\ tab[t].open /\ tab[t].queue # <<>>
  /\ \E f \in Idle(t) :
       LET begun == FlushBegun(t, f, tab[t])
       IN /\ tab' = [tab EXCEPT ![t] = begun.state]
          /\ wire' = wire \cup begun.sent
  /\ UNCHANGED <<Elsewhere, tracked>>

\* probeApi answers or throws, and the flushes that waited go on in turn: the
\* first takes the first batch, the second the next one.
ProbeAnswers(t, available) ==
  /\ tab[t].open /\ tab[t].probe = "pending"
  /\ LET s == tab[t]
         waiting == {f \in Flushes : s.flush[f] = "probe"}
         turn(f) == Cardinality({g \in waiting : g <= f})
         lucky == IF available # "yes" THEN {}
                  ELSE {f \in waiting : (turn(f) - 1) * ClientBatch < Len(s.queue)}
     IN /\ tab' = [tab EXCEPT ![t] =
                     [s EXCEPT !.available = available, !.probe = "answered",
                               !.queue = IF waiting = {} THEN @
                                         ELSE IF available = "no" THEN <<>>
                                         ELSE Left(@, Cardinality(lucky)),
                               !.flush = [f \in Flushes |->
                                            IF f \in lucky THEN "send"
                                            ELSE IF f \in waiting THEN "idle" ELSE @[f]]]]
        /\ wire' = wire \cup {Post(t, f, Batch(s.queue, turn(f))) : f \in lucky}
  /\ UNCHANGED <<Elsewhere, tracked>>

\* What a flush does after a request: any answer goes on with the next batch,
\* a network error ends the flush and leaves the rest queued.
FlushGoesOn(p, others) ==
  LET s == tab[p.tab]
      again == s.queue # <<>>
  IN /\ tab' = [tab EXCEPT ![p.tab] =
                  [s EXCEPT !.flush[p.flush] = IF again THEN "send" ELSE "idle",
                            !.queue = IF again THEN Left(@, 1) ELSE @]]
     /\ wire' = others \cup IF again THEN {Post(p.tab, p.flush, Batch(s.queue, 1))} ELSE {}

\* The page is hidden (it may come back), or goes away for good.
Hide(t) ==
  /\ tab[t].open /\ ~tab[t].hidden
  /\ tab' = [tab EXCEPT ![t] = [Unloaded(tab[t]) EXCEPT !.hidden = TRUE]]
  /\ wire' = wire \cup UnloadPosts(t, tab[t])
  /\ UNCHANGED <<Elsewhere, tracked>>

Show(t) ==
  /\ tab[t].open /\ tab[t].hidden
  /\ tab' = [tab EXCEPT ![t].hidden = FALSE]
  /\ UNCHANGED <<Elsewhere, tracked, wire>>

\* pagehide.  Requests under way are kept alive, the flushes that wait die.
Close(t) ==
  /\ tab[t].open
  /\ tab' = [tab EXCEPT ![t] = [Unloaded(tab[t]) EXCEPT
                                  !.open = FALSE, !.queue = <<>>,
                                  !.flush = [f \in Flushes |-> "idle"]]]
  /\ wire' = {[p EXCEPT !.flush = IF p.tab = t THEN Unawaited ELSE @] : p \in wire}
             \cup UnloadPosts(t, tab[t])
  /\ UNCHANGED <<Elsewhere, tracked>>

-------------------------------------------------------------------------------
\* The network and the server.

\* A request is answered: the flush that waits, if any, goes on.
AnswerPost(p) ==
  IF p.flush = Unawaited THEN wire' = wire \ {p} /\ UNCHANGED tab
  ELSE FlushGoesOn(p, wire \ {p})

\* 429 of the limiter, 403 of the origin check, or 400 because an event is not
\* of today: the batch is gone, and to the client that is an answer.
RefuseBatch(p) ==
  /\ p.phase = "sent"
  /\ AnswerPost(p)
  /\ UNCHANGED <<Elsewhere, tracked>>

\* parseAnalyticsBatch: the bucket date is decided here.
ParseTrustsClient(p) ==   \* mutant: the client's date is the bucket
  /\ p.phase = "sent"
  /\ wire' = (wire \ {p}) \cup {[p EXCEPT !.phase = "parsed", !.day = p.batch[1].d]}
  /\ UNCHANGED <<Elsewhere, tab, tracked>>
Parse(p) ==
  /\ p.phase = "sent"
  /\ BatchIsValid([extra |-> FALSE, events |-> [i \in 1 .. Len(p.batch) |-> Raw(p.batch[i])]], today)
  /\ wire' = (wire \ {p}) \cup {[p EXCEPT !.phase = "parsed", !.day = today]}
  /\ UNCHANGED <<Elsewhere, tab, tracked>>

Count(events, day) ==
  /\ table' = Recorded(table, day, Deltas(events))
  /\ truth' = [r \in DOMAIN truth |-> truth[r] +
                 IF r[1] = day THEN Cardinality({i \in 1 .. Len(events) : events[i].e = r[2]}) ELSE 0]

\* recordAnalytics: the transaction commits; the answer may still be lost.
Commit(p) ==
  /\ p.phase = "parsed"
  /\ Count([i \in 1 .. Len(p.batch) |-> Raw(p.batch[i])], p.day)
  /\ counted' = [i \in Ids |-> counted[i] +
                   Cardinality({j \in 1 .. Len(p.batch) : p.batch[j].id = i})]
  /\ \/ AnswerPost(p)
     \/ /\ p.flush # Unawaited
        /\ wire' = wire \ {p}
        /\ tab' = [tab EXCEPT ![p.tab].flush[p.flush] = "idle"]
  /\ UNCHANGED <<today, page, cleared, tracked, foreign>>

\* The request is lost, or the transaction fails and is answered 500.
Lose(p) ==
  /\ p.phase \in {"sent", "parsed"}
  /\ \/ AnswerPost(p)
     \/ /\ p.flush # Unawaited
        /\ wire' = wire \ {p}
        /\ tab' = [tab EXCEPT ![p.tab].flush[p.flush] = "idle"]
  /\ UNCHANGED <<Elsewhere, tracked>>

\* The endpoint is public: anyone may post a body.
ForeignPost(body) ==
  /\ BatchIsValid(body, today)
  /\ foreign + Len(body.events) <= MaxForeign
  /\ foreign' = foreign + Len(body.events)
  /\ Count(body.events, today)
  /\ UNCHANGED <<today, tab, wire, page, tracked, counted, cleared>>

\* Midnight.  No request takes a day.
NextDay ==
  /\ today < MaxDay
  /\ \A p \in wire : p.phase = "parsed" => p.day = today
  /\ today' = today + 1
  /\ UNCHANGED <<tab, wire, table, page, tracked, counted, foreign, truth, cleared>>

\* The scheduled retention delete.
Purge ==
  /\ today - Retention > cleared
  /\ cleared' = today - Retention
  /\ table' = Purged(table, today - Retention)
  /\ truth' = [r \in DOMAIN truth |-> IF r[1] < today - Retention THEN 0 ELSE truth[r]]
  /\ UNCHANGED <<today, tab, wire, page, tracked, counted, foreign>>

-------------------------------------------------------------------------------
\* The report page: one effect loads on every change of a filter and on
\* Refresh, and ignores the answers of loads it has replaced.

Reload(f) ==
  /\ page.loads < MaxLoads
  /\ page' = [filter |-> f, loads |-> page.loads + 1, view |-> NoView,
              calls |-> page.calls \cup {[no |-> page.loads + 1, filter |-> f]}]
  /\ UNCHANGED <<today, tab, wire, table, tracked, counted, foreign, truth, cleared>>

ChangeFilter(f) == f # page.filter /\ Reload(f)
Refresh == page.view.kind # "loading" /\ Reload(page.filter)

AcceptsAny(call) == TRUE   \* mutant: an answer that comes late is shown
Accepts(call) == call.no = page.loads

Shown(call, view) ==
  page' = [page EXCEPT !.calls = @ \ {call}, !.view = IF Accepts(call) THEN view ELSE @]

Report(call) ==
  /\ LET range == ServedRange(call.filter, today)
         rows == RowsIn(table, range)
     IN Shown(call, [kind |-> "loaded", asked |-> call.filter, range |-> range, on |-> today,
                     totals |-> [n \in EventNames |-> Summed(rows, n)],
                     splits |-> [n \in EventNames |->
                                   [k \in PermittedOn[n] |->
                                      SumOver(ValuesOf[k], [v \in ValuesOf[k] |->
                                                              SummedBy(rows, n, <<k, v>>)])]],
                     truth |-> [n \in EventNames |->
                                  IF range.event \in {"all", n}
                                  THEN SumOver((range.from .. range.to) \cap Days,
                                               [d \in Days |-> truth[<<d, n>>]])
                                  ELSE 0]])
  /\ UNCHANGED <<today, tab, wire, table, tracked, counted, foreign, truth, cleared>>

ReportFails(call) ==
  /\ Shown(call, [kind |-> "error"])
  /\ UNCHANGED <<today, tab, wire, table, tracked, counted, foreign, truth, cleared>>
-------------------------------------------------------------------------------
Network == \E p \in wire : RefuseBatch(p) \/ Parse(p) \/ Commit(p) \/ Lose(p)
ReportCall == \E call \in page.calls : Report(call) \/ ReportFails(call)

AnalyticsNext ==
  \/ \E t \in Tabs : \/ \E e \in Events : Track(t, e)
                     \/ Timer(t)
                     \/ \E a \in {"yes", "no"} : ProbeAnswers(t, a)
                     \/ Hide(t) \/ Show(t) \/ Close(t)
  \/ Network
  \/ \E b \in Bodies : ForeignPost(b)
  \/ NextDay \/ Purge
  \/ \E f \in Filters \cup {OpeningFilter} : ChangeFilter(f)
  \/ Refresh
  \/ ReportCall

AnalyticsSpec == AnalyticsInit /\ [][AnalyticsNext]_analyticsVars

-------------------------------------------------------------------------------
QueuedIds(t) == {tab[t].queue[i].id : i \in 1 .. Len(tab[t].queue)}
SentIds(p) == {p.batch[i].id : i \in 1 .. Len(p.batch)}

AnalyticsTypeOK ==
  /\ today \in Days /\ cleared \in Days
  /\ \A t \in Tabs :
       /\ tab[t].available \in {"unknown", "yes", "no"}
       /\ tab[t].probe \in {"none", "pending", "answered"}
       /\ tab[t].flush \in [Flushes -> {"idle", "probe", "send"}]
       /\ tab[t].hidden \in BOOLEAN /\ tab[t].open \in BOOLEAN
       /\ tab[t].queue \in Seq(Queued) /\ Len(tab[t].queue) <= MaxQueue
  /\ \A p \in wire : /\ p.tab \in Tabs /\ p.phase \in {"sent", "parsed"} /\ p.day \in Days
                     /\ p.flush \in {Unawaited} \cup Flushes
                     /\ p.batch \in Seq(Queued) /\ Len(p.batch) \in 1 .. ClientBatch
  /\ tracked \in 0 .. MaxEvents /\ foreign \in 0 .. MaxForeign
  /\ counted \in [Ids -> Nat] /\ truth \in [Days \X EventNames -> Nat]
  /\ page.filter \in Filters \cup {OpeningFilter} /\ page.loads \in 1 .. MaxLoads
  /\ page.view.kind \in {"loading", "loaded", "error"}

\* However the interval, a hidden page, a late probe and a page that goes away
\* overlap, an event is in one place: it is never sent by two flushes, never
\* sent and kept, and so never counted twice.
NoEventTwice ==
  \A i \in 1 .. tracked :
    Cardinality({t \in Tabs : i \in QueuedIds(t)}) + Cardinality({p \in wire : i \in SentIds(p)})
      + counted[i] <= 1

\* Batches leave oldest first and what the cap drops is the oldest: nothing
\* queued is older than something its tab has sent.
OldestFirst ==
  \A t \in Tabs :
    /\ \A i, j \in 1 .. Len(tab[t].queue) : i < j => tab[t].queue[i].id < tab[t].queue[j].id
    /\ \A p \in wire : p.tab = t => \A i \in SentIds(p), j \in QueuedIds(t) : i < j

\* "ZERO /api/* requests" where the build has no API, and no batch before the
\* one probe has said yes, not even from a page that goes away.
NothingSentWithoutApi ==
  /\ \A p \in wire : tab[p.tab].available = "yes"
  /\ \A t \in Tabs : tab[t].available = "no" /\ tab[t].probe = "none" =>
       tab[t].queue = <<>> /\ \A f \in Flushes : tab[t].flush[f] = "idle"
  /\ \A t \in Tabs : tab[t].available = "unknown" /\ tab[t].queue # <<>> =>
       tab[t].probe = "pending"

\* The queue of a tab, whatever its page, its probe and its flushes do.
QueueIsSound == AnalyticsTypeOK /\ NoEventTwice /\ OldestFirst /\ NothingSentWithoutApi

\* Whatever bodies arrive, and however their batches repeat and interleave,
\* the table has allow-listed rows only, and the total of an event is the
\* number of its accepted events.
TotalsAddUp ==
  /\ DOMAIN table \subseteq Days \X Cells
  /\ \A d \in Days, n \in EventNames : CountOf(table, <<d, <<n, Total>>>>) = truth[<<d, n>>]

\* No dimension exceeds it.
DimensionsStayBelow ==
  \A d \in Days, n \in EventNames : \A k \in PermittedOn[n] :
    SumOver(ValuesOf[k], [v \in ValuesOf[k] |-> CountOf(table, <<d, <<n, <<k, v>>>>>>)])
      <= truth[<<d, n>>]

\* The totals of a report count each accepted event of the served range once,
\* and its dimensions split them.
ReportCountsEvents ==
  page.view.kind = "loaded" =>
    /\ page.view.totals = page.view.truth
    /\ \A n \in EventNames : \A k \in PermittedOn[n] :
         page.view.splits[n][k] <= page.view.totals[n]

\* The counters are right where they are kept and where they are shown.
CountersAddUp == TotalsAddUp /\ DimensionsStayBelow /\ ReportCountsEvents

\* The report that is shown answers the filters that are shown, in whatever
\* order the answers of earlier ones arrive.
ReportAnswersItsFilter ==
  page.view.kind = "loaded" => page.view.asked = page.filter

\* Whatever dates are asked for, missing, unreal, reversed or far away, the
\* range that is served is an interval of bounded width that ends by today
\* and starts no earlier than the lookback allows.
ServedRangeIsLegal ==
  page.view.kind = "loaded" =>
    LET range == page.view.range
    IN /\ range.from <= range.to /\ range.to <= page.view.on
       /\ range.to - range.from < MaxRangeDays
       /\ range.from >= page.view.on - MaxLookback - MaxRangeDays + 1

\* Days that are over are settled: apart from a request that midnight
\* overtook, no batch, however old its events, changes them or brings back
\* rows that retention has deleted.
PastDaysAreSettled ==
  [][\A r \in DOMAIN table \cup DOMAIN table' : r[1] < today - 1 =>
       \/ CountOf(table', r) = CountOf(table, r)
       \/ r[1] < today - Retention /\ r \notin DOMAIN table']_table

\* A report page that is loading waits for the call it will accept, however
\* many calls were replaced: it can never load for ever.
LoadingIsAwaited ==
  page.view.kind = "loading" => [no |-> page.loads, filter |-> page.filter] \in page.calls

\* The report page, whatever is asked of it and in whatever order it is answered.
ReportIsHonest == ReportAnswersItsFilter /\ ServedRangeIsLegal /\ LoadingIsAwaited
===============================================================================
