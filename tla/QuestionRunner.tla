---------------------------- MODULE QuestionRunner ----------------------------
(***************************************************************************)
(* The question page as a runner of SQL (src/pages/QuestionPage.tsx): the    *)
(* in-memory database it builds for a question, the query under way and the  *)
(* guards against its late answer, the verdict it shows, and what it stores  *)
(* (src/lib/progress.ts, src/lib/attempts.ts) beside another tab that        *)
(* writes to the same storage.                                               *)
(***************************************************************************)
EXTENDS Integers, Sequences, FiniteSets

CONSTANTS Questions,    \* questions the learner can open
          Stored,       \* what the stored catalogue may hold, other questions included
          Judged,       \* those with an expected result
          MaxAttempts,  \* MAX_ATTEMPTS_PER_QUESTION
          Nowhere,      \* the learner is on another page
          Dbs,          \* bound: databases at the same time (1 .. n)
          MaxRuns,      \* bound: queries that are started
          MaxOthers     \* bound: writes of the other tab

ASSUME RunnerAssumption ==
  /\ Judged \subseteq Questions /\ Nowhere \notin Questions
  /\ MaxAttempts \in Nat \ {0} /\ {MaxRuns, MaxOthers} \subseteq Nat

VARIABLES storage,  \* localStorage: solved, attempts, the stored catalogue
          cached,   \* the catalogue of the tab's last read
          tab,      \* the page
          dbs,      \* the databases that were created; a slot is used again
          queries,  \* queries that have not returned
          told,     \* a storage event waits for the tab
          others,   \* writes of the other tab so far
          log       \* history: verdicts recorded per question since it was cleared

vars == <<storage, cached, tab, dbs, queries, told, others, log>>

Codes == {"wrong", "right", "fails", "alters"}
Results == {"correct", "incorrect", "error"}
NoDb == 0
ASSUME DbsAssumption == NoDb \notin Dbs
NoVerdict == [run |-> 0, of |-> Nowhere, result |-> "none"]
NoDatabase == [of |-> Nowhere, phase |-> "closed", cancelled |-> TRUE, altered |-> FALSE]

\* What a database answers: a right query is right on unaltered data only.
Result(code, altered, q) ==
  IF code = "fails" THEN "error"
  ELSE IF code = "right" /\ ~altered /\ q \in Judged THEN "correct"
  ELSE "incorrect"

Init ==
  /\ \E c \in SUBSET Stored :
       storage = [solved |-> {}, attempts |-> [q \in Questions |-> <<>>], custom |-> c]
  /\ cached = storage.custom
  /\ tab = [at |-> Nowhere, preview |-> FALSE, status |-> "idle", db |-> NoDb, run |-> 0,
            verdict |-> NoVerdict, attempts |-> <<>>]
  /\ dbs = [d \in Dbs |-> NoDatabase]
  /\ queries = {}
  /\ told = FALSE
  /\ others = 0
  /\ log = [q \in Questions |-> <<>>]

-------------------------------------------------------------------------------
\* The page and its database.

\* Built-in questions always resolve, stored ones while they are stored.
Resolves(q, catalogue) == q \in (Questions \ Stored) \cup catalogue

\* The cleanup of the database effect: the current database is closed, one
\* that is still being created will be.
Released(t) ==
  [d \in Dbs |-> IF d = t.db THEN NoDatabase ELSE IF dbs[d].phase = "creating" THEN [NoDatabase EXCEPT !.phase = "creating"]
                ELSE dbs[d]]
NewDb(q) == [of |-> q, phase |-> "creating", cancelled |-> FALSE, altered |-> FALSE]

\* execRef: the queries under way are no longer of this visit.
Disowned(qs) == {[query EXCEPT !.exec = FALSE] : query \in qs}

\* initializeDatabase: forgets the result and builds a database, if the
\* question is there.
WithNewDb(t, q, there) ==
  IF there
  THEN \E d \in Dbs : /\ d # t.db /\ dbs[d].phase = "closed" /\ \A query \in queries : query.db # d
                      /\ dbs' = [Released(t) EXCEPT ![d] = NewDb(q)]
  ELSE dbs' = Released(t)
RestartKeepsStatus(t, q, there) ==   \* mutant: the status of the lost query stays
  /\ tab' = [t EXCEPT !.db = NoDb, !.verdict = NoVerdict]
  /\ WithNewDb(t, q, there)
Restart(t, q, there) ==
  /\ tab' = [t EXCEPT !.db = NoDb, !.status = "idle", !.verdict = NoVerdict]
  /\ WithNewDb(t, q, there)

\* What is read when a question is opened: its history.
Opened(q, there) ==
  [tab EXCEPT !.at = q,
              !.attempts = IF there /\ ~tab.preview THEN storage.attempts[q] ELSE <<>>]

\* readAdminQuestions serves the same objects while the stored text is the
\* same, so a stored question has a new database object only if it changed.
IsRebuiltAlways(q) == q \in Stored   \* mutant: every read parses anew
IsRebuilt(q) == q \in Stored /\ storage.custom # cached

\* A sync of the page that is in state t with some queries under way: the
\* catalogue is read again, and the effects of the page follow.
Synced(t, owed) ==
  /\ cached' = storage.custom
  /\ LET was == Resolves(t.at, cached)
         there == Resolves(t.at, storage.custom)
         resets == t.at # Nowhere /\ ~t.preview /\ was # there
         rebuilds == t.at # Nowhere /\ ~t.preview /\ was /\ there /\ IsRebuilt(t.at)
     IN /\ queries' = IF resets THEN Disowned(owed) ELSE owed
        /\ \/ /\ resets
              /\ Restart([t EXCEPT !.attempts = IF there THEN storage.attempts[t.at] ELSE <<>>],
                         t.at, there)
           \/ rebuilds /\ Restart(t, t.at, TRUE)
           \/ ~resets /\ ~rebuilds /\ tab' = t /\ dbs' = dbs

Open(q) ==
  /\ q # tab.at /\ ~tab.preview
  /\ cached' = storage.custom
  /\ LET there == Resolves(q, storage.custom) IN Restart(Opened(q, there), q, there)
  /\ queries' = Disowned(queries)
  /\ UNCHANGED <<storage, told, others, log>>

\* The preview of the administrator's builder is the same page.
Preview(q) ==
  /\ tab.at = Nowhere
  /\ Restart([Opened(q, FALSE) EXCEPT !.preview = TRUE], q, TRUE)
  /\ queries' = Disowned(queries)
  /\ UNCHANGED <<storage, cached, told, others, log>>

Leave ==
  /\ tab.at # Nowhere
  /\ Restart([tab EXCEPT !.at = Nowhere, !.preview = FALSE, !.attempts = <<>>], Nowhere, FALSE)
  /\ queries' = Disowned(queries)
  /\ UNCHANGED <<storage, cached, told, others, log>>

\* createQuestionDatabase settles; a page that moved on closes the database.
Created(d) ==
  /\ dbs[d].phase = "creating"
  /\ dbs' = [dbs EXCEPT ![d] = IF dbs[d].cancelled THEN NoDatabase ELSE [@ EXCEPT !.phase = "open"]]
  /\ tab' = IF dbs[d].cancelled THEN tab ELSE [tab EXCEPT !.db = d]
  /\ UNCHANGED <<storage, cached, queries, told, others, log>>

CreateFails(d) ==
  /\ dbs[d].phase = "creating"
  /\ dbs' = [dbs EXCEPT ![d] = NoDatabase]
  /\ tab' = IF dbs[d].cancelled THEN tab ELSE [tab EXCEPT !.status = "error"]
  /\ UNCHANGED <<storage, cached, queries, told, others, log>>

-------------------------------------------------------------------------------
\* Queries.

\* runQuery up to its await, with whatever the editor holds.
Run(code) ==
  /\ tab.db # NoDb /\ tab.status # "running"
  /\ tab.run < MaxRuns
  /\ tab' = [tab EXCEPT !.status = "running", !.verdict = NoVerdict, !.run = @ + 1]
  /\ queries' = queries \cup {[run |-> tab.run + 1, exec |-> TRUE, db |-> tab.db,
                               of |-> tab.at, code |-> code]}
  /\ UNCHANGED <<storage, cached, dbs, told, others, log>>

\* The guard after the await.
IsCurrentByExec(query) == query.exec   \* mutant: the database is not compared
IsCurrent(query) == query.exec /\ tab.db = query.db

\* recordAttempt keeps the latest.
TrimmedOldest(s) == SubSeq(s, 1, IF Len(s) < MaxAttempts THEN Len(s) ELSE MaxAttempts)   \* mutant
Trimmed(s) == SubSeq(s, IF Len(s) > MaxAttempts THEN Len(s) - MaxAttempts + 1 ELSE 1, Len(s))

\* What an accepted answer stores.
Recorded(query, result) ==
  IF tab.preview THEN storage
  ELSE [storage EXCEPT !.solved = IF result = "correct" THEN @ \cup {query.of} ELSE @,
                       !.attempts[query.of] = Trimmed(Append(@, result))]

\* runQuery after its await.  Solving dispatches an event that this page
\* hears too, so it syncs before anything else happens.
Return(query) ==
  LET result == Result(query.code, dbs[query.db].altered, query.of)
      shown == [tab EXCEPT !.status = IF result = "error" THEN "error" ELSE "success",
                           !.verdict = [run |-> query.run, of |-> query.of, result |-> result],
                           !.attempts = Recorded(query, result).attempts[query.of]]
      touched == [dbs EXCEPT ![query.db].altered = @ \/ query.code = "alters"]
  IN \/ /\ ~IsCurrent(query)
        /\ queries' = queries \ {query}
        /\ UNCHANGED <<storage, cached, tab, dbs, told, others, log>>
     \/ /\ IsCurrent(query)
        /\ storage' = Recorded(query, result)
        /\ log' = IF tab.preview THEN log ELSE [log EXCEPT ![query.of] = Append(@, result)]
        /\ IF result = "correct" /\ ~tab.preview
           THEN Synced(shown, queries \ {query})
           ELSE /\ tab' = [shown EXCEPT !.attempts = IF tab.preview THEN tab.attempts ELSE @]
                /\ dbs' = touched
                /\ queries' = queries \ {query}
                /\ UNCHANGED cached
        /\ UNCHANGED <<told, others>>

\* The button is disabled while a query runs.
Reset ==
  /\ tab.at # Nowhere /\ tab.status # "running"
  /\ tab' = [tab EXCEPT !.status = "idle", !.verdict = NoVerdict]
  /\ UNCHANGED <<storage, cached, dbs, queries, told, others, log>>

ClearHistory ==
  /\ tab.at # Nowhere /\ ~tab.preview /\ Resolves(tab.at, cached)
  /\ storage' = [storage EXCEPT !.attempts[tab.at] = <<>>]
  /\ log' = [log EXCEPT ![tab.at] = <<>>]
  /\ tab' = [tab EXCEPT !.attempts = <<>>]
  /\ UNCHANGED <<cached, dbs, queries, told, others>>

-------------------------------------------------------------------------------
\* The other tab solves, records or changes the stored catalogue; the event of
\* its write arrives later, and events that follow each other count as one.

Others(next) ==
  /\ others < MaxOthers
  /\ others' = others + 1
  /\ storage' = next
  /\ told' = TRUE
  /\ UNCHANGED <<cached, tab, dbs, queries>>

OtherSolves(q) ==
  /\ Others([storage EXCEPT !.solved = @ \cup {q},
                            !.attempts[q] = Trimmed(Append(@, "correct"))])
  /\ log' = [log EXCEPT ![q] = Append(@, "correct")]

OtherEdits(catalogue) ==
  /\ catalogue # storage.custom
  /\ Others([storage EXCEPT !.custom = catalogue])
  /\ UNCHANGED log

Told ==
  /\ told
  /\ told' = FALSE
  /\ Synced(tab, queries)
  /\ UNCHANGED <<storage, others, log>>
-------------------------------------------------------------------------------
Settle ==
  \/ \E d \in Dbs : Created(d) \/ CreateFails(d)
  \/ \E query \in queries : Return(query)

Next ==
  \/ \E q \in Questions : Open(q) \/ Preview(q) \/ OtherSolves(q)
  \/ Leave
  \/ Settle
  \/ \E c \in Codes : Run(c)
  \/ Reset \/ ClearHistory
  \/ \E c \in SUBSET Stored : OtherEdits(c)
  \/ Told

\* The database answers; nothing is assumed of people.
Spec == Init /\ [][Next]_vars /\ WF_vars(Settle)
-------------------------------------------------------------------------------
TypeOK ==
  /\ storage.solved \subseteq Questions /\ storage.custom \subseteq Stored
  /\ \A q \in Questions : /\ storage.attempts[q] \in Seq(Results)
                          /\ Len(storage.attempts[q]) <= MaxAttempts
  /\ cached \subseteq Stored
  /\ tab.at \in Questions \cup {Nowhere} /\ tab.preview \in BOOLEAN
  /\ tab.status \in {"idle", "running", "success", "error"}
  /\ tab.db \in {NoDb} \cup Dbs
  /\ \A d \in Dbs : dbs[d].phase \in {"creating", "open", "closed"}
  /\ \A query \in queries : query.db \in Dbs /\ query.exec \in BOOLEAN

\* The page says "running" exactly while one query is under way whose answer
\* it will accept: no navigation, sync or reset leaves it running for an
\* answer it drops, or accepts the answer of a query it no longer runs.
RunningIsAwaited ==
  Cardinality({query \in queries : IsCurrent(query)}) = IF tab.status = "running" THEN 1 ELSE 0

\* A verdict on the page is that of the last query that was started, and of
\* the question that is shown, whatever returned or was replaced meanwhile.
VerdictIsOfLastRun ==
  tab.verdict # NoVerdict => tab.verdict.run = tab.run /\ tab.verdict.of = tab.at

\* Every database is released: the only open one is the page's, and a page
\* that moved on while one was built does not keep it.
DatabasesAreReleased ==
  \A d \in Dbs :
    /\ dbs[d].phase = "open" => d = tab.db
    /\ dbs[d].phase = "creating" /\ ~dbs[d].cancelled => tab.at # Nowhere /\ dbs[d].of = tab.at

\* A query of the page runs on the database of the question it shows.
DatabaseIsOfQuestion ==
  tab.db # NoDb => dbs[tab.db].of = tab.at /\ dbs[tab.db].phase = "open"

\* However the tabs interleave, the stored attempts of a question are its
\* latest verdicts, oldest first, and none is missing below the cap.
HistoryIsTheLatest ==
  \A q \in Questions :
    LET kept == Len(storage.attempts[q])
        dropped == Len(log[q]) - kept
    IN /\ kept < MaxAttempts => dropped = 0
       /\ \A i \in 1..kept : storage.attempts[q][i] = log[q][dropped + i]

\* The history the page shows is of the question it shows, and its last entry
\* is the verdict it shows: a preview adds to neither.
VerdictIsRecorded ==
  tab.verdict # NoVerdict =>
    IF tab.preview THEN tab.attempts = <<>>
    ELSE tab.attempts # <<>> => tab.attempts[Len(tab.attempts)] = tab.verdict.result

\* A sync wipes a verdict only if the stored catalogue has changed since the
\* tab read it: progress, bookmarks and attempts of any tab never do.
SyncsKeepTheVerdict ==
  [][Told /\ storage.custom = cached => tab' = tab /\ dbs' = dbs]_vars

\* What a preview runs leaves no trace in storage.
PreviewLeavesNoTrace ==
  [][tab.preview /\ others' = others => storage' = storage]_vars

\* A running query ends.
RunsSettle == tab.status = "running" ~> tab.status # "running"

\* The page, its query and its database belong together at every moment.
RunnerIsConsistent ==
  TypeOK /\ RunningIsAwaited /\ VerdictIsOfLastRun /\ DatabasesAreReleased /\ DatabaseIsOfQuestion

\* Verdicts, the history the page shows and the history that is stored agree.
HistoryIsFaithful == HistoryIsTheLatest /\ VerdictIsRecorded

\* What is not meant for the page, or not meant to stay, changes nothing.
SideEffectsAreContained == SyncsKeepTheVerdict /\ PreviewLeavesNoTrace
===============================================================================
