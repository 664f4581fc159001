---------------------------- MODULE PracticeSession ----------------------------
(***************************************************************************)
(* Practice sessions and timed interviews: src/lib/practiceSession.ts and  *)
(* the page src/pages/PracticePage.tsx.  A tab keeps its session in        *)
(* sessionStorage, all tabs share the history in localStorage.  The page   *)
(* works on its own copy: an event handler uses the copy of the last       *)
(* render, a query that runs uses the copy of the render that started it,  *)
(* and both write the whole session back.  A click renders at once, a      *)
(* timer, a storage event or an answer some time later.  Every session is  *)
(* about the same questions, in their order.                               *)
(***************************************************************************)
EXTENDS Integers, FiniteSets, Sequences

CONSTANTS Tabs,
          MaxQuestions,   \* questions of a session
          MaxSessions,    \* bound: sessions started
          MaxHistory      \* MAX_PRACTICE_HISTORY_ENTRIES

ASSUME SizesAssumption == MaxQuestions \in Nat \ {0} /\ MaxSessions \in Nat /\ MaxHistory \in Nat \ {0}

Questions == 1..MaxQuestions
Ids == 1..MaxSessions

VARIABLES stored,    \* stored[t]: the tab's sessionStorage record
          open,      \* open[t]: the tab is at the practice page
          view,      \* view[t]: the page's session state, as last set
          shown,     \* shown[t]: the session the page rendered last
          known,     \* known[t]: the questions there were when it did
          runs,      \* runs[t]: the query under way
          history,   \* finished sessions, the latest first
          catalog,   \* the questions that exist
          due,       \* sessions whose endsAt has passed
          reported,  \* reported[t]: reportedStartRef
          reports,   \* sessions a practice_started event was sent for
          started    \* sessions started so far

vars == <<stored, open, view, shown, known, runs, history, catalog, due, reported, reports, started>>

-----------------------------------------------------------------------------
Session == [id : 0..MaxSessions, status : {"none", "active", "finished"}, timed : BOOLEAN,
            index : Questions, done : SUBSET Questions]

NoSession == [id |-> 0, status |-> "none", timed |-> FALSE, index |-> 1, done |-> {}]

NoRun == [question |-> 0, from |-> NoSession]

TypeOK ==
  /\ stored \in [Tabs -> Session] /\ view \in [Tabs -> Session] /\ shown \in [Tabs -> Session]
  /\ open \in [Tabs -> BOOLEAN] /\ known \in [Tabs -> SUBSET Questions]
  /\ runs \in [Tabs -> [question : 0..MaxQuestions, from : Session]]
  /\ history \in Seq([id : Ids, done : SUBSET Questions]) /\ Len(history) <= MaxHistory
  /\ catalog \subseteq Questions /\ due \subseteq Ids
  /\ reported \in [Tabs -> 0..MaxSessions] /\ reports \subseteq Ids
  /\ started \in 0..MaxSessions

Init ==
  /\ stored = [t \in Tabs |-> NoSession] /\ view = stored /\ shown = stored
  /\ open = [t \in Tabs |-> FALSE] /\ known = [t \in Tabs |-> Questions]
  /\ runs = [t \in Tabs |-> NoRun]
  /\ history = <<>> /\ catalog = Questions /\ due = {}
  /\ reported = [t \in Tabs |-> 0] /\ reports = {}
  /\ started = 0

-----------------------------------------------------------------------------
\* validQuestionIds and safeIndex: the index counts the questions that exist
\* now, although it was set among those the session was started with.
Position(s, valid) == IF s.index > Cardinality(valid) THEN Cardinality(valid) ELSE s.index

Current(s, valid) ==
  IF s.status # "active" \/ valid = {} THEN 0
  ELSE CHOOSE q \in valid : Cardinality({p \in valid : p <= q}) = Position(s, valid)

Place(t) == Position(shown[t], known[t])
Asked(t) == Current(shown[t], known[t])

\* The page renders session s.  A query goes on only on its own question, and a
\* start is reported once for as long as the page stays open.
Render(t, s) ==
  LET news == s.status = "active" /\ 1 \in catalog /\ reported[t] # s.id
  IN /\ view' = [view EXCEPT ![t] = s] /\ shown' = [shown EXCEPT ![t] = s]
     /\ known' = [known EXCEPT ![t] = catalog]
     /\ runs' = [runs EXCEPT ![t] = IF @.question = Current(s, catalog) THEN @ ELSE NoRun]
     /\ IF news THEN /\ reported' = [reported EXCEPT ![t] = s.id]
                     /\ reports' = reports \cup {s.id}
                ELSE UNCHANGED <<reported, reports>>

\* A handler of a click writes session s and renders it at once.
Write(t, s) == stored' = [stored EXCEPT ![t] = s] /\ Render(t, s)

\* recordFinishedSession: the first record of a session stays.
RecordAgain(s) ==
  history' = <<[id |-> s.id, done |-> s.done]>>
             \o (IF Len(history) < MaxHistory THEN history ELSE SubSeq(history, 1, MaxHistory - 1))
Record(s) ==
  IF \E k \in DOMAIN history : history[k].id = s.id THEN UNCHANGED history
  ELSE history' = <<[id |-> s.id, done |-> s.done]>>
                  \o (IF Len(history) < MaxHistory THEN history ELSE SubSeq(history, 1, MaxHistory - 1))

-----------------------------------------------------------------------------
\* A session is launched from another page, and replaces the tab's.
Launch(t) ==
  /\ ~open[t] /\ started < MaxSessions
  /\ started' = started + 1
  /\ open' = [open EXCEPT ![t] = TRUE]
  /\ \E timed \in BOOLEAN : Write(t, [NoSession EXCEPT !.id = started', !.status = "active",
                                                       !.timed = timed])
  /\ UNCHANGED <<history, catalog, due>>

\* The page is opened, or reloaded: it reads the tab's session.
Open(t) ==
  /\ ~open[t]
  /\ open' = [open EXCEPT ![t] = TRUE]
  /\ Render(t, stored[t])
  /\ UNCHANGED <<stored, history, catalog, due, started>>

\* A page that is left runs no query and forgets what it reported.
ForgetKeepingRun(t) ==
  /\ open' = [open EXCEPT ![t] = FALSE]
  /\ view' = [view EXCEPT ![t] = NoSession] /\ shown' = [shown EXCEPT ![t] = NoSession]
  /\ known' = [known EXCEPT ![t] = Questions] /\ UNCHANGED runs
  /\ reported' = [reported EXCEPT ![t] = 0]
Forget(t) ==
  /\ open' = [open EXCEPT ![t] = FALSE]
  /\ view' = [view EXCEPT ![t] = NoSession] /\ shown' = [shown EXCEPT ![t] = NoSession]
  /\ known' = [known EXCEPT ![t] = Questions] /\ runs' = [runs EXCEPT ![t] = NoRun]
  /\ reported' = [reported EXCEPT ![t] = 0]

Leave(t) ==
  /\ open[t] /\ Forget(t)
  /\ UNCHANGED <<stored, history, catalog, due, reports, started>>

\* "Practice again" on a finished session's summary.
PracticeAgain(t) ==
  /\ open[t] /\ shown[t].status = "finished"
  /\ stored' = [stored EXCEPT ![t] = NoSession]
  /\ Forget(t)
  /\ UNCHANGED <<history, catalog, due, reports, started>>

\* handlePrevious and handleNext.
Step(t) ==
  /\ open[t] /\ Asked(t) # 0
  /\ \E i \in ({Place(t) - 1, Place(t) + 1} \ {0}) \cap 1..Cardinality(known[t]) :
       Write(t, [shown[t] EXCEPT !.index = i])
  /\ UNCHANGED <<open, history, catalog, due, started>>

Finished(s) == [s EXCEPT !.status = "finished"]

\* handleFinish, on the last question.
Finish(t) ==
  /\ open[t] /\ Asked(t) # 0 /\ Place(t) = Cardinality(known[t])
  /\ Write(t, Finished(shown[t])) /\ Record(shown[t])
  /\ UNCHANGED <<open, catalog, due, started>>

\* The interval of a timed interview reads the stored session.
TickUnwritten(t) ==
  LET latest == stored[t]
  IN /\ open[t] /\ shown[t].timed /\ shown[t].status = "active"
     /\ latest.id = shown[t].id /\ latest.status = "active" /\ latest.id \in due
     /\ Record(latest)
     /\ view' = [view EXCEPT ![t] = Finished(latest)]
     /\ UNCHANGED <<stored, open, shown, known, runs, catalog, due, reported, reports, started>>
Tick(t) ==
  LET latest == stored[t]
  IN /\ open[t] /\ shown[t].timed /\ shown[t].status = "active"
     /\ latest.id = shown[t].id /\ latest.status = "active" /\ latest.id \in due
     /\ stored' = [stored EXCEPT ![t] = Finished(latest)] /\ Record(latest)
     /\ view' = [view EXCEPT ![t] = Finished(latest)]
     /\ UNCHANGED <<open, shown, known, runs, catalog, due, reported, reports, started>>

\* A learner runs the query of the question shown.
Run(t) ==
  /\ open[t] /\ Asked(t) # 0 /\ runs[t] = NoRun
  /\ runs' = [runs EXCEPT ![t] = [question |-> Asked(t), from |-> shown[t]]]
  /\ UNCHANGED <<stored, open, view, shown, known, history, catalog, due, reported, reports, started>>

\* The query ends; a right answer calls the handleSolved of its own render.
RunEnds(t) ==
  LET run == runs[t]
      solved == [run.from EXCEPT !.done = @ \cup {run.question}]
  IN /\ run # NoRun
     /\ \/ UNCHANGED <<stored, view>>
        \/ /\ stored' = [stored EXCEPT ![t] = IF run.question \in run.from.done THEN @ ELSE solved]
           /\ view' = [view EXCEPT ![t] = IF open[t] THEN solved ELSE @]
     /\ runs' = [runs EXCEPT ![t] = NoRun]
     /\ UNCHANGED <<open, shown, known, history, catalog, due, reported, reports, started>>

\* React renders what was set, or what the catalog has become.
Settled(t) == shown[t] = view[t] /\ known[t] = catalog

Rerender(t) ==
  /\ open[t] /\ ~Settled(t)
  /\ Render(t, view[t])
  /\ UNCHANGED <<stored, open, history, catalog, due, started>>

\* An administrator's tab changes the questions; time passes; the history is cleared.
ChangeCatalog ==
  /\ catalog' \in (SUBSET Questions) \ {catalog}
  /\ UNCHANGED <<stored, open, view, shown, known, runs, history, due, reported, reports, started>>

PassEnd ==
  /\ \E t \in Tabs : /\ stored[t].timed /\ stored[t].id \notin due
                     /\ due' = due \cup {stored[t].id}
  /\ UNCHANGED <<stored, open, view, shown, known, runs, history, catalog, reported, reports, started>>

ClearHistory ==
  /\ history # <<>> /\ history' = <<>>
  /\ UNCHANGED <<stored, open, view, shown, known, runs, catalog, due, reported, reports, started>>

Next == \/ \E t \in Tabs : \/ Launch(t) \/ Open(t) \/ Leave(t) \/ PracticeAgain(t) \/ Step(t)
                           \/ Finish(t) \/ Tick(t) \/ Run(t) \/ RunEnds(t) \/ Rerender(t)
        \/ ChangeCatalog \/ PassEnd \/ ClearHistory

Spec == Init /\ [][Next]_vars

\* An open page renders what was set, and its interval ticks.
FairSpec == Spec /\ \A t \in Tabs : WF_vars(Rerender(t)) /\ WF_vars(Tick(t))

-----------------------------------------------------------------------------
\* Properties.

\* A session has one record however often it is finished: the first one.
RecordedOnce ==
  \A j, k \in DOMAIN history : history[j].id = history[k].id => j = k

\* A page that has rendered its session loses no completed question of it:
\* neither by a click nor by a query that has been running meanwhile.  (Before
\* it has rendered, a click writes the older copy back.)
SettledPageKeepsCompletions ==
  [][\A t \in Tabs : /\ open[t] /\ Settled(t) /\ shown[t] = stored[t]
                     /\ stored'[t].id = stored[t].id
                     => stored[t].done \subseteq stored'[t].done]_vars

\* A session a tab has left for another does not come back by a late answer:
\* a tab's session changes to none or to a new one.
OldSessionNeverReturns ==
  [][\A t \in Tabs : stored'[t].id # stored[t].id =>
        stored'[t].id \in {0, started + 1}]_vars

\* A tab's session moves forward only, whatever answers late.
TabsMoveForward == SettledPageKeepsCompletions /\ OldSessionNeverReturns

\* The timer ends an interview whose time is over in every open page, whatever
\* stale copies are written back.
ExpiredInterviewEnds ==
  \A t \in Tabs : open[t] /\ stored[t].status = "active" /\ stored[t].timed /\ stored[t].id \in due
                  ~> ~open[t] \/ stored[t].status # "active"
===============================================================================
