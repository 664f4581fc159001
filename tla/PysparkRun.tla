------------------------------ MODULE PysparkRun ------------------------------
(***************************************************************************)
(* Running PySpark code on the question page: runPySpark and resetQuery of *)
(* src/pages/QuestionPage.tsx with the client of src/lib/pysparkClient.ts  *)
(* and its Web Worker (public/worker/pyspark-test-worker.js).  The page    *)
(* keeps one client per opened question; the client starts a worker, posts *)
(* it the runs and settles them by their id.  A worker may die silently    *)
(* and Spark may stall.  The first run of a question waits for the boot    *)
(* outside the client's timed run(); the later ones are timed as a whole.  *)
(***************************************************************************)
EXTENDS Naturals

CONSTANTS MaxRuns,       \* bound: times the learner presses "Run"
          MaxVisits      \* bound: questions the learner opens

ASSUME BoundsAssumption == MaxRuns \in Nat \ {0} /\ MaxVisits \in Nat \ {0}

Runs == 1..MaxRuns
Visits == 1..MaxVisits

VARIABLES supported,   \* the browser is cross-origin isolated
          visit,       \* which question is open
          client,      \* client[v]: the PysparkClient of that question's page
          run,         \* run[r]: the r-th press of "Run"
          status,      \* pysparkStatus
          shown        \* the run whose outcome the page shows, 0 if none

vars == <<supported, visit, client, run, status, shown>>

-----------------------------------------------------------------------------
NoClient == [made |-> FALSE, worker |-> "none", ready |-> "none", gen |-> 0, disposed |-> FALSE]

NoRun == [at |-> "unused", visit |-> 1, gen |-> 0, outcome |-> "none"]

TypeOK ==
  /\ supported \in BOOLEAN /\ visit \in Visits
  /\ client \in [Visits -> [made : BOOLEAN,
                            worker : {"none", "booting", "up", "broken", "silent"},
                            ready : {"none", "pending", "ok", "failed"},
                            gen : 0..(MaxRuns + 1), disposed : BOOLEAN]]
  /\ run \in [Runs -> [at : {"unused", "pageBoot", "boot", "sent", "done"}, visit : Visits,
                       gen : 0..(MaxRuns + 1), outcome : {"none", "ok", "error", "dropped"}]]
  /\ status \in {"idle", "booting", "running"}
  /\ shown \in 0..MaxRuns

Init ==
  /\ supported \in BOOLEAN /\ visit = 1
  /\ client = [v \in Visits |-> NoClient]
  /\ run = [r \in Runs |-> NoRun]
  /\ status = "idle" /\ shown = 0

-----------------------------------------------------------------------------
\* Runs that wait for the client's present worker to boot, and those it was sent.
\* A boot promise of an earlier generation never settles.
Awaiting(v) == {r \in Runs : /\ run[r].at \in {"pageBoot", "boot"}
                             /\ run[r].visit = v /\ run[r].gen = client[v].gen}
Pending(v) == {r \in Runs : run[r].at = "sent" /\ run[r].visit = v}

\* boot(): the promise of the last boot, settled or not, or a new worker.
Booted(c) ==
  CASE c.ready # "none" -> c
    [] c.ready = "none" /\ supported -> [c EXCEPT !.worker = "booting", !.ready = "pending"]
    [] OTHER -> [c EXCEPT !.ready = "failed"]

\* failPendingAndTeardown(): the pending runs fail, the worker is terminated.
Teardown(c) == [c EXCEPT !.worker = "none", !.ready = "none", !.gen = @ + 1]

\* The runs of S end.  Their results are dropped unless the client is still
\* the page's; otherwise they are shown one after another.
Latest(S) == CHOOSE r \in S : \A s \in S : s =< r

EndAnywhere(S, v, outcome) ==
  /\ run' = [r \in Runs |-> IF r \in S THEN [run[r] EXCEPT !.at = "done", !.outcome = outcome]
                            ELSE run[r]]
  /\ IF S = {} THEN UNCHANGED <<status, shown>>
     ELSE status' = "idle" /\ shown' = Latest(S)
End(S, v, outcome) ==
  LET stale == v # visit
  IN /\ run' = [r \in Runs |->
                 IF r \in S THEN [run[r] EXCEPT !.at = "done",
                                                !.outcome = IF stale THEN "dropped" ELSE outcome]
                 ELSE run[r]]
     /\ IF S = {} \/ stale THEN UNCHANGED <<status, shown>>
        ELSE status' = "idle" /\ shown' = Latest(S)

-----------------------------------------------------------------------------
\* "Run": without a client the page makes one and waits for its boot; with one
\* it calls runValidation at once, which boots if need be.
Press(r) ==
  LET c == Booted(client[visit])
      at == IF ~client[visit].made THEN "pageBoot"
            ELSE IF c.ready = "ok" THEN "sent" ELSE "boot"
      started == [NoRun EXCEPT !.visit = visit, !.gen = c.gen]
  IN /\ status = "idle"
     /\ run[r].at = "unused" /\ \A s \in Runs : s < r => run[s].at # "unused"
     /\ client' = [client EXCEPT ![visit] = [c EXCEPT !.made = TRUE]]
     /\ IF c.ready = "failed"
        THEN /\ run' = [run EXCEPT ![r] = [started EXCEPT !.at = "done", !.outcome = "error"]]
             /\ status' = "idle" /\ shown' = r
        ELSE /\ run' = [run EXCEPT ![r] = [started EXCEPT !.at = at]]
             /\ status' = IF at = "pageBoot" THEN "booting" ELSE "running"
             /\ shown' = 0
     /\ UNCHANGED <<supported, visit>>

\* "Reset": the page forgets what it shows, and that something is running.
Reset ==
  /\ status' = "idle" /\ shown' = 0
  /\ UNCHANGED <<supported, visit, client, run>>

\* Another question: the client is disposed of and its results are not wanted.
Navigate ==
  /\ visit < MaxVisits
  /\ visit' = visit + 1
  /\ client' = [client EXCEPT ![visit] =
                  IF client[visit].made THEN [Teardown(@) EXCEPT !.disposed = TRUE] ELSE @]
  /\ run' = [r \in Runs |-> IF r \in Pending(visit)
                            THEN [run[r] EXCEPT !.at = "done", !.outcome = "dropped"] ELSE run[r]]
  /\ status' = "idle" /\ shown' = 0
  /\ UNCHANGED supported

\* pcw_status: the worker tells how its boot goes.
StageMessage(v) ==
  /\ client[v].worker = "booting"
  /\ status' = "booting"
  /\ UNCHANGED <<supported, visit, client, run, shown>>

\* pcw_ready: whoever waits goes on, and its code is posted to the worker.
WorkerReady(v) ==
  /\ client[v].worker = "booting"
  /\ client' = [client EXCEPT ![v].worker = "up", ![v].ready = "ok"]
  /\ run' = [r \in Runs |-> IF r \in Awaiting(v) THEN [run[r] EXCEPT !.at = "sent"] ELSE run[r]]
  /\ status' = IF \E r \in Awaiting(v) : run[r].at = "pageBoot" THEN "running" ELSE status
  /\ UNCHANGED <<supported, visit, shown>>

\* pcw_error, or the worker's error event: the boot promise stays rejected.
BootFails(v) ==
  /\ client[v].worker = "booting"
  /\ client' = [client EXCEPT ![v].worker = "broken", ![v].ready = "failed"]
  /\ End(Awaiting(v), v, "error")
  /\ UNCHANGED <<supported, visit>>

\* pcw_result or pcw_run_error.
WorkerAnswers(v) ==
  /\ client[v].worker = "up"
  /\ \E r \in Pending(v), outcome \in {"ok", "error"} : End({r}, v, outcome)
  /\ UNCHANGED <<supported, visit, client>>

\* The worker stops without a word, or waits for Spark for ever.
WorkerStalls(v) ==
  /\ client[v].worker \in {"booting", "up"}
  /\ client' = [client EXCEPT ![v].worker = "silent"]
  /\ UNCHANGED <<supported, visit, run, status, shown>>

\* The timer of run() fires: it fails its own run and every pending one.
TimeoutLeavingPending(r) ==
  LET v == run[r].visit
  IN /\ run[r].at \in {"boot", "sent"}
     /\ client' = [client EXCEPT ![v] = Teardown(@)]
     /\ End({r}, v, "error")
     /\ UNCHANGED <<supported, visit>>
TimeoutOnceSent(r) ==
  LET v == run[r].visit
  IN /\ run[r].at = "sent"
     /\ client' = [client EXCEPT ![v] = Teardown(@)]
     /\ End({r} \cup Pending(v), v, "error")
     /\ UNCHANGED <<supported, visit>>
Timeout(r) ==
  LET v == run[r].visit
  IN /\ run[r].at \in {"boot", "sent"}
     /\ client' = [client EXCEPT ![v] = Teardown(@)]
     /\ End({r} \cup Pending(v), v, "error")
     /\ UNCHANGED <<supported, visit>>

Next == \/ \E r \in Runs : Press(r) \/ Timeout(r)
        \/ \E v \in Visits : StageMessage(v) \/ WorkerReady(v) \/ BootFails(v)
                             \/ WorkerAnswers(v) \/ WorkerStalls(v)
        \/ Reset \/ Navigate

Spec == Init /\ [][Next]_vars

\* Timers fire.  Nothing is assumed of the worker.
FairSpec == Spec /\ \A r \in Runs : WF_vars(Timeout(r))

-----------------------------------------------------------------------------
\* Properties.

\* What the page shows belongs to the question that is open: an answer, a
\* timeout or a failed boot of an abandoned client is dropped.
ResultsStayOnTheirQuestion ==
  shown # 0 => run[shown].visit = visit /\ run[shown].outcome \in {"ok", "error"}

\* No run waits for an answer that cannot come: its worker is the client's
\* present one, whatever was torn down in between.
PendingIsServed ==
  \A v \in Visits : \A r \in Pending(v) :
     /\ client[v].worker \in {"up", "silent"} /\ client[v].ready = "ok"
     /\ run[r].gen = client[v].gen /\ ~client[v].disposed

\* The "Run" button is not locked for nothing: a page that says it boots or
\* runs has a run of the open question whose end will unlock it.
BusyPageHasRun ==
  status # "idle" => Awaiting(visit) \cup Pending(visit) # {}

\* Neither a run nor the button of the page waits for what cannot come.
NobodyWaitsInVain == TypeOK /\ PendingIsServed /\ BusyPageHasRun

\* A run that went through run() comes to an end although the worker may die
\* silently at any time, during its boot too.
TimedRunsSettle == \A r \in Runs : run[r].at \in {"boot", "sent"} ~> run[r].at = "done"
===============================================================================
