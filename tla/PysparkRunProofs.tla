--------------------------- MODULE PysparkRunProofs ---------------------------
(***************************************************************************)
(* Proofs about PysparkRun, for any number of runs and questions: no run   *)
(* waits for a worker that is gone, no page says for nothing that it is    *)
(* busy, and nothing is shown on a question it does not belong to.         *)
(***************************************************************************)
EXTENDS PysparkRun, FiniteSetTheorems, WellFoundedInduction, TLAPS

ClientType == [made : BOOLEAN, worker : {"none", "booting", "up", "broken", "silent"},
               ready : {"none", "pending", "ok", "failed"}, gen : Nat, disposed : BOOLEAN]

RunType == [at : {"unused", "pageBoot", "boot", "sent", "done"}, visit : Visits,
            gen : Nat, outcome : {"none", "ok", "error", "dropped"}]

\* TypeOK without the bound on the generations, which only the runs' number gives.
Typing ==
  /\ supported \in BOOLEAN /\ visit \in Visits
  /\ client \in [Visits -> ClientType]
  /\ run \in [Runs -> RunType]
  /\ status \in {"idle", "booting", "running"}
  /\ shown \in 0..MaxRuns

\* A worker and the boot promise that tells of it.
WorkerMatchesPromise ==
  \A v \in Visits :
    /\ client[v].worker = "booting" => client[v].ready = "pending"
    /\ client[v].ready = "ok" => client[v].worker \in {"up", "silent"}

\* Clients are disposed of when their question is left, for good.
DisposedClientsAreIdle ==
  \A v \in Visits : client[v].disposed =>
    v < visit /\ client[v].worker = "none" /\ client[v].ready = "none"

\* Only a run that ended has an outcome.
OutcomesAreFinal == \A r \in Runs : run[r].outcome # "none" => run[r].at = "done"

PSInv ==
  /\ Typing
  /\ WorkerMatchesPromise
  /\ DisposedClientsAreIdle
  /\ OutcomesAreFinal
  /\ PendingIsServed
  /\ ResultsStayOnTheirQuestion

-----------------------------------------------------------------------------
\* Several runs that end together: the last to be shown is one of them.
LEMMA LatestIsOne ==
  ASSUME NEW S \in SUBSET Runs, S # {}
  PROVE  Latest(S) \in S
<1> DEFINE T == {MaxRuns - r : r \in S}
<1>1. T \subseteq Nat /\ T # {}
  <2>1. \A r \in S : MaxRuns - r \in Nat
    BY BoundsAssumption DEF Runs
  <2>2. PICK r \in S : TRUE
    OBVIOUS
  <2> QED BY <2>1, <2>2
<1>2. PICK x \in T : \A y \in T : ~ (<<y, x>> \in OpToRel(<, Nat))
  <2> HIDE DEF T
  <2> QED BY <1>1, NatLessThanWellFounded, WFMin
<1>3. \A y \in T : ~ (y < x)
  BY <1>1, <1>2 DEF OpToRel
<1>4. PICK r \in S : x = MaxRuns - r
  OBVIOUS
<1>5. ASSUME NEW s \in S PROVE s =< r
  <2>1. MaxRuns - s \in T
    OBVIOUS
  <2>2. ~ (MaxRuns - s < MaxRuns - r)
    BY <2>1, <1>3, <1>4
  <2> QED BY <2>2, BoundsAssumption DEF Runs
<1> QED BY <1>5 DEF Latest

\* Runs of one client that end: what is shown afterwards is of the open question.
LEMMA EndShows ==
  ASSUME Typing, OutcomesAreFinal, ResultsStayOnTheirQuestion,
         NEW v \in Visits, NEW S \in SUBSET Runs, NEW outcome \in {"ok", "error"},
         \A r \in S : run[r].visit = v /\ run[r].at # "done",
         End(S, v, outcome), visit' = visit
  PROVE  /\ run' \in [Runs -> RunType] /\ shown' \in 0..MaxRuns
         /\ status' \in {"idle", "booting", "running"}
         /\ OutcomesAreFinal' /\ ResultsStayOnTheirQuestion'
         /\ \A r \in Runs : run'[r].at = "sent" => r \notin S /\ run'[r] = run[r]
<1>1. run' \in [Runs -> RunType]
  BY DEF End, Typing, RunType
<1>2. \A r \in Runs : r \notin S => run'[r] = run[r]
  BY DEF End, Typing
<1>3. \A r \in S : /\ run'[r].at = "done" /\ run'[r].visit = v
                   /\ v = visit => run'[r].outcome = outcome
  BY DEF End, Typing, RunType
<1>4. OutcomesAreFinal'
  BY <1>2, <1>3 DEF OutcomesAreFinal
<1>5. \A r \in Runs : run'[r].at = "sent" => r \notin S /\ run'[r] = run[r]
  BY <1>2, <1>3
<1>6. CASE S = {} \/ v # visit
  <2>1. shown' = shown /\ status' = status
    BY <1>6 DEF End
  <2>2. shown # 0 => shown \in Runs \ S
    BY DEF Typing, Runs, OutcomesAreFinal, ResultsStayOnTheirQuestion
  <2> QED BY <2>1, <2>2, <1>1, <1>2, <1>4, <1>5 DEF Typing, ResultsStayOnTheirQuestion
<1>7. CASE S # {} /\ v = visit
  <2>1. shown' = Latest(S) /\ status' = "idle"
    BY <1>7 DEF End
  <2>2. shown' \in S
    BY <2>1, <1>7, LatestIsOne
  <2> QED BY <2>1, <2>2, <1>1, <1>3, <1>4, <1>5, <1>7, BoundsAssumption
            DEF ResultsStayOnTheirQuestion, Runs
<1> QED BY <1>6, <1>7

-----------------------------------------------------------------------------
LEMMA InitPSInv == Init => PSInv
<1> SUFFICES ASSUME Init PROVE PSInv
  OBVIOUS
<1>1. Typing
  BY BoundsAssumption DEF Init, Typing, ClientType, RunType, NoClient, NoRun, Visits
<1> QED BY <1>1 DEF Init, PSInv, WorkerMatchesPromise, DisposedClientsAreIdle, OutcomesAreFinal,
               PendingIsServed, Pending, ResultsStayOnTheirQuestion, NoClient, NoRun

\* "Run" pressed: the client boots at most, and only a booted client is sent the run.
LEMMA PressEffect ==
  ASSUME PSInv, NEW r \in Runs, Press(r)
  PROVE  /\ visit \in Visits /\ client[visit] \in ClientType /\ ~client[visit].disposed
         /\ visit' = visit /\ supported' = supported /\ run[r].at = "unused"
         /\ client' \in [Visits -> ClientType]
         /\ \A v \in Visits : v # visit => client'[v] = client[v]
         /\ client'[visit].made /\ ~client'[visit].disposed
         /\ client'[visit].gen = client[visit].gen
         /\ client'[visit].worker = "booting" => client'[visit].ready = "pending"
         /\ client[visit].ready # "none" \/ client'[visit].ready = "ok" =>
              /\ client'[visit].worker = client[visit].worker
              /\ client'[visit].ready = client[visit].ready
         /\ run' \in [Runs -> RunType]
         /\ \A s \in Runs : s # r => run'[s] = run[s]
         /\ run'[r].visit = visit /\ run'[r].gen = client'[visit].gen
         /\ run'[r].at = "sent" => client'[visit].ready = "ok"
         /\ \/ /\ run'[r].at = "done" /\ run'[r].outcome = "error"
               /\ client'[visit].ready = "failed" /\ shown' = r /\ status' = "idle"
            \/ /\ run'[r].at \in {"pageBoot", "boot", "sent"} /\ run'[r].outcome = "none"
               /\ shown' = 0 /\ status' \in {"booting", "running"}
<1> DEFINE c == Booted(client[visit])
<1> USE DEF PSInv
<1>1. client[visit] \in ClientType /\ visit \in Visits
  BY DEF Typing
<1>2. /\ c \in ClientType /\ c.gen = client[visit].gen /\ ~c.disposed
      /\ c.worker = "booting" => c.ready = "pending"
      /\ client[visit].ready # "none" \/ c.ready = "ok" => c = client[visit]
  <2>1. ~client[visit].disposed
    BY <1>1 DEF DisposedClientsAreIdle, Typing, Visits
  <2>2. client[visit].worker = "booting" => client[visit].ready = "pending"
    BY <1>1 DEF WorkerMatchesPromise
  <2> QED BY <1>1, <2>1, <2>2 DEF Booted, ClientType
<1> HIDE DEF c
<1>3. /\ visit' = visit /\ supported' = supported
      /\ client' = [client EXCEPT ![visit] = [c EXCEPT !.made = TRUE]]
      /\ run[r].at = "unused"
  BY DEF Press, c
<1>4. client' \in [Visits -> ClientType]
  BY <1>2, <1>3 DEF Typing, ClientType
<1>5. \A v \in Visits : IF v = visit THEN client'[v] = [c EXCEPT !.made = TRUE]
                        ELSE client'[v] = client[v]
  BY <1>3 DEF Typing
<1>6. /\ client'[visit].made /\ client'[visit].worker = c.worker /\ client'[visit].ready = c.ready
      /\ client'[visit].gen = c.gen /\ client'[visit].disposed = c.disposed
  BY <1>1, <1>2, <1>5 DEF ClientType
<1>7. /\ run' \in [Runs -> RunType]
      /\ \A s \in Runs : s # r => run'[s] = run[s]
      /\ run'[r].visit = visit /\ run'[r].gen = c.gen
      /\ run'[r].at = "sent" => c.ready = "ok"
      /\ \/ /\ run'[r].at = "done" /\ run'[r].outcome = "error"
            /\ c.ready = "failed" /\ shown' = r /\ status' = "idle"
         \/ /\ run'[r].at \in {"pageBoot", "boot", "sent"} /\ run'[r].outcome = "none"
            /\ shown' = 0 /\ status' \in {"booting", "running"}
  <2> DEFINE started == [NoRun EXCEPT !.visit = visit, !.gen = c.gen]
             at == IF ~client[visit].made THEN "pageBoot" ELSE IF c.ready = "ok" THEN "sent" ELSE "boot"
  <2>1. /\ started \in RunType /\ started.visit = visit /\ started.gen = c.gen
        /\ started.outcome = "none"
    BY <1>1, <1>2 DEF NoRun, RunType, ClientType
  <2>2. CASE c.ready = "failed"
    <3> HIDE DEF started
    <3>1. /\ run' = [run EXCEPT ![r] = [started EXCEPT !.at = "done", !.outcome = "error"]]
          /\ status' = "idle" /\ shown' = r
      BY <2>2 DEF Press, c, started
    <3> QED BY <3>1, <2>1, <2>2 DEF Typing, RunType
  <2>3. CASE c.ready # "failed"
    <3>1. /\ run' = [run EXCEPT ![r] = [started EXCEPT !.at = at]]
          /\ status' \in {"booting", "running"} /\ shown' = 0
      BY <2>3 DEF Press, c
    <3>2. at \in {"pageBoot", "sent", "boot"} /\ (at = "sent" => c.ready = "ok")
      OBVIOUS
    <3> HIDE DEF started, at
    <3> QED BY <3>1, <3>2, <2>1 DEF Typing, RunType
  <2> QED BY <2>2, <2>3
<1> QED BY <1>1, <1>2, <1>3, <1>4, <1>5, <1>6, <1>7 DEF DisposedClientsAreIdle, Visits, Typing

LEMMA PressKeepsPSInv ==
  ASSUME PSInv, NEW r \in Runs, Press(r)
  PROVE  PSInv'
<1> USE DEF PSInv
<1>1. Typing'
  BY PressEffect, BoundsAssumption DEF Typing, Runs
<1>2. WorkerMatchesPromise'
  BY PressEffect DEF WorkerMatchesPromise
<1>3. DisposedClientsAreIdle'
  BY PressEffect DEF DisposedClientsAreIdle
<1>4. OutcomesAreFinal'
  BY PressEffect DEF OutcomesAreFinal
<1>5. PendingIsServed'
  <2> SUFFICES ASSUME NEW v \in Visits, NEW s \in Pending(v)'
               PROVE  /\ client'[v].worker \in {"up", "silent"} /\ client'[v].ready = "ok"
                      /\ run'[s].gen = client'[v].gen /\ ~client'[v].disposed
    BY DEF PendingIsServed
  <2>1. s \in Runs /\ run'[s].at = "sent" /\ run'[s].visit = v
    BY DEF Pending
  <2>2. CASE s = r
    BY <2>1, <2>2, PressEffect DEF WorkerMatchesPromise
  <2>3. CASE s # r
    <3>1. s \in Pending(v) /\ run'[s] = run[s]
      BY <2>1, <2>3, PressEffect DEF Pending
    <3>2. /\ client[v].worker \in {"up", "silent"} /\ client[v].ready = "ok"
          /\ run[s].gen = client[v].gen /\ ~client[v].disposed
      BY <3>1 DEF PendingIsServed
    <3> QED BY <3>1, <3>2, PressEffect
  <2> QED BY <2>2, <2>3
<1>6. ResultsStayOnTheirQuestion'
  BY PressEffect, BoundsAssumption DEF ResultsStayOnTheirQuestion, Runs
<1> QED BY <1>1, <1>2, <1>3, <1>4, <1>5, <1>6

\* A torn-down client has no worker and no promise.
LEMMA TeardownType ==
  ASSUME NEW c \in ClientType
  PROVE  /\ Teardown(c) \in ClientType
         /\ Teardown(c).worker = "none" /\ Teardown(c).ready = "none"
         /\ Teardown(c).disposed = c.disposed
<1>1. c.gen + 1 \in Nat
  BY DEF ClientType
<1> QED BY <1>1 DEF Teardown, ClientType

\* Another question: the old client is left without a worker and without pending runs.
LEMMA NavigateKeepsPSInv == ASSUME PSInv, Navigate PROVE PSInv'
<1> USE DEF PSInv
<1>1. client[visit] \in ClientType /\ visit \in Visits /\ visit' \in Visits /\ visit' = visit + 1
  <2>1. visit \in 1..MaxVisits /\ visit < MaxVisits /\ visit' = visit + 1
    BY DEF Navigate, Typing, Visits
  <2>2. visit' \in 1..MaxVisits
    BY <2>1, BoundsAssumption
  <2> QED BY <2>1, <2>2 DEF Typing, Visits
<1>2. \A v \in Visits :
        client'[v] = IF v = visit /\ client[visit].made
                     THEN [Teardown(client[visit]) EXCEPT !.disposed = TRUE] ELSE client[v]
  BY <1>1 DEF Navigate, Typing
<1>3. \A v \in Visits : client'[v] \in ClientType
  <2>1. [Teardown(client[visit]) EXCEPT !.disposed = TRUE] \in ClientType
    <3> DEFINE t == Teardown(client[visit])
    <3>1. t \in ClientType
      BY <1>1, TeardownType
    <3> HIDE DEF t
    <3>2. [t EXCEPT !.disposed = TRUE] \in ClientType
      BY <3>1 DEF ClientType
    <3> QED BY <3>2 DEF t
  <2> QED BY <1>2, <2>1 DEF Typing
<1>4. client' \in [Visits -> ClientType]
  BY <1>3 DEF Navigate, Typing
<1>5. \A v \in Visits : \/ client'[v] = client[v]
                        \/ /\ v = visit /\ client'[v].worker = "none"
                           /\ client'[v].ready = "none" /\ client'[v].disposed
  BY <1>1, <1>2 DEF ClientType, Teardown
<1>6. /\ run' \in [Runs -> RunType]
      /\ \A r \in Runs : IF r \in Pending(visit)
                         THEN run'[r].at = "done" /\ run'[r].visit = visit
                         ELSE run'[r] = run[r]
  BY DEF Navigate, Typing, RunType, Pending
<1>7. Typing'
  <2>1. supported' = supported /\ status' = "idle" /\ shown' = 0
    BY DEF Navigate
  <2>2. shown' \in 0..MaxRuns
    BY <2>1, BoundsAssumption
  <2> QED BY <1>1, <1>4, <1>6, <2>1, <2>2 DEF Typing
<1>8. WorkerMatchesPromise'
  BY <1>5 DEF WorkerMatchesPromise
<1>9. DisposedClientsAreIdle'
  BY <1>1, <1>5 DEF DisposedClientsAreIdle, Visits
<1>10. OutcomesAreFinal'
  BY <1>6 DEF OutcomesAreFinal
<1>11. PendingIsServed'
  <2> SUFFICES ASSUME NEW v \in Visits, NEW r \in Pending(v)'
               PROVE  /\ client'[v].worker \in {"up", "silent"} /\ client'[v].ready = "ok"
                      /\ run'[r].gen = client'[v].gen /\ ~client'[v].disposed
    BY DEF PendingIsServed
  <2>1. r \in Pending(v) \ Pending(visit) /\ run'[r] = run[r]
    BY <1>6 DEF Pending
  <2>2. v # visit
    BY <2>1
  <2> QED BY <2>1, <2>2, <1>2 DEF PendingIsServed
<1>12. ResultsStayOnTheirQuestion'
  BY DEF Navigate, ResultsStayOnTheirQuestion
<1> QED BY <1>7, <1>8, <1>9, <1>10, <1>11, <1>12

\* The worker is ready: the runs that waited for this very worker are sent.
LEMMA WorkerReadyKeepsPSInv == ASSUME PSInv, NEW v \in Visits, WorkerReady(v) PROVE PSInv'
<1> USE DEF PSInv
<1>1. /\ client[v] \in ClientType /\ client[v].worker = "booting" /\ client[v].ready = "pending"
      /\ ~client[v].disposed
  BY DEF WorkerReady, Typing, WorkerMatchesPromise, DisposedClientsAreIdle
<1>2. /\ client' \in [Visits -> ClientType]
      /\ \A u \in Visits : u # v => client'[u] = client[u]
      /\ client'[v].worker = "up" /\ client'[v].ready = "ok"
      /\ client'[v].gen = client[v].gen /\ ~client'[v].disposed
  BY <1>1 DEF WorkerReady, Typing, ClientType
<1>3. /\ run' \in [Runs -> RunType]
      /\ \A r \in Runs : IF r \in Awaiting(v)
                         THEN /\ run'[r].at = "sent" /\ run'[r].visit = v
                              /\ run'[r].gen = client[v].gen /\ run'[r].outcome = run[r].outcome
                         ELSE run'[r] = run[r]
  BY DEF WorkerReady, Typing, RunType, Awaiting
<1>4. visit' = visit /\ supported' = supported /\ shown' = shown
      /\ status' \in {"idle", "booting", "running"}
  BY DEF WorkerReady, Typing
<1>5. Typing' /\ WorkerMatchesPromise' /\ DisposedClientsAreIdle'
  BY <1>2, <1>3, <1>4 DEF Typing, WorkerMatchesPromise, DisposedClientsAreIdle
<1>6. \A r \in Awaiting(v) : run[r].outcome = "none"
  BY DEF Awaiting, OutcomesAreFinal
<1>7. OutcomesAreFinal'
  BY <1>3, <1>6 DEF OutcomesAreFinal, Awaiting
<1>8. PendingIsServed'
  <2> SUFFICES ASSUME NEW u \in Visits, NEW r \in Pending(u)'
               PROVE  /\ client'[u].worker \in {"up", "silent"} /\ client'[u].ready = "ok"
                      /\ run'[r].gen = client'[u].gen /\ ~client'[u].disposed
    BY DEF PendingIsServed
  <2>1. CASE r \in Awaiting(v)
    BY <2>1, <1>2, <1>3 DEF Pending
  <2>2. CASE r \notin Awaiting(v)
    <3>1. r \in Pending(u) /\ run'[r] = run[r]
      BY <2>2, <1>3 DEF Pending
    <3>2. u # v
      BY <3>1, <1>1 DEF PendingIsServed
    <3> QED BY <3>1, <3>2, <1>2 DEF PendingIsServed
  <2> QED BY <2>1, <2>2
<1>9. ResultsStayOnTheirQuestion'
  <2>1. shown # 0 => shown \in Runs \ Awaiting(v)
    BY <1>6 DEF Typing, Runs, ResultsStayOnTheirQuestion
  <2> QED BY <2>1, <1>3, <1>4 DEF ResultsStayOnTheirQuestion
<1> QED BY <1>5, <1>7, <1>8, <1>9

\* A failed boot ends its waiting runs; none was sent yet.
LEMMA BootFailsKeepsPSInv == ASSUME PSInv, NEW v \in Visits, BootFails(v) PROVE PSInv'
<1> USE DEF PSInv
<1>1. client[v] \in ClientType /\ client[v].worker = "booting" /\ ~client[v].disposed
  BY DEF BootFails, Typing, DisposedClientsAreIdle
<1>2. /\ client' \in [Visits -> ClientType]
      /\ \A u \in Visits : u # v => client'[u] = client[u]
      /\ client'[v].worker = "broken" /\ client'[v].ready = "failed" /\ ~client'[v].disposed
  BY <1>1 DEF BootFails, Typing, ClientType
<1>3. visit' = visit /\ supported' = supported /\ End(Awaiting(v), v, "error")
  BY DEF BootFails
<1>4. \A r \in Awaiting(v) : run[r].visit = v /\ run[r].at # "done"
  BY DEF Awaiting
<1>5. /\ run' \in [Runs -> RunType] /\ shown' \in 0..MaxRuns
      /\ status' \in {"idle", "booting", "running"}
      /\ OutcomesAreFinal' /\ ResultsStayOnTheirQuestion'
      /\ \A r \in Runs : run'[r].at = "sent" => r \notin Awaiting(v) /\ run'[r] = run[r]
  <2>1. Awaiting(v) \in SUBSET Runs
    BY DEF Awaiting
  <2> QED BY <1>3, <1>4, <2>1, EndShows
<1>6. Typing' /\ WorkerMatchesPromise' /\ DisposedClientsAreIdle'
  BY <1>2, <1>3, <1>5 DEF Typing, WorkerMatchesPromise, DisposedClientsAreIdle
<1>7. PendingIsServed'
  <2> SUFFICES ASSUME NEW u \in Visits, NEW r \in Pending(u)'
               PROVE  /\ client'[u].worker \in {"up", "silent"} /\ client'[u].ready = "ok"
                      /\ run'[r].gen = client'[u].gen /\ ~client'[u].disposed
    BY DEF PendingIsServed
  <2>1. r \in Pending(u) /\ run'[r] = run[r]
    BY <1>5 DEF Pending
  <2>2. u # v
    BY <2>1, <1>1 DEF PendingIsServed
  <2> QED BY <2>1, <2>2, <1>2 DEF PendingIsServed
<1> QED BY <1>5, <1>6, <1>7

\* An answer ends one of the pending runs.
LEMMA WorkerAnswersKeepsPSInv == ASSUME PSInv, NEW v \in Visits, WorkerAnswers(v) PROVE PSInv'
<1> USE DEF PSInv
<1>1. PICK r \in Pending(v), outcome \in {"ok", "error"} : End({r}, v, outcome)
  BY DEF WorkerAnswers
<1>2. visit' = visit /\ supported' = supported /\ client' = client
  BY DEF WorkerAnswers
<1>3. /\ run' \in [Runs -> RunType] /\ shown' \in 0..MaxRuns
      /\ status' \in {"idle", "booting", "running"}
      /\ OutcomesAreFinal' /\ ResultsStayOnTheirQuestion'
      /\ \A s \in Runs : run'[s].at = "sent" => s \notin {r} /\ run'[s] = run[s]
  <2>1. {r} \in SUBSET Runs /\ \A s \in {r} : run[s].visit = v /\ run[s].at # "done"
    BY DEF Pending
  <2> HIDE DEF PSInv
  <2>2. Typing /\ OutcomesAreFinal /\ ResultsStayOnTheirQuestion
    BY DEF PSInv
  <2> QED BY <1>1, <1>2, <2>1, <2>2, EndShows
<1>4. Typing' /\ WorkerMatchesPromise' /\ DisposedClientsAreIdle'
  BY <1>2, <1>3 DEF Typing, WorkerMatchesPromise, DisposedClientsAreIdle
<1>5. PendingIsServed'
  BY <1>2, <1>3 DEF PendingIsServed, Pending
<1> QED BY <1>3, <1>4, <1>5

\* A timer ends its run, and with the worker every run that was sent to it.
LEMMA TimeoutKeepsPSInv == ASSUME PSInv, NEW r \in Runs, Timeout(r) PROVE PSInv'
<1> DEFINE v == run[r].visit
<1> USE DEF PSInv
<1>1. v \in Visits /\ client[v] \in ClientType
  BY DEF Typing, RunType
<1>2. /\ client' \in [Visits -> ClientType]
      /\ \A u \in Visits : u # v => client'[u] = client[u]
      /\ client'[v].worker = "none" /\ client'[v].ready = "none"
      /\ client'[v].disposed = client[v].disposed
  <2>1. client' = [client EXCEPT ![v] = Teardown(client[v])]
    BY <1>1 DEF Timeout, Typing
  <2> HIDE DEF v
  <2> QED BY <2>1, <1>1, TeardownType DEF Typing
<1>3. visit' = visit /\ supported' = supported /\ End({r} \cup Pending(v), v, "error")
  BY DEF Timeout
<1>4. /\ {r} \cup Pending(v) \in SUBSET Runs
      /\ \A s \in {r} \cup Pending(v) : run[s].visit = v /\ run[s].at # "done"
  BY DEF Timeout, Pending
<1> HIDE DEF v
<1>5. /\ run' \in [Runs -> RunType] /\ shown' \in 0..MaxRuns
      /\ status' \in {"idle", "booting", "running"}
      /\ OutcomesAreFinal' /\ ResultsStayOnTheirQuestion'
      /\ \A s \in Runs : run'[s].at = "sent" => s \notin {r} \cup Pending(v) /\ run'[s] = run[s]
  BY <1>1, <1>3, <1>4, EndShows
<1>6. Typing' /\ WorkerMatchesPromise' /\ DisposedClientsAreIdle'
  BY <1>2, <1>3, <1>5 DEF Typing, WorkerMatchesPromise, DisposedClientsAreIdle
<1>7. PendingIsServed'
  <2> SUFFICES ASSUME NEW u \in Visits, NEW s \in Pending(u)'
               PROVE  /\ client'[u].worker \in {"up", "silent"} /\ client'[u].ready = "ok"
                      /\ run'[s].gen = client'[u].gen /\ ~client'[u].disposed
    BY DEF PendingIsServed
  <2>1. s \in Pending(u) \ Pending(v) /\ run'[s] = run[s]
    BY <1>5 DEF Pending
  <2> QED BY <2>1, <1>2 DEF PendingIsServed
<1> QED BY <1>5, <1>6, <1>7

-----------------------------------------------------------------------------
\* The steps that end no run and make no client.
LEMMA OtherStepsKeepPSInv ==
  ASSUME PSInv, \/ Reset \/ UNCHANGED vars
                \/ \E v \in Visits : StageMessage(v) \/ WorkerStalls(v)
  PROVE  PSInv'
<1> USE DEF PSInv
<1>1. CASE Reset
  BY <1>1, BoundsAssumption DEF Reset, Typing, WorkerMatchesPromise, DisposedClientsAreIdle,
     OutcomesAreFinal, PendingIsServed, Pending, ResultsStayOnTheirQuestion
<1>2. CASE UNCHANGED vars
  BY <1>2 DEF vars, Typing, WorkerMatchesPromise, DisposedClientsAreIdle,
     OutcomesAreFinal, PendingIsServed, Pending, ResultsStayOnTheirQuestion
<1>3. ASSUME NEW v \in Visits, StageMessage(v) PROVE PSInv'
  BY <1>3 DEF StageMessage, Typing, WorkerMatchesPromise, DisposedClientsAreIdle,
     OutcomesAreFinal, PendingIsServed, Pending, ResultsStayOnTheirQuestion
<1>4. ASSUME NEW v \in Visits, WorkerStalls(v) PROVE PSInv'
  <2>1. client[v] \in ClientType
    BY DEF Typing
  <2>2. /\ client' \in [Visits -> ClientType]
        /\ \A u \in Visits : u # v => client'[u] = client[u]
        /\ client'[v].worker = "silent" /\ client'[v].ready = client[v].ready
        /\ client'[v].gen = client[v].gen /\ client'[v].disposed = client[v].disposed
        /\ client[v].worker # "none"
    BY <1>4, <2>1 DEF WorkerStalls, Typing, ClientType
  <2>3. UNCHANGED <<supported, visit, run, status, shown>>
    BY <1>4 DEF WorkerStalls
  <2>4. Typing' /\ WorkerMatchesPromise' /\ OutcomesAreFinal' /\ ResultsStayOnTheirQuestion'
    BY <2>2, <2>3 DEF Typing, WorkerMatchesPromise, OutcomesAreFinal, ResultsStayOnTheirQuestion
  <2>5. DisposedClientsAreIdle' /\ PendingIsServed'
    BY <2>2, <2>3 DEF DisposedClientsAreIdle, PendingIsServed, Pending
  <2> QED BY <2>4, <2>5
<1> QED BY <1>1, <1>2, <1>3, <1>4

\* The inductive invariant of the PySpark runner: the typing, a promise for each
\* worker, no worker for a client disposed of, and the two properties below.
THEOREM PysparkInvariant == Spec => []PSInv
<1>1. PSInv /\ [Next]_vars => PSInv'
  <2> SUFFICES ASSUME PSInv, [Next]_vars PROVE PSInv'
    OBVIOUS
  <2>1. ASSUME NEW r \in Runs, Press(r) PROVE PSInv'
    BY <2>1, PressKeepsPSInv
  <2>2. ASSUME NEW r \in Runs, Timeout(r) PROVE PSInv'
    BY <2>2, TimeoutKeepsPSInv
  <2>3. ASSUME NEW v \in Visits, WorkerReady(v) PROVE PSInv'
    BY <2>3, WorkerReadyKeepsPSInv
  <2>4. ASSUME NEW v \in Visits, BootFails(v) PROVE PSInv'
    BY <2>4, BootFailsKeepsPSInv
  <2>5. ASSUME NEW v \in Visits, WorkerAnswers(v) PROVE PSInv'
    BY <2>5, WorkerAnswersKeepsPSInv
  <2>6. CASE Navigate
    BY <2>6, NavigateKeepsPSInv
  <2>7. CASE \/ Reset \/ UNCHANGED vars
             \/ \E v \in Visits : StageMessage(v) \/ WorkerStalls(v)
    BY <2>7, OtherStepsKeepPSInv
  <2> QED BY <2>1, <2>2, <2>3, <2>4, <2>5, <2>6, <2>7 DEF Next
<1> QED BY <1>1, InitPSInv, PTL DEF Spec

\* Whatever stalls, fails or times out, a run that waits for an answer was sent
\* to the worker its client has now.
THEOREM PendingServed == Spec => []PendingIsServed
<1>1. PSInv => PendingIsServed
  BY DEF PSInv
<1> QED BY <1>1, PysparkInvariant, PTL

\* What the page shows is of the question that is open.
THEOREM ResultsStay == Spec => []ResultsStayOnTheirQuestion
<1>1. PSInv => ResultsStayOnTheirQuestion
  BY DEF PSInv
<1> QED BY <1>1, PysparkInvariant, PTL
-----------------------------------------------------------------------------
\* Why the button is not locked for nothing: a worker belongs to the question that
\* is open, and one that boots was started by a run that still waits for it.
WorkersAreOpen ==
  \A v \in Visits : client[v].worker # "none" => v = visit /\ client[v].made

BootingIsAwaited == \A v \in Visits : client[v].worker = "booting" => Awaiting(v) # {}

BusyInv == WorkersAreOpen /\ BootingIsAwaited /\ BusyPageHasRun

LEMMA InitBusyInv == Init => BusyInv
BY DEF Init, BusyInv, WorkersAreOpen, BootingIsAwaited, BusyPageHasRun, NoClient

\* The new run waits for the worker, or was sent to it.
LEMMA PressKeepsBusyInv ==
  ASSUME PSInv, BusyInv, NEW r \in Runs, Press(r)
  PROVE  BusyInv'
<1> USE DEF BusyInv
<1>1. WorkersAreOpen'
  BY PressEffect DEF WorkersAreOpen
<1>2. status' # "idle" \/ client'[visit].worker = "booting" =>
        r \in (Awaiting(visit) \cup Pending(visit))'
  BY PressEffect DEF Awaiting, Pending
<1>3. \A v \in Visits : v = visit /\ client'[v].worker = "booting" => r \in Awaiting(v)'
  BY PressEffect DEF Awaiting
<1>4. BootingIsAwaited'
  <2> SUFFICES ASSUME NEW v \in Visits, client'[v].worker = "booting"
               PROVE  Awaiting(v)' # {}
    BY DEF BootingIsAwaited
  <2>1. v = visit
    BY <1>1, PressEffect DEF WorkersAreOpen
  <2> QED BY <2>1, <1>3
<1>5. BusyPageHasRun'
  BY <1>2, PressEffect DEF BusyPageHasRun
<1> QED BY <1>1, <1>4, <1>5

\* The old client has no worker, and the new page is idle.
LEMMA NavigateKeepsBusyInv == ASSUME PSInv, BusyInv, Navigate PROVE BusyInv'
<1> USE DEF PSInv, BusyInv
<1>1. \A v \in Visits : client'[v].worker = "none"
  <2>1. \A v \in Visits :
          client'[v] = IF v = visit /\ client[visit].made
                       THEN [Teardown(client[visit]) EXCEPT !.disposed = TRUE] ELSE client[v]
    BY DEF Navigate, Typing
  <2>2. client[visit] \in ClientType
    BY DEF Typing
  <2> DEFINE t == Teardown(client[visit])
  <2>3. t \in ClientType /\ t.worker = "none"
    BY <2>2, TeardownType
  <2> HIDE DEF t
  <2>4. [t EXCEPT !.disposed = TRUE].worker = "none"
    BY <2>3 DEF ClientType
  <2>5. \A v \in Visits : client[v].worker # "none" => v = visit /\ client[visit].made
    BY DEF WorkersAreOpen
  <2> QED BY <2>1, <2>4, <2>5 DEF t
<1> QED BY <1>1 DEF Navigate, WorkersAreOpen, BootingIsAwaited, BusyPageHasRun

\* Those who waited for the worker are pending now.
LEMMA WorkerReadyKeepsBusyInv ==
  ASSUME PSInv, BusyInv, NEW v \in Visits, WorkerReady(v)
  PROVE  BusyInv'
<1> USE DEF PSInv, BusyInv
<1>1. v = visit /\ client[v] \in ClientType /\ client[v].made /\ Awaiting(v) # {}
  BY DEF WorkerReady, WorkersAreOpen, BootingIsAwaited, Typing
<1>2. /\ \A u \in Visits : u # v => client'[u] = client[u]
      /\ client'[v].worker = "up" /\ client'[v].made /\ visit' = visit
  BY <1>1 DEF WorkerReady, Typing, ClientType
<1>3. \A r \in Awaiting(v) : r \in Pending(v)'
  BY DEF WorkerReady, Typing, RunType, Awaiting, Pending
<1>4. WorkersAreOpen' /\ BootingIsAwaited'
  BY <1>1, <1>2 DEF WorkersAreOpen, BootingIsAwaited
<1>5. BusyPageHasRun'
  BY <1>1, <1>2, <1>3 DEF BusyPageHasRun
<1> QED BY <1>4, <1>5

\* Runs of the open question that end unlock the button; others leave it alone,
\* and the runs it waits for.
LEMMA EndKeepsBusyPage ==
  ASSUME Typing, BusyPageHasRun, NEW v \in Visits, NEW S \in SUBSET Runs, NEW outcome,
         \A r \in S : run[r].visit = v, End(S, v, outcome), visit' = visit,
         S # {} \/ v # visit, \A u \in Visits : u # v => client'[u] = client[u]
  PROVE  BusyPageHasRun'
<1>1. CASE v = visit
  BY <1>1 DEF End, BusyPageHasRun
<1>2. CASE v # visit
  <2>1. visit \in Visits /\ client'[visit] = client[visit] /\ status' = status
    BY <1>2 DEF End, Typing
  <2>2. \A r \in Runs : run[r].visit = visit => run'[r] = run[r]
    BY <1>2 DEF End, Typing
  <2>3. /\ \A r \in Awaiting(visit) : r \in Awaiting(visit)'
        /\ \A r \in Pending(visit) : r \in Pending(visit)'
    BY <2>1, <2>2 DEF Awaiting, Pending
  <2> QED BY <2>1, <2>3 DEF BusyPageHasRun
<1> QED BY <1>1, <1>2

LEMMA BootFailsKeepsBusyInv ==
  ASSUME PSInv, BusyInv, NEW v \in Visits, BootFails(v)
  PROVE  BusyInv'
<1> USE DEF PSInv, BusyInv
<1>1. v = visit /\ client[v] \in ClientType /\ client[v].made /\ Awaiting(v) # {}
  BY DEF BootFails, WorkersAreOpen, BootingIsAwaited, Typing
<1>2. /\ \A u \in Visits : u # v => client'[u] = client[u]
      /\ client'[v].worker = "broken" /\ client'[v].made /\ visit' = visit
  BY <1>1 DEF BootFails, Typing, ClientType
<1>3. WorkersAreOpen' /\ BootingIsAwaited'
  BY <1>1, <1>2 DEF WorkersAreOpen, BootingIsAwaited
<1>4. BusyPageHasRun'
  <2>1. Awaiting(v) \in SUBSET Runs /\ \A r \in Awaiting(v) : run[r].visit = v
    BY DEF Awaiting
  <2>2. End(Awaiting(v), v, "error")
    BY DEF BootFails
  <2> QED BY <1>1, <1>2, <2>1, <2>2, EndKeepsBusyPage
<1> QED BY <1>3, <1>4

\* Nothing was sent to a worker that still boots, so none of its waiting runs ends.
LEMMA WorkerAnswersKeepsBusyInv ==
  ASSUME PSInv, BusyInv, NEW v \in Visits, WorkerAnswers(v)
  PROVE  BusyInv'
<1> USE DEF PSInv, BusyInv
<1>1. PICK r \in Pending(v), outcome \in {"ok", "error"} : End({r}, v, outcome)
  BY DEF WorkerAnswers
<1>2. visit' = visit /\ client' = client /\ client[v].worker = "up"
  BY DEF WorkerAnswers
<1>3. r \in Runs /\ run[r].visit = v
  BY DEF Pending
<1>4. WorkersAreOpen'
  BY <1>2 DEF WorkersAreOpen
<1>5. BootingIsAwaited'
  <2> SUFFICES ASSUME NEW u \in Visits, client[u].worker = "booting"
               PROVE  Awaiting(u)' # {}
    BY <1>2 DEF BootingIsAwaited
  <2>1. PICK s \in Awaiting(u) : TRUE
    BY DEF BootingIsAwaited
  <2>2. s \in Runs /\ s # r
    BY <1>2, <1>3 DEF Awaiting
  <2>3. run'[s] = run[s]
    BY <1>1, <2>2 DEF End, Typing
  <2> QED BY <1>2, <2>1, <2>3 DEF Awaiting
<1>6. BusyPageHasRun'
  BY <1>1, <1>2, <1>3, EndKeepsBusyPage
<1> QED BY <1>4, <1>5, <1>6

\* The client whose run timed out has no worker; a booting one is another's.
LEMMA TimeoutKeepsBusyInv ==
  ASSUME PSInv, BusyInv, NEW r \in Runs, Timeout(r)
  PROVE  BusyInv'
<1> DEFINE v == run[r].visit
           S == {r} \cup Pending(v)
<1> USE DEF PSInv, BusyInv
<1>1. v \in Visits /\ client[v] \in ClientType /\ visit' = visit
  BY DEF Timeout, Typing, RunType
<1>2. \A u \in Visits : IF u = v THEN client'[u].worker = "none" ELSE client'[u] = client[u]
  <2>1. client' = [client EXCEPT ![v] = Teardown(client[v])]
    BY <1>1 DEF Timeout, Typing
  <2> HIDE DEF v
  <2> QED BY <2>1, <1>1, TeardownType DEF Typing
<1>3. End(S, v, "error") /\ S \in SUBSET Runs /\ S # {} /\ \A s \in S : run[s].visit = v
  BY DEF Timeout, Pending
<1> HIDE DEF v, S
<1>4. WorkersAreOpen'
  BY <1>1, <1>2 DEF WorkersAreOpen
<1>5. BootingIsAwaited'
  <2> SUFFICES ASSUME NEW u \in Visits, client'[u].worker = "booting"
               PROVE  Awaiting(u)' # {}
    BY DEF BootingIsAwaited
  <2>1. u # v /\ client'[u] = client[u]
    BY <1>2
  <2>2. \A s \in Runs : run[s].visit = u => run'[s] = run[s]
    BY <1>3, <2>1 DEF End
  <2>3. PICK s \in Awaiting(u) : TRUE
    BY <2>1 DEF BootingIsAwaited
  <2> QED BY <2>1, <2>2, <2>3 DEF Awaiting
<1>6. BusyPageHasRun'
  BY <1>1, <1>2, <1>3, EndKeepsBusyPage
<1> QED BY <1>4, <1>5, <1>6

\* A worker that tells of its boot is awaited by a run of the open question.
LEMMA OtherStepsKeepBusyInv ==
  ASSUME PSInv, BusyInv, \/ Reset \/ UNCHANGED vars
                         \/ \E v \in Visits : StageMessage(v) \/ WorkerStalls(v)
  PROVE  BusyInv'
<1> USE DEF PSInv, BusyInv
<1>1. CASE Reset \/ UNCHANGED vars
  BY <1>1 DEF Reset, vars, WorkersAreOpen, BootingIsAwaited, BusyPageHasRun, Awaiting, Pending
<1>2. ASSUME NEW v \in Visits, StageMessage(v) PROVE BusyInv'
  BY <1>2 DEF StageMessage, WorkersAreOpen, BootingIsAwaited, BusyPageHasRun, Awaiting, Pending
<1>3. ASSUME NEW v \in Visits, WorkerStalls(v) PROVE BusyInv'
  <2>1. /\ \A u \in Visits : u # v => client'[u] = client[u]
        /\ client'[v].worker = "silent" /\ client'[v].made = client[v].made
        /\ client'[v].gen = client[v].gen /\ client[v].worker # "none"
    BY <1>3 DEF WorkerStalls, Typing, ClientType
  <2>2. UNCHANGED <<visit, run, status>> /\ visit \in Visits
    BY <1>3 DEF WorkerStalls, Typing
  <2>3. \A u \in Visits : Awaiting(u)' = Awaiting(u) /\ Pending(u)' = Pending(u)
    BY <2>1, <2>2 DEF Awaiting, Pending
  <2> QED BY <2>1, <2>2, <2>3 DEF WorkersAreOpen, BootingIsAwaited, BusyPageHasRun
<1> QED BY <1>1, <1>2, <1>3

-----------------------------------------------------------------------------
\* Why generations are bounded: every teardown ends a run of the client's question,
\* but for the one that disposes of the client.
Ended(v) == {r \in Runs : run[r].at = "done" /\ run[r].visit = v}

TeardownsAreCounted ==
  \A v \in Visits :
    IF client[v].disposed THEN client[v].gen =< Cardinality(Ended(v)) + 1
    ELSE client[v].gen =< Cardinality(Ended(v))

RunsAreOfPastGenerations == \A r \in Runs : run[r].gen =< client[run[r].visit].gen

CountInv == TeardownsAreCounted /\ RunsAreOfPastGenerations

LEMMA SetsOfRuns ==
  ASSUME NEW S \in SUBSET Runs, NEW T \in SUBSET Runs, S \subseteq T
  PROVE  /\ Cardinality(S) \in Nat /\ Cardinality(T) \in Nat
         /\ Cardinality(S) =< Cardinality(T) /\ Cardinality(T) =< MaxRuns
         /\ \A r \in T \ S : Cardinality(S) + 1 =< Cardinality(T)
<1>1. IsFiniteSet(Runs) /\ Cardinality(Runs) = MaxRuns
  BY FS_Interval, BoundsAssumption DEF Runs
<1>2. IsFiniteSet(S) /\ IsFiniteSet(T) /\ Cardinality(T) =< MaxRuns /\ Cardinality(S) =< Cardinality(T)
  BY <1>1, FS_Subset
<1>3. Cardinality(S) \in Nat /\ Cardinality(T) \in Nat
  BY <1>2, FS_CardinalityType
<1>4. ASSUME NEW r \in T \ S PROVE Cardinality(S) + 1 =< Cardinality(T)
  <2>1. Cardinality(S \cup {r}) = Cardinality(S) + 1
    BY <1>2, FS_AddElement
  <2>2. S \cup {r} \subseteq T
    OBVIOUS
  <2> QED BY <1>2, <2>1, <2>2, FS_Subset
<1> QED BY <1>2, <1>3, <1>4

\* What a step does to runs and to generations.
RunsStayEnded ==
  \A r \in Runs : run[r].at = "done" => run'[r].at = "done" /\ run'[r].visit = run[r].visit

RunsGetPresentGeneration ==
  \A r \in Runs : \/ run'[r].visit = run[r].visit /\ run'[r].gen = run[r].gen
                  \/ run'[r].visit \in Visits /\ run'[r].gen = client'[run'[r].visit].gen

GenerationsAreEarned ==
  \A v \in Visits :
    \/ client'[v].gen = client[v].gen /\ client'[v].disposed = client[v].disposed
    \/ /\ client'[v].gen = client[v].gen + 1
       /\ \/ ~client[v].disposed /\ client'[v].disposed
          \/ /\ client'[v].disposed = client[v].disposed
             /\ \E r \in Runs : run[r].at # "done" /\ run'[r].at = "done" /\ run'[r].visit = v

LEMMA EarnedGenerationsAreCounted ==
  ASSUME Typing, Typing', CountInv,
         RunsStayEnded, RunsGetPresentGeneration, GenerationsAreEarned
  PROVE  CountInv'
<1> USE DEF CountInv
<1>1. \A v \in Visits : client[v].gen \in Nat /\ client'[v].gen \in Nat
  BY DEF Typing, ClientType
<1>2. \A v \in Visits : client[v].gen =< client'[v].gen
  BY <1>1 DEF GenerationsAreEarned
<1>3. RunsAreOfPastGenerations'
  <2> SUFFICES ASSUME NEW r \in Runs PROVE run'[r].gen =< client'[run'[r].visit].gen
    BY DEF RunsAreOfPastGenerations
  <2>1. /\ run[r].visit \in Visits /\ run[r].gen \in Nat
        /\ run'[r].visit \in Visits /\ run'[r].gen \in Nat
    BY DEF Typing, RunType
  <2>2. run[r].gen =< client[run[r].visit].gen
    BY DEF RunsAreOfPastGenerations
  <2> QED BY <1>1, <1>2, <2>1, <2>2 DEF RunsGetPresentGeneration
<1>4. TeardownsAreCounted'
  <2> SUFFICES ASSUME NEW v \in Visits
               PROVE  IF client'[v].disposed THEN client'[v].gen =< Cardinality(Ended(v)') + 1
                      ELSE client'[v].gen =< Cardinality(Ended(v)')
    BY DEF TeardownsAreCounted
  <2> DEFINE S == Ended(v)
             T == Ended(v)'
  <2>1. S \in SUBSET Runs /\ T \in SUBSET Runs /\ S \subseteq T
    BY DEF Ended, RunsStayEnded
  <2>2. \A r \in Runs : run[r].at # "done" /\ run'[r].at = "done" /\ run'[r].visit = v => r \in T \ S
    BY DEF Ended
  <2>3. IF client[v].disposed THEN client[v].gen =< Cardinality(S) + 1
        ELSE client[v].gen =< Cardinality(S)
    BY DEF TeardownsAreCounted
  <2> HIDE DEF S, T
  <2>4. /\ Cardinality(S) \in Nat /\ Cardinality(T) \in Nat /\ Cardinality(S) =< Cardinality(T)
        /\ \A r \in T \ S : Cardinality(S) + 1 =< Cardinality(T)
    BY <2>1, SetsOfRuns
  <2>5. IF client'[v].disposed THEN client'[v].gen =< Cardinality(T) + 1
        ELSE client'[v].gen =< Cardinality(T)
    BY <1>1, <2>2, <2>3, <2>4 DEF GenerationsAreEarned
  <2> QED BY <2>5 DEF T
<1> QED BY <1>3, <1>4

\* One case per action.
LEMMA StepsEarnGenerations ==
  ASSUME PSInv, [Next]_vars
  PROVE  RunsStayEnded /\ RunsGetPresentGeneration /\ GenerationsAreEarned
<1> DEFINE Earned == RunsStayEnded /\ RunsGetPresentGeneration /\ GenerationsAreEarned
<1> USE DEF PSInv, RunsStayEnded, RunsGetPresentGeneration, GenerationsAreEarned
<1>1. ASSUME NEW r \in Runs, Press(r) PROVE Earned
  <2>1. RunsStayEnded /\ RunsGetPresentGeneration
    BY <1>1, PressEffect
  <2>2. ASSUME NEW v \in Visits
        PROVE  client'[v].gen = client[v].gen /\ client'[v].disposed = client[v].disposed
    <3>1. CASE v = visit
      <4>1. client[v] \in ClientType /\ client'[v] \in ClientType
        BY <1>1, PressEffect
      <4>2. client'[v].gen = client[v].gen /\ ~client'[v].disposed /\ ~client[v].disposed
        BY <1>1, <3>1, PressEffect
      <4> QED BY <4>1, <4>2 DEF ClientType
    <3>2. CASE v # visit
      BY <1>1, <3>2, PressEffect
    <3> QED BY <3>1, <3>2
  <2> QED BY <2>1, <2>2
<1>2. ASSUME NEW r \in Runs, Timeout(r) PROVE Earned
  <2> DEFINE v == run[r].visit
  <2>1. v \in Visits /\ client[v] \in ClientType /\ run[r].at # "done"
    BY <1>2 DEF Timeout, Typing, RunType
  <2>2. /\ run' = [s \in Runs |-> IF s \in {r} \cup Pending(v)
                                 THEN [run[s] EXCEPT !.at = "done",
                                         !.outcome = IF v # visit THEN "dropped" ELSE "error"]
                                 ELSE run[s]]
        /\ client' = [client EXCEPT ![v] = Teardown(client[v])]
    BY <1>2, <2>1 DEF Timeout, End, Typing
  <2>3. RunsStayEnded /\ RunsGetPresentGeneration /\ run'[r].at = "done" /\ run'[r].visit = v
    BY <2>2 DEF Typing, RunType
  <2>4. Teardown(client[v]).gen = client[v].gen + 1 /\ Teardown(client[v]).disposed = client[v].disposed
    BY <2>1 DEF Teardown, ClientType
  <2> HIDE DEF v
  <2>5. GenerationsAreEarned
    BY <2>1, <2>2, <2>3, <2>4 DEF Typing
  <2> QED BY <2>3, <2>5
<1>3. ASSUME NEW v \in Visits, WorkerReady(v) PROVE Earned
  <2>1. RunsStayEnded /\ RunsGetPresentGeneration
    BY <1>3 DEF WorkerReady, Awaiting, Typing, RunType
  <2>2. GenerationsAreEarned
    BY <1>3 DEF WorkerReady, Typing, ClientType
  <2> QED BY <2>1, <2>2
<1>4. ASSUME NEW v \in Visits, BootFails(v) PROVE Earned
  <2>1. RunsStayEnded /\ RunsGetPresentGeneration
    BY <1>4 DEF BootFails, End, Typing, RunType
  <2>2. GenerationsAreEarned
    BY <1>4 DEF BootFails, Typing, ClientType
  <2> QED BY <2>1, <2>2
<1>5. ASSUME NEW v \in Visits, WorkerAnswers(v) PROVE Earned
  <2>1. PICK r \in Pending(v), outcome \in {"ok", "error"} : End({r}, v, outcome)
    BY <1>5 DEF WorkerAnswers
  <2>2. RunsStayEnded /\ RunsGetPresentGeneration
    BY <2>1 DEF End, Typing, RunType
  <2>3. client' = client
    BY <1>5 DEF WorkerAnswers
  <2> QED BY <2>2, <2>3
<1>6. CASE Navigate
  <2>1. visit \in Visits /\ client[visit] \in ClientType /\ ~client[visit].disposed
    BY DEF Typing, Visits, DisposedClientsAreIdle
  <2>2. RunsStayEnded /\ RunsGetPresentGeneration
    BY <1>6 DEF Navigate, Typing, RunType
  <2>3. LET t == [Teardown(client[visit]) EXCEPT !.disposed = TRUE]
        IN t.gen = client[visit].gen + 1 /\ t.disposed
    BY <2>1 DEF Teardown, ClientType
  <2>4. \A v \in Visits :
          client'[v] = IF v = visit /\ client[visit].made
                       THEN [Teardown(client[visit]) EXCEPT !.disposed = TRUE] ELSE client[v]
    BY <1>6 DEF Navigate, Typing
  <2>5. GenerationsAreEarned
    BY <2>1, <2>3, <2>4
  <2> QED BY <2>2, <2>5
<1>7. CASE Reset \/ UNCHANGED vars \/ \E v \in Visits : StageMessage(v)
  BY <1>7 DEF Reset, vars, StageMessage
<1>8. ASSUME NEW v \in Visits, WorkerStalls(v) PROVE Earned
  BY <1>8 DEF WorkerStalls, Typing, ClientType
<1> QED BY <1>1, <1>2, <1>3, <1>4, <1>5, <1>6, <1>7, <1>8 DEF Next

-----------------------------------------------------------------------------
LEMMA BoundedGenerations == PSInv /\ CountInv => TypeOK
<1> SUFFICES ASSUME PSInv, CountInv PROVE TypeOK
  OBVIOUS
<1> USE DEF PSInv
<1>1. \A v \in Visits : client[v].gen \in 0..(MaxRuns + 1)
  <2> TAKE v \in Visits
  <2>1. Cardinality(Ended(v)) \in Nat /\ Cardinality(Ended(v)) =< MaxRuns
    BY SetsOfRuns DEF Ended
  <2>2. client[v].gen \in Nat /\ client[v].gen =< Cardinality(Ended(v)) + 1
    BY <2>1 DEF CountInv, TeardownsAreCounted, Typing, ClientType
  <2> QED BY <2>1, <2>2, BoundsAssumption
<1>2. \A r \in Runs : run[r].gen \in 0..(MaxRuns + 1)
  <2> TAKE r \in Runs
  <2>1. run[r].visit \in Visits /\ run[r].gen \in Nat
    BY DEF Typing, RunType
  <2>2. run[r].gen =< client[run[r].visit].gen
    BY DEF CountInv, RunsAreOfPastGenerations
  <2> QED BY <1>1, <2>1, <2>2, BoundsAssumption
<1>3. client \in [Visits -> [made : BOOLEAN,
                             worker : {"none", "booting", "up", "broken", "silent"},
                             ready : {"none", "pending", "ok", "failed"},
                             gen : 0..(MaxRuns + 1), disposed : BOOLEAN]]
  BY <1>1 DEF Typing, ClientType
<1>4. run \in [Runs -> [at : {"unused", "pageBoot", "boot", "sent", "done"}, visit : Visits,
                        gen : 0..(MaxRuns + 1), outcome : {"none", "ok", "error", "dropped"}]]
  BY <1>2 DEF Typing, RunType
<1> QED BY <1>3, <1>4 DEF Typing, TypeOK

\* No run waits for a worker that is gone, and no page says that it runs something
\* when nothing runs; with the bound that the number of runs puts on the generations.
THEOREM NobodyWaits == Spec => []NobodyWaitsInVain
<1>1. Init => BusyInv /\ CountInv
  <2>1. Init => CountInv
    <3> SUFFICES ASSUME Init PROVE CountInv
      OBVIOUS
    <3>1. \A v \in Visits : Cardinality(Ended(v)) \in Nat
      BY SetsOfRuns DEF Ended
    <3> QED BY <3>1, BoundsAssumption DEF Init, NoClient, NoRun, CountInv, TeardownsAreCounted,
              RunsAreOfPastGenerations, Visits
  <2> QED BY <2>1, InitBusyInv
<1>2. PSInv /\ PSInv' /\ BusyInv /\ CountInv /\ [Next]_vars => BusyInv' /\ CountInv'
  <2> SUFFICES ASSUME PSInv, PSInv', BusyInv, CountInv, [Next]_vars PROVE BusyInv' /\ CountInv'
    OBVIOUS
  <2>1. CountInv'
    <3>1. Typing /\ Typing'
      BY DEF PSInv
    <3> QED BY <3>1, StepsEarnGenerations, EarnedGenerationsAreCounted
  <2>2. ASSUME NEW r \in Runs, Press(r) PROVE BusyInv'
    BY <2>2, PressKeepsBusyInv
  <2>3. ASSUME NEW r \in Runs, Timeout(r) PROVE BusyInv'
    BY <2>3, TimeoutKeepsBusyInv
  <2>4. ASSUME NEW v \in Visits, WorkerReady(v) PROVE BusyInv'
    BY <2>4, WorkerReadyKeepsBusyInv
  <2>5. ASSUME NEW v \in Visits, BootFails(v) PROVE BusyInv'
    BY <2>5, BootFailsKeepsBusyInv
  <2>6. ASSUME NEW v \in Visits, WorkerAnswers(v) PROVE BusyInv'
    BY <2>6, WorkerAnswersKeepsBusyInv
  <2>7. CASE Navigate
    BY <2>1, <2>7, NavigateKeepsBusyInv
  <2>8. CASE \/ Reset \/ UNCHANGED vars
             \/ \E v \in Visits : StageMessage(v) \/ WorkerStalls(v)
    BY <2>1, <2>8, OtherStepsKeepBusyInv
  <2>9. BusyInv'
    BY <2>2, <2>3, <2>4, <2>5, <2>6, <2>7, <2>8 DEF Next
  <2> QED BY <2>1, <2>9
<1>3. PSInv /\ BusyInv /\ CountInv => NobodyWaitsInVain
  BY BoundedGenerations DEF PSInv, BusyInv, NobodyWaitsInVain
<1> QED BY <1>1, <1>2, <1>3, PysparkInvariant, PTL DEF Spec

===============================================================================
