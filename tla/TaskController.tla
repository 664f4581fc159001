---------------------------- MODULE TaskController ----------------------------
(***************************************************************************)
(* The task automation under scripts/automation: the runner's lock file,   *)
(* its state file, the roadmap loop with its agents, and what a restart    *)
(* makes of a state file a killed controller left behind.  Each write of a *)
(* file is one step, and a process may be killed between any two; a write  *)
(* itself is atomic (Write-JsonFileAtomic).  Agents and quality gates are  *)
(* external: they answer anything.                                         *)
(***************************************************************************)
EXTENDS Naturals, Sequences, FiniteSets

CONSTANTS Procs,         \* controllers, launchers and operator commands
          Roadmap,       \* the tasks, in the order of roadmap.json
          DependsOn,     \* DependsOn[t]: the tasks t depends on
          Named,         \* the tasks an operator may start the runner with
          MaxAttempts,   \* maxAttemptsPerTask
          MaxRecoveries, \* recoveryInvocationsPerFailure
          MaxStarts,     \* a bound: the processes that are ever started
          None, Dead     \* no value; the owner of a lock who is not running

ASSUME AttemptsAssumption == MaxAttempts \in Nat \ {0} /\ MaxRecoveries \in Nat

Tasks == {Roadmap[i] : i \in DOMAIN Roadmap}

ASSUME RoadmapAssumption == Roadmap \in Seq(Tasks) /\ Named \subseteq Tasks
ASSUME StartsAssumption == MaxStarts \in Nat

VARIABLES starts,    \* how many processes were started
          lock,      \* the lock file: its owner, and whether it is written
          disk,      \* state.json
          ctl,       \* ctl[p]: where process p is, and what it holds in memory
          inflight,  \* history: the task whose attempt has no outcome yet
          refused,   \* history: the agent of that attempt has answered BLOCKED
          own,       \* history: an agent of that task has reported a session
          proved,    \* history: the tasks an agent passed and the gates passed
          exclusive  \* history: nobody has written over another process yet

vars == <<starts, lock, disk, ctl, inflight, refused, own, proved, exclusive>>
history == <<inflight, refused, own, proved, exclusive>>

-----------------------------------------------------------------------------
Statuses == {"idle", "running", "verifying", "recovering", "interrupted",
             "blocked", "failed", "error", "complete"}
Results == {"PASS", "FAIL", "BLOCKED"}
ASSUME NamesAssumption == None \notin Tasks \cup Results \cup Procs /\ Dead \notin Procs

\* A session is named after the task it was started for.  failedTaskIds and
\* the checkpoints are left out: nothing is decided by them.
States == [status : Statuses, task : Tasks \cup {None}, attempt : 0..MaxAttempts,
           result : Results \cup {None}, verified : BOOLEAN,
           durable : Tasks \cup {None}, last : Tasks \cup {None},
           completed : SUBSET Tasks]

NewState == [status |-> "idle", task |-> None, attempt |-> 0, result |-> None,
             verified |-> FALSE, durable |-> None, last |-> None, completed |-> {}]

NoLock == [owner |-> None, ready |-> FALSE]

\* What Get-InterruptedRun reports: whether to resume, which task, and how.
NoPlan == [on |-> FALSE, task |-> None, attempt |-> 0, session |-> None]

Off == [pc |-> "off", only |-> None, mem |-> NewState, plan |-> NoPlan,
        uses |-> 0, run |-> None]

Inside == {"enter", "pick", "preflight", "agent", "detach", "postflight", "verify",
           "complete", "retry", "recovery", "next", "stop", "exit"}

TypeOK ==
  /\ starts \in 0..MaxStarts
  /\ lock \in [owner : Procs \cup {None, Dead}, ready : BOOLEAN]
  /\ disk \in States
  /\ ctl \in [Procs ->
       [pc : Inside \cup {"off", "check", "inspect", "look", "create", "judge", "remove",
                          "again", "fill", "repair", "mend", "reset", "clear"},
        only : Tasks \cup {None}, mem : States,
        plan : [on : BOOLEAN, task : Tasks \cup {None}, attempt : 0..MaxAttempts,
                session : Tasks \cup {None}],
        uses : 0..MaxRecoveries, run : Results \cup {None}]]
  /\ inflight \in Tasks \cup {None}
  /\ refused \in BOOLEAN
  /\ own \in BOOLEAN
  /\ proved \subseteq Tasks
  /\ exclusive \in BOOLEAN

Init ==
  /\ starts = 0
  /\ lock = NoLock
  /\ disk = NewState
  /\ ctl = [p \in Procs |-> Off]
  /\ inflight = None /\ refused = FALSE /\ own = FALSE /\ proved = {} /\ exclusive = TRUE

-----------------------------------------------------------------------------
\* What the files say.

\* Test-LockStale.  A lock that is still being written cannot be read, and an
\* unreadable lock counts as stale.
IsStale(l) == l.owner \in {None, Dead} \/ ~l.ready

\* Test-ControllerActive, asked by p.
IsActive(p) == lock.owner # p /\ ~IsStale(lock)

\* A file that is open without sharing cannot be removed.
IsOpen(l) == l.owner \in Procs /\ ~l.ready

SessionOf(s) == IF s.durable # None THEN s.durable ELSE s.last

InFlightStatusesButRecovering == {"running", "interrupted", "verifying"}
InFlightStatuses == {"running", "interrupted", "recovering", "verifying"}

\* Get-InterruptedRun, rules B to D, where no other controller is active.
IsArtifact(s) == s.result = None /\ ~s.verified /\ SessionOf(s) # None
IsInterrupted(s) ==
  /\ s.task \notin s.completed
  /\ s.status \in InFlightStatuses \/ (s.status = "blocked" /\ IsArtifact(s))
IsGenuinelyBlocked(s) ==
  s.task \notin s.completed /\ s.status = "blocked" /\ ~IsArtifact(s)

PlanFor(s) ==
  IF IsInterrupted(s)
  THEN [on |-> TRUE, task |-> s.task, attempt |-> s.attempt, session |-> SessionOf(s)]
  ELSE NoPlan

IsComplete(s) == Tasks \subseteq s.completed

\* Select-NextTask: a task that failed is not skipped.
IsReady(s, t) == t \notin s.completed /\ DependsOn[t] \subseteq s.completed
NextTask(s) ==
  IF \E t \in Tasks : IsReady(s, t)
  THEN Roadmap[CHOOSE i \in DOMAIN Roadmap :
                 IsReady(s, Roadmap[i]) /\ \A j \in 1..(i - 1) : ~IsReady(s, Roadmap[j])]
  ELSE None

-----------------------------------------------------------------------------
\* Steps of a process.
At(p, pc) == ctl[p].pc = pc
Goto(p, pc) == ctl' = [ctl EXCEPT ![p].pc = pc]
Ends(p) == ctl' = [ctl EXCEPT ![p] = Off]

\* p writes its state to the file and goes on with the record c.
Saves(p, s, c) ==
  /\ disk' = s
  /\ ctl' = [ctl EXCEPT ![p] = [c EXCEPT !.mem = s]]

Start(p) ==
  /\ At(p, "off") /\ starts < MaxStarts
  /\ starts' = starts + 1
  /\ \/ \E t \in Named \cup {None} :
          ctl' = [ctl EXCEPT ![p] = [Off EXCEPT !.pc = "look", !.only = t]]
     \/ \E t \in Tasks :
          ctl' = [ctl EXCEPT ![p] = [Off EXCEPT !.pc = "repair", !.only = t]]
     \/ Goto(p, "check")
     \/ Goto(p, "reset")
  /\ UNCHANGED <<lock, disk, history>>

\* recovery-launcher.ps1 leaves a live controller, a finished roadmap and a
\* genuine block alone.
Check(p) ==
  /\ At(p, "check")
  /\ IF IsActive(p) THEN Ends(p) ELSE Goto(p, "inspect")
  /\ UNCHANGED <<lock, disk, history>>

Inspect(p) ==
  /\ At(p, "inspect")
  /\ IF IsComplete(disk) \/ IsGenuinelyBlocked(disk) THEN Ends(p) ELSE Goto(p, "look")
  /\ UNCHANGED <<lock, disk, history>>

\* autonomous-runner.ps1 looks at the lock before it tries to take it.
Look(p) ==
  /\ At(p, "look")
  /\ IF IsStale(lock) THEN Goto(p, "create") ELSE Ends(p)
  /\ UNCHANGED <<lock, disk, history>>

\* Enter-RunnerLock: FileMode.CreateNew succeeds where there is no file.
MayCreateAnyway == TRUE
MayCreate == lock.owner = None
Create(p) ==
  /\ At(p, "create") \/ At(p, "again")
  /\ MayCreate
  /\ lock' = [owner |-> p, ready |-> FALSE]
  /\ Goto(p, "fill")
  /\ UNCHANGED <<disk, history>>

\* Otherwise the first attempt judges the lock; the second one gives up.
CreateFails(p) ==
  /\ ~MayCreate
  /\ \/ At(p, "create") /\ Goto(p, "judge")
     \/ At(p, "again") /\ Ends(p)
  /\ UNCHANGED <<lock, disk, history>>

Judge(p) ==
  /\ At(p, "judge")
  /\ IF IsStale(lock) THEN Goto(p, "remove") ELSE Ends(p)
  /\ UNCHANGED <<lock, disk, history>>

\* The lock that is removed need not be the one that was judged.
Removed == IF IsOpen(lock) THEN lock ELSE NoLock
Robs == lock.owner \in Procs /\ ~IsOpen(lock)

Remove(p) ==
  /\ At(p, "remove")
  /\ lock' = Removed
  /\ exclusive' = (exclusive /\ ~Robs)
  /\ Goto(p, "again")
  /\ UNCHANGED <<disk, inflight, refused, own, proved>>

Fill(p) ==
  /\ At(p, "fill")
  /\ lock' = [lock EXCEPT !.ready = TRUE]
  /\ Goto(p, "enter")
  /\ UNCHANGED <<disk, history>>

\* -ResetLock.
Reset(p) ==
  /\ At(p, "reset")
  /\ IF lock # NoLock /\ IsStale(lock) THEN Goto(p, "clear") ELSE Ends(p)
  /\ UNCHANGED <<lock, disk, history>>

Clear(p) ==
  /\ At(p, "clear")
  /\ lock' = Removed
  /\ exclusive' = (exclusive /\ ~Robs)
  /\ Ends(p)
  /\ UNCHANGED <<disk, inflight, refused, own, proved>>

-----------------------------------------------------------------------------
\* The controller.  A finished roadmap is left alone; a run that was cut
\* short is marked as interrupted, without its old result.
Enter(p) ==
  /\ At(p, "enter")
  /\ LET c == ctl[p] IN
     IF IsComplete(disk) /\ c.only = None
     THEN Saves(p, [disk EXCEPT !.status = "complete", !.task = None],
                [c EXCEPT !.pc = "exit"])
     ELSE IF IsInterrupted(disk)
     THEN Saves(p, [disk EXCEPT !.status = "interrupted", !.result = None],
                [c EXCEPT !.pc = "pick", !.plan = PlanFor(disk)])
     ELSE Saves(p, disk, [c EXCEPT !.pc = "pick"])
  /\ UNCHANGED <<lock, history>>

\* An interrupted task goes first, unless the operator named one.
TaskOf(c) ==
  CASE c.only # None -> c.only
    [] c.only = None /\ c.plan.on /\ c.plan.task # None -> c.plan.task
    [] OTHER -> NextTask(c.mem)

NothingLeft(p) ==
  /\ At(p, "pick")
  /\ LET c == ctl[p] IN
     \/ /\ TaskOf(c) = None
        /\ Saves(p, [c.mem EXCEPT !.status = "complete", !.task = None], [c EXCEPT !.pc = "exit"])
     \/ /\ c.only # None /\ c.only \in c.mem.completed
        /\ Goto(p, "exit") /\ UNCHANGED disk
  /\ UNCHANGED <<lock, history>>

\* -DryRun and -MaxTasks end the loop between two tasks.
Leave(p) ==
  /\ At(p, "pick")
  /\ Goto(p, "exit")
  /\ UNCHANGED <<lock, disk, history>>

\* An attempt begins: from here to its outcome the task is in flight.
Begun(s, t, n) == [s EXCEPT !.task = t, !.attempt = n, !.status = "running"]
Begins(p, t, n, c) ==
  /\ Saves(p, Begun(c.mem, t, n), [c EXCEPT !.pc = "preflight", !.run = None])
  /\ inflight' = t /\ refused' = FALSE
  /\ own' = (own /\ inflight = t)
  /\ UNCHANGED <<lock, proved, exclusive>>

\* An interrupted run goes on with its own attempt number.
FirstAttempt(plan) == IF plan.on /\ plan.attempt > 1 THEN plan.attempt ELSE 1

Pick(p) ==
  /\ At(p, "pick")
  /\ TaskOf(ctl[p]) \in Tasks \ ctl[p].mem.completed
  /\ Begins(p, TaskOf(ctl[p]), FirstAttempt(ctl[p].plan), [ctl[p] EXCEPT !.uses = 0])

\* An attempt ends before it is judged: by a guard, in either flight.
Blocks(p) ==
  /\ Saves(p, [ctl[p].mem EXCEPT !.status = "blocked"],
           [ctl[p] EXCEPT !.pc = "stop", !.run = "BLOCKED"])
  /\ inflight' = None /\ own' = FALSE
  /\ UNCHANGED <<lock, refused, proved, exclusive>>

Preflight(p) ==
  /\ At(p, "preflight")
  /\ \/ Goto(p, "agent") /\ UNCHANGED <<lock, disk, history>>
     \/ Blocks(p)

\* The agent answers.  s is the session it reports, if any; a session that is
\* to be continued reports itself, or does not attach.
Reported(s, session) ==
  [s EXCEPT !.last = session, !.durable = IF session = None THEN @ ELSE session]

Agent(p) ==
  /\ At(p, "agent")
  /\ LET c == ctl[p]
         resumed == IF c.plan.on THEN c.plan.session ELSE None IN
     \/ \E r \in Results, session \in {None, c.mem.task, resumed} :
          /\ resumed = None \/ session = resumed \/ (session = None /\ r = "FAIL")
          /\ Saves(p, Reported(c.mem, session), [c EXCEPT !.pc = "postflight", !.run = r])
          /\ own' = (own \/ (session # None /\ session = c.mem.task))
     \/ \E session \in {c.mem.task, resumed} :
          /\ resumed # None
          /\ Saves(p, Reported(c.mem, session), [c EXCEPT !.pc = "detach"])
          /\ UNCHANGED own
  /\ UNCHANGED <<lock, inflight, refused, proved, exclusive>>

\* A session that did not attach is dropped, and a fresh one is briefed.
Detach(p) ==
  /\ At(p, "detach")
  /\ LET c == ctl[p] IN
     Saves(p, [c.mem EXCEPT !.durable = None],
           [c EXCEPT !.pc = "agent",
                     !.plan = [on |-> TRUE, task |-> c.mem.task, attempt |-> c.mem.attempt,
                               session |-> None]])
  /\ UNCHANGED <<lock, history>>

\* The guard reads the agent's output; only PASS is verified.
Judged(s, effective, verified) == [s EXCEPT !.result = effective, !.verified = verified]

Postflight(p) ==
  /\ At(p, "postflight")
  /\ LET c == ctl[p] IN
     \/ Blocks(p)
     \/ /\ c.run = "PASS"
        /\ Saves(p, [c.mem EXCEPT !.status = "verifying"], [c EXCEPT !.pc = "verify"])
        /\ UNCHANGED <<lock, history>>
     \/ /\ c.run # "PASS"
        /\ Saves(p, Judged(c.mem, c.run, FALSE),
                 [c EXCEPT !.pc = IF c.run = "BLOCKED" THEN "stop" ELSE "retry"])
        /\ refused' = (c.run = "BLOCKED")
        /\ UNCHANGED <<lock, inflight, own, proved, exclusive>>

\* The gates win over the agent.
EffectiveByAgent(passed) == "PASS"
Effective(passed) == IF passed THEN "PASS" ELSE "FAIL"

Verify(p) ==
  /\ At(p, "verify")
  /\ \E passed \in BOOLEAN :
       /\ Saves(p, Judged(ctl[p].mem, Effective(passed), TRUE),
                [ctl[p] EXCEPT !.pc = IF Effective(passed) = "PASS" THEN "complete" ELSE "retry",
                               !.run = Effective(passed)])
       /\ proved' = IF passed THEN proved \cup {ctl[p].mem.task} ELSE proved
  /\ UNCHANGED <<lock, inflight, refused, own, exclusive>>

CompletedOf(s) == s.completed \cup {s.task}
Complete(p) ==
  /\ At(p, "complete")
  /\ LET c == ctl[p] IN
     Saves(p, [c.mem EXCEPT !.completed = CompletedOf(c.mem), !.status = "idle",
                            !.task = None, !.attempt = 0],
           [c EXCEPT !.pc = IF c.only = None THEN "pick" ELSE "exit", !.plan = NoPlan,
                     !.run = None])
  /\ inflight' = None /\ own' = FALSE
  /\ UNCHANGED <<lock, refused, proved, exclusive>>

\* A failed attempt: one agent may look into it, then the task runs again.
HasAttempt(n) == n < MaxAttempts
Retry(p) ==
  /\ At(p, "retry")
  /\ LET c == ctl[p] IN
     IF c.uses < MaxRecoveries
     THEN Saves(p, [c.mem EXCEPT !.status = "recovering"],
                [c EXCEPT !.pc = "recovery", !.uses = @ + 1])
     ELSE Goto(p, "stop") /\ UNCHANGED disk
  /\ UNCHANGED <<lock, history>>

\* It reports a session of its own, or is never started.
Recovery(p) ==
  /\ At(p, "recovery")
  /\ LET c == ctl[p] IN
     \E session \in {None, c.mem.task, c.mem.last} :
       LET s == [c.mem EXCEPT !.last = session] IN
       \/ Saves(p, s, [c EXCEPT !.pc = "stop", !.run = "BLOCKED"])
       \/ Saves(p, s, [c EXCEPT !.pc = "next"])
  /\ UNCHANGED <<lock, history>>

NextAttemptSame(n) == n
NextAttempt(n) == n + 1
Again(p) ==
  /\ At(p, "next")
  /\ LET c == ctl[p] IN
     \/ /\ HasAttempt(c.mem.attempt)
        /\ Begins(p, c.mem.task, NextAttempt(c.mem.attempt), c)
     \/ /\ ~HasAttempt(c.mem.attempt)
        /\ ctl' = [ctl EXCEPT ![p].pc = "stop", ![p].run = "FAIL"]
        /\ UNCHANGED <<lock, disk, history>>

\* The controller stops, and records why.
Stop(p) ==
  /\ At(p, "stop")
  /\ LET c == ctl[p] IN
     Saves(p, [c.mem EXCEPT !.status = IF c.run = "BLOCKED" THEN "blocked" ELSE "failed",
                            !.result = c.run],
           [c EXCEPT !.pc = "exit"])
  /\ inflight' = None /\ own' = FALSE
  /\ UNCHANGED <<lock, refused, proved, exclusive>>

\* Whatever throws is caught and recorded over the state file as it is.
Throw(p) ==
  /\ ctl[p].pc \in Inside \ {"exit"}
  /\ Saves(p, [disk EXCEPT !.status = "error"], [ctl[p] EXCEPT !.pc = "exit"])
  /\ inflight' = None /\ own' = FALSE
  /\ UNCHANGED <<lock, refused, proved, exclusive>>

\* Exit-RunnerLock removes the lock of its own process.
Exit(p) ==
  /\ At(p, "exit")
  /\ lock' = IF lock.owner = p THEN NoLock ELSE lock
  /\ Ends(p)
  /\ UNCHANGED <<disk, history>>

-----------------------------------------------------------------------------
\* recover-task.ps1 -RecoverInterrupted, by hand.
Refuses(p) ==
  \/ IsActive(p)
  \/ ctl[p].only \in disk.completed
  \/ IsGenuinelyBlocked(disk)
  \/ disk.task \notin {None, ctl[p].only}

Repair(p) ==
  /\ At(p, "repair")
  /\ IF Refuses(p) THEN Ends(p)
     ELSE ctl' = [ctl EXCEPT ![p].pc = "mend", ![p].mem = disk]
  /\ UNCHANGED <<lock, disk, history>>

\* It writes over whatever became of the file since it was read.
Mend(p) ==
  /\ At(p, "mend")
  /\ disk' = [ctl[p].mem EXCEPT !.status = "interrupted", !.task = ctl[p].only,
                                !.durable = SessionOf(ctl[p].mem), !.result = None]
  /\ exclusive' = (exclusive /\ disk = ctl[p].mem /\ \A q \in Procs : ctl[q].pc \notin Inside)
  /\ inflight' = ctl[p].only /\ refused' = FALSE
  /\ own' = (own /\ inflight = ctl[p].only)
  /\ Ends(p)
  /\ UNCHANGED <<lock, proved>>

\* A closed window, a reboot, a power loss.
Crash(p) ==
  /\ ~At(p, "off")
  /\ lock' = IF lock.owner = p THEN [lock EXCEPT !.owner = Dead] ELSE lock
  /\ Ends(p)
  /\ UNCHANGED <<disk, history>>

-----------------------------------------------------------------------------
Takes(p) == Check(p) \/ Inspect(p) \/ Look(p) \/ Create(p) \/ CreateFails(p) \/ Judge(p)
            \/ Remove(p) \/ Fill(p) \/ Reset(p) \/ Clear(p) \/ Repair(p) \/ Mend(p)
Works(p) == Enter(p) \/ NothingLeft(p) \/ Pick(p) \/ Preflight(p) \/ Agent(p) \/ Detach(p)
            \/ Postflight(p) \/ Verify(p) \/ Complete(p) \/ Retry(p) \/ Recovery(p)
            \/ Again(p) \/ Leave(p) \/ Stop(p) \/ Throw(p) \/ Exit(p)

\* Once two processes have written over each other the model follows the
\* files no further.
Next ==
  exclusive /\ \E p \in Procs :
                  Start(p) \/ ((Takes(p) \/ Works(p) \/ Crash(p)) /\ UNCHANGED starts)

Spec == Init /\ [][Next]_vars

-----------------------------------------------------------------------------
\* As long as no live owner's lock was removed and no operator wrote over a
\* running controller, a controller that works on the state file holds the
\* lock, so there is one of them: whoever starts, is killed, or reclaims a
\* lock at the same time.  The two ways out are where the code's check and
\* its act are apart.
WorkersHoldTheLock ==
  exclusive => \A p \in Procs : ctl[p].pc \in Inside => lock = [owner |-> p, ready |-> TRUE]

\* One controller at a time.
ControllersAreExclusive == TypeOK /\ WorkersHoldTheLock

\* A task comes to count as completed only if in some attempt its agent said
\* PASS and the gates passed, over all kills, resumptions and repairs: no
\* checkpoint and no status is taken for a result.  And no controller, and no
\* process that starts or is killed, takes a completed task off the record.
CompletionIsEarned ==
  [][/\ disk'.completed \subseteq proved'
     /\ exclusive' => disk.completed \subseteq disk'.completed]_<<disk, proved>>

\* If nobody is at work and the last attempt has no outcome, the next start
\* recognises it from the file alone and resumes that very task: wherever
\* between two writes the controller was killed, a task is never skipped.
InterruptedIsFound ==
  exclusive /\ inflight # None /\ (\A p \in Procs : ctl[p].pc \notin Inside) =>
    PlanFor(disk).on /\ PlanFor(disk).task = inflight

\* A blocked state that is taken for an artifact of an interruption, and so
\* resumed, never hides an agent's own BLOCKED.
ArtifactsHideNoVerdict ==
  exclusive /\ disk.status = "blocked" /\ IsInterrupted(disk) => ~refused

\* Once an agent of the task in flight has reported a session, a restart does
\* not continue the session of another task.
OwnSessionIsResumed ==
  exclusive /\ own /\ PlanFor(disk).on => PlanFor(disk).session \in {None, inflight}

\* A restart resumes what was cut short: that task, that session, and nothing
\* that was answered.
RestartsResumeTheirTask == InterruptedIsFound /\ ArtifactsHideNoVerdict /\ OwnSessionIsResumed

\* What a working controller has left to do: tasks, then attempts, then the
\* stages of an attempt, of which a session that does not attach costs two.
StageOf(c) ==
  CASE c.pc = "pick" -> 10 * MaxAttempts
    [] c.pc = "preflight" -> 9
    [] c.pc = "agent" -> IF c.plan.on /\ c.plan.session # None THEN 8 ELSE 6
    [] c.pc = "detach" -> 7
    [] c.pc = "postflight" -> 5
    [] c.pc = "verify" -> 4
    [] c.pc = "retry" -> 3
    [] c.pc = "recovery" -> 2
    [] c.pc = "next" -> 1
    [] OTHER -> 0
Left(c) ==
  CASE c.pc = "enter" -> 10 * (MaxAttempts + 1) * (Cardinality(Tasks) + 1)
    [] c.pc = "exit" -> 0
    [] OTHER -> 10 * (MaxAttempts + 1) * Cardinality(Tasks \ c.mem.completed)
                + (IF c.pc = "pick" THEN 0 ELSE 10 * (MaxAttempts - c.mem.attempt)) + StageOf(c)

\* Every step brings a working controller closer to its end, whatever its
\* agents and gates answer and wherever it was resumed: retries are bounded,
\* and a session that does not attach is not tried for ever.
RetriesRunOut ==
  [][\A p \in Procs : ctl[p].pc \in Inside /\ ctl'[p] # ctl[p] /\ ctl'[p].pc \in Inside =>
       Left(ctl'[p]) < Left(ctl[p])]_vars
===============================================================================
