------------------------- MODULE TaskControllerProofs -------------------------
(***************************************************************************)
(* Proofs about TaskController, for any processes, roadmap and limits: one *)
(* controller at a time, restarts that resume the task that was cut short, *)
(* completions that were earned, and retries that run out.                 *)
(***************************************************************************)
EXTENDS TaskController, FiniteSetTheorems, TLAPS

Pcs == Inside \cup {"off", "check", "inspect", "look", "create", "judge", "remove",
                    "again", "fill", "repair", "mend", "reset", "clear"}

Plans == [on : BOOLEAN, task : Tasks \cup {None}, attempt : 0..MaxAttempts,
          session : Tasks \cup {None}]

Ctls == [pc : Pcs, only : Tasks \cup {None}, mem : States, plan : Plans,
         uses : 0..MaxRecoveries, run : Results \cup {None}]

\* Where a task is being attempted, and its attempt is judged.
Attempting == {"preflight", "agent", "detach", "postflight", "verify", "complete", "retry",
               "recovery", "next"}
BeforeVerdict == {"preflight", "agent", "detach", "postflight"}

\* Who works holds the lock; who holds it works, or is about to.
LockFits ==
  \A p \in Procs :
    /\ ctl[p].pc = "fill" => lock = [owner |-> p, ready |-> FALSE]
    /\ ctl[p].pc \in Inside => lock = [owner |-> p, ready |-> TRUE]
    /\ lock.owner = p => ctl[p].pc \in Inside \cup {"fill"}

\* What counts as completed was proved, in the file and in every memory.
Earned ==
  /\ disk.completed \subseteq proved
  /\ \A p \in Procs : /\ ctl[p].mem.completed \subseteq proved
                      /\ ctl[p].pc = "complete" => ctl[p].mem.task \in proved

\* What the file s says of the task t in flight, whose agent has refused (r) or
\* has reported a session of its own (o).
DiskFits(s, t, r, o) ==
  /\ t # None => s.task = t /\ t \notin s.completed /\ s.status \in InFlightStatuses
  /\ s.status = "blocked" /\ s.result = None => ~r
  /\ o => t # None /\ SessionOf(s) \in {None, t}

\* What a process c holds in memory, beside such a file.
MemoryFits(c, s, t, r, o) ==
  /\ c.pc \in Inside \ {"enter"} => c.mem = s
  /\ c.pc \in Attempting => t # None
  /\ c.pc \in Attempting \cup {"stop"} => c.mem.task \in Tasks \ c.mem.completed
  /\ c.pc = "pick" /\ t # None => c.plan.on /\ c.plan.task = t
  /\ c.pc \in BeforeVerdict => ~r
  /\ o /\ c.pc \in Attempting \cup {"pick"} /\ c.plan.on => c.plan.session \in {None, t}
  /\ o /\ c.pc = "detach" => c.mem.last \in {None, t}
  /\ c.pc = "mend" => c.only \notin c.mem.completed /\ c.mem.task \in {None, c.only}

AllFit ==
  /\ LockFits
  /\ DiskFits(disk, inflight, refused, own)
  /\ \A p \in Procs : MemoryFits(ctl[p], disk, inflight, refused, own)

TCInv == TypeOK /\ Earned /\ (exclusive => AllFit)

-------------------------------------------------------------------------------
LEMMA Typed ==
  TypeOK <=> /\ starts \in 0..MaxStarts
             /\ lock \in [owner : Procs \cup {None, Dead}, ready : BOOLEAN]
             /\ disk \in States
             /\ ctl \in [Procs -> Ctls]
             /\ inflight \in Tasks \cup {None}
             /\ refused \in BOOLEAN /\ own \in BOOLEAN /\ exclusive \in BOOLEAN
             /\ proved \subseteq Tasks
BY DEF TypeOK, Ctls, Pcs, Plans

LEMMA NewStateType == NewState \in States
BY AttemptsAssumption DEF NewState, States, Statuses

LEMMA NoPlanType == NoPlan \in Plans
BY AttemptsAssumption DEF NoPlan, Plans

LEMMA OffType == Off \in Ctls /\ Off.pc = "off" /\ Off.mem.completed = {}
BY NewStateType, NoPlanType, AttemptsAssumption DEF Off, Ctls, Pcs, NewState

LEMMA InitTCInv == Init => TCInv
<1> SUFFICES ASSUME Init PROVE TCInv
  OBVIOUS
<1>1. TypeOK
  <2>1. starts \in 0..MaxStarts
    BY StartsAssumption DEF Init
  <2>2. lock \in [owner : Procs \cup {None, Dead}, ready : BOOLEAN]
    BY DEF Init, NoLock
  <2>3. ctl \in [Procs -> Ctls]
    BY OffType DEF Init
  <2> QED BY <2>1, <2>2, <2>3, NewStateType, Typed DEF Init
<1>2. \A p \in Procs : ctl[p] = Off
  BY DEF Init
<1>3. Earned
  BY <1>2, OffType DEF Init, Earned, NewState
<1>4. LockFits
  BY <1>2, OffType, NamesAssumption DEF Init, LockFits, Inside, NoLock
<1>5. DiskFits(disk, inflight, refused, own)
  BY DEF Init, DiskFits
<1>6. \A p \in Procs : MemoryFits(ctl[p], disk, inflight, refused, own)
  BY <1>2, OffType DEF MemoryFits, Inside, Attempting, BeforeVerdict
<1> QED BY <1>1, <1>3, <1>4, <1>5, <1>6 DEF TCInv, AllFit

-------------------------------------------------------------------------------
\* A process that works is the only one, and fits the files.
LEMMA Working ==
  ASSUME TCInv, exclusive, NEW p \in Procs
  PROVE  /\ ctl[p] \in Ctls /\ ctl \in [Procs -> Ctls]
         /\ MemoryFits(ctl[p], disk, inflight, refused, own)
         /\ DiskFits(disk, inflight, refused, own)
         /\ ctl[p].pc \in Inside => \A q \in Procs \ {p} : ctl[q].pc \notin Inside \cup {"fill"}
  BY Typed DEF TCInv, AllFit, LockFits

\* A worker's step: it keeps its lock and writes at most the file, and what it
\* holds afterwards is up to the action.
LEMMA WorkerStep ==
  ASSUME TCInv, exclusive, NEW p \in Procs, ctl[p].pc \in Inside,
         NEW c \in Ctls, c.pc \in Inside, ctl' = [ctl EXCEPT ![p] = c],
         UNCHANGED <<starts, lock, exclusive>>,
         disk' \in States, inflight' \in Tasks \cup {None}, refused' \in BOOLEAN,
         own' \in BOOLEAN, proved' \subseteq Tasks, proved \subseteq proved',
         disk'.completed \subseteq proved', c.mem.completed \subseteq proved',
         c.pc = "complete" => c.mem.task \in proved',
         DiskFits(disk', inflight', refused', own'),
         MemoryFits(c, disk', inflight', refused', own')
  PROVE  TCInv'
<1>1. /\ ctl'[p] = c /\ \A q \in Procs \ {p} : ctl'[q] = ctl[q]
      /\ \A q \in Procs \ {p} : ctl[q].pc \notin Inside \cup {"fill"}
  BY Working
<1>2. TypeOK'
  BY Typed DEF TCInv, TypeOK, Ctls, Pcs, Plans
<1>3. Earned'
  BY <1>1 DEF TCInv, Earned
<1>4. LockFits'
  <2>1. LockFits
    BY DEF TCInv, AllFit
  <2>2. lock = [owner |-> p, ready |-> TRUE] /\ lock' = lock
    BY <2>1 DEF LockFits
  <2> HIDE DEF Inside
  <2>3. \A q \in Procs \ {p} : /\ ctl'[q].pc \notin Inside \cup {"fill"}
                               /\ lock'.owner # q
    BY <1>1, <2>2
  <2>4. c.pc # "fill"
    BY DEF Inside
  <2> QED BY <1>1, <2>2, <2>3, <2>4 DEF LockFits
<1>5. ASSUME NEW q \in Procs \ {p}
      PROVE  MemoryFits(ctl[q], disk', inflight', refused', own')
  <2>1. MemoryFits(ctl[q], disk, inflight, refused, own)
    BY Working
  <2> QED BY <1>1, <2>1 DEF MemoryFits, Inside, Attempting, BeforeVerdict
<1>6. (\A q \in Procs : MemoryFits(ctl[q], disk, inflight, refused, own))'
  <2>1. \A q \in Procs : MemoryFits(ctl'[q], disk', inflight', refused', own')
    BY <1>1, <1>5
  <2> QED BY <2>1 DEF MemoryFits
<1>7. DiskFits(disk, inflight, refused, own)'
  BY DEF DiskFits
<1> QED BY <1>2, <1>3, <1>4, <1>6, <1>7 DEF TCInv, AllFit


\* Any other step of a process: it leaves what the files say of tasks alone.
LEMMA TakerStep ==
  ASSUME TCInv, exclusive, NEW p \in Procs,
         NEW c \in Ctls, ctl' = [ctl EXCEPT ![p] = c],
         c.pc \notin Inside \ {"enter"},
         c.pc = "mend" => c.only \notin c.mem.completed /\ c.mem.task \in {None, c.only},
         c.mem.completed \subseteq proved,
         UNCHANGED <<disk, inflight, refused, own, proved>>,
         starts' \in 0..MaxStarts, exclusive' \in BOOLEAN,
         lock' \in [owner : Procs \cup {None, Dead}, ready : BOOLEAN],
         exclusive' => LockFits'
  PROVE  TCInv'
<1>1. ctl'[p] = c /\ \A q \in Procs \ {p} : ctl'[q] = ctl[q]
  BY Working
<1>2. TypeOK'
  BY Typed DEF TCInv, TypeOK, Ctls, Pcs, Plans
<1>3. c.pc # "complete" /\ c.pc # "stop" /\ c.pc # "pick" /\ c.pc \notin Attempting
  BY DEF Inside, Attempting
<1>4. Earned'
  BY <1>1, <1>3 DEF TCInv, Earned
<1>5. (\A q \in Procs : MemoryFits(ctl[q], disk, inflight, refused, own))'
  <2>1. MemoryFits(c, disk, inflight, refused, own)
    BY <1>3 DEF MemoryFits, BeforeVerdict, Attempting
  <2>2. \A q \in Procs : MemoryFits(ctl'[q], disk, inflight, refused, own)
    BY <1>1, <2>1 DEF TCInv, AllFit
  <2> QED BY <2>2 DEF MemoryFits
<1>6. DiskFits(disk, inflight, refused, own)'
  BY DEF TCInv, AllFit, DiskFits
<1> QED BY <1>2, <1>4, <1>5, <1>6 DEF TCInv, AllFit


LEMMA GotoType ==
  ASSUME NEW c \in Ctls, NEW pc \in Pcs
  PROVE  /\ [c EXCEPT !.pc = pc] \in Ctls /\ [c EXCEPT !.pc = pc].pc = pc
         /\ [c EXCEPT !.pc = pc].mem = c.mem /\ [c EXCEPT !.pc = pc].only = c.only
         /\ [c EXCEPT !.pc = pc].plan = c.plan /\ [c EXCEPT !.pc = pc].run = c.run
BY DEF Ctls

\* Looking at the lock and at the file.
LEMMA LooksKeepTCInv ==
  ASSUME TCInv, exclusive, NEW p \in Procs, UNCHANGED starts,
         Check(p) \/ Inspect(p) \/ Look(p) \/ CreateFails(p) \/ Judge(p) \/ Reset(p)
  PROVE  TCInv'
<1>1. /\ ctl[p] \in Ctls /\ ctl \in [Procs -> Ctls]
      /\ ctl[p].pc \notin Inside \cup {"fill"}
  BY Working DEF Check, Inspect, Look, CreateFails, Judge, Reset, At, Inside
<1>2. PICK pc \in {"off", "inspect", "look", "create", "judge", "remove", "clear"} :
        ctl' = [ctl EXCEPT ![p] = IF pc = "off" THEN Off ELSE [ctl[p] EXCEPT !.pc = pc]]
  BY <1>1 DEF Check, Inspect, Look, CreateFails, Judge, Reset, Goto, Ends
<1>3. UNCHANGED <<lock, disk, history>>
  BY DEF Check, Inspect, Look, CreateFails, Judge, Reset
<1> DEFINE c == IF pc = "off" THEN Off ELSE [ctl[p] EXCEPT !.pc = pc]
<1>4. pc \in Pcs \ (Inside \cup {"mend", "fill"})
  BY DEF Pcs, Inside
<1>5. c \in Ctls /\ c.pc = pc /\ c.mem.completed \subseteq proved
  BY <1>1, <1>4, GotoType, OffType DEF TCInv, Earned
<1>6. LockFits'
  <2>1. ctl'[p].pc = pc /\ \A q \in Procs \ {p} : ctl'[q] = ctl[q]
    BY <1>1, <1>2, <1>5
  <2> QED BY <1>1, <1>3, <1>4, <2>1 DEF TCInv, AllFit, LockFits
<1> HIDE DEF c
<1>7. starts' \in 0..MaxStarts /\ lock' \in [owner : Procs \cup {None, Dead}, ready : BOOLEAN]
  BY <1>3, Typed DEF TCInv
<1> QED BY <1>2, <1>3, <1>4, <1>5, <1>6, <1>7, TakerStep DEF c, history


LEMMA StartKeepsTCInv == ASSUME TCInv, exclusive, NEW p \in Procs, Start(p) PROVE TCInv'
<1>1. ctl[p] \in Ctls /\ ctl \in [Procs -> Ctls] /\ ctl[p].pc = "off"
  BY Working DEF Start, At
<1>2. PICK c \in Ctls : /\ ctl' = [ctl EXCEPT ![p] = c]
                        /\ c.pc \in {"look", "repair", "check", "reset"}
                        /\ c.mem.completed \subseteq proved
  <2>1. \A t \in Tasks \cup {None}, pc \in {"look", "repair"} :
          LET c == [Off EXCEPT !.pc = pc, !.only = t]
          IN c \in Ctls /\ c.pc = pc /\ c.mem = Off.mem
    BY OffType DEF Ctls, Pcs
  <2>2. \A pc \in {"check", "reset"} :
          LET c == [ctl[p] EXCEPT !.pc = pc] IN c \in Ctls /\ c.pc = pc /\ c.mem = ctl[p].mem
    BY <1>1, GotoType DEF Pcs
  <2>3. ctl[p].mem.completed \subseteq proved /\ Off.mem.completed \subseteq proved
    BY OffType DEF TCInv, Earned
  <2>4. CASE \E t \in Named \cup {None} :
               ctl' = [ctl EXCEPT ![p] = [Off EXCEPT !.pc = "look", !.only = t]]
    <3>1. PICK t \in Named \cup {None} :
            ctl' = [ctl EXCEPT ![p] = [Off EXCEPT !.pc = "look", !.only = t]]
      BY <2>4
    <3> DEFINE d == [Off EXCEPT !.pc = "look", !.only = t]
    <3>2. d \in Ctls /\ d.pc = "look" /\ d.mem = Off.mem
      BY <2>1, RoadmapAssumption
    <3> HIDE DEF d
    <3> QED BY <2>3, <3>1, <3>2 DEF d
  <2>5. CASE \E t \in Tasks : ctl' = [ctl EXCEPT ![p] = [Off EXCEPT !.pc = "repair", !.only = t]]
    <3>1. PICK t \in Tasks : ctl' = [ctl EXCEPT ![p] = [Off EXCEPT !.pc = "repair", !.only = t]]
      BY <2>5
    <3> DEFINE d == [Off EXCEPT !.pc = "repair", !.only = t]
    <3>2. d \in Ctls /\ d.pc = "repair" /\ d.mem = Off.mem
      BY <2>1
    <3> HIDE DEF d
    <3> QED BY <2>3, <3>1, <3>2 DEF d
  <2>6. CASE Goto(p, "check") \/ Goto(p, "reset")
    <3>1. PICK pc \in {"check", "reset"} : ctl' = [ctl EXCEPT ![p] = [ctl[p] EXCEPT !.pc = pc]]
      BY <1>1, <2>6 DEF Goto
    <3> QED BY <2>2, <2>3, <3>1
  <2> QED BY <2>4, <2>5, <2>6 DEF Start
<1>3. UNCHANGED <<lock, disk, history>> /\ starts' \in 0..MaxStarts
  <2>1. starts \in 0..MaxStarts
    BY Typed DEF TCInv
  <2>2. starts < MaxStarts /\ starts' = starts + 1 /\ UNCHANGED <<lock, disk, history>>
    BY DEF Start
  <2> QED BY <2>1, <2>2, StartsAssumption
<1>4. c.pc \notin Inside \cup {"fill", "mend"}
  BY <1>2 DEF Inside
<1>5. LockFits'
  <2>1. ctl'[p].pc = c.pc /\ \A q \in Procs \ {p} : ctl'[q] = ctl[q]
    BY <1>1, <1>2
  <2>2. ctl[p].pc \notin Inside \cup {"fill"}
    BY <1>1 DEF Inside
  <2> QED BY <1>3, <1>4, <2>1, <2>2 DEF TCInv, AllFit, LockFits
<1>6. lock' \in [owner : Procs \cup {None, Dead}, ready : BOOLEAN] /\ exclusive' \in BOOLEAN
  BY <1>3, Typed DEF TCInv, history
<1> QED BY <1>2, <1>3, <1>4, <1>5, <1>6, TakerStep DEF history

\* CreateNew succeeds where nobody has a lock.
LEMMA CreateKeepsTCInv ==
  ASSUME TCInv, exclusive, NEW p \in Procs, UNCHANGED starts, Create(p)
  PROVE  TCInv'
<1>1. /\ ctl[p] \in Ctls /\ ctl \in [Procs -> Ctls] /\ ctl[p].pc \notin Inside \cup {"fill"}
      /\ lock.owner = None /\ lock' = [owner |-> p, ready |-> FALSE]
      /\ ctl' = [ctl EXCEPT ![p] = [ctl[p] EXCEPT !.pc = "fill"]]
      /\ UNCHANGED <<disk, history>>
  BY Working DEF Create, At, Goto, MayCreate, Inside
<1> DEFINE c == [ctl[p] EXCEPT !.pc = "fill"]
<1>2. c \in Ctls /\ c.pc = "fill" /\ c.mem.completed \subseteq proved
  BY <1>1, GotoType DEF TCInv, Earned, Pcs
<1> HIDE DEF c
<1>3. LockFits'
  <2>1. ctl'[p] = c /\ \A q \in Procs \ {p} : ctl'[q] = ctl[q]
    BY <1>1 DEF c
  <2>2. \A q \in Procs : ctl[q].pc \notin Inside \cup {"fill"}
    <3>1. LockFits /\ \A q \in Procs : lock.owner # q
      BY <1>1, NamesAssumption DEF TCInv, AllFit
    <3> QED BY <3>1 DEF LockFits
  <2>3. "fill" \notin Inside
    BY DEF Inside
  <2> QED BY <1>1, <1>2, <2>1, <2>2, <2>3 DEF LockFits
<1>4. /\ starts' \in 0..MaxStarts /\ lock' \in [owner : Procs \cup {None, Dead}, ready : BOOLEAN]
      /\ exclusive' \in BOOLEAN
  BY <1>1, Typed DEF TCInv, history
<1>5. c.pc \notin Inside /\ c.pc # "mend"
  BY <1>2 DEF Inside
<1> QED BY <1>1, <1>2, <1>3, <1>4, <1>5, TakerStep DEF c, history

\* The lock is written, and its owner goes to work.
LEMMA FillKeepsTCInv ==
  ASSUME TCInv, exclusive, NEW p \in Procs, UNCHANGED starts, Fill(p)
  PROVE  TCInv'
<1>1. /\ ctl[p] \in Ctls /\ ctl \in [Procs -> Ctls] /\ ctl[p].pc = "fill"
      /\ lock' = [lock EXCEPT !.ready = TRUE]
      /\ ctl' = [ctl EXCEPT ![p] = [ctl[p] EXCEPT !.pc = "enter"]]
      /\ UNCHANGED <<disk, history>>
  BY Working DEF Fill, At, Goto
<1>2. lock = [owner |-> p, ready |-> FALSE] /\ LockFits
  BY <1>1 DEF TCInv, AllFit, LockFits
<1>3. lock' = [owner |-> p, ready |-> TRUE]
  BY <1>1, <1>2
<1> DEFINE c == [ctl[p] EXCEPT !.pc = "enter"]
<1>4. c \in Ctls /\ c.pc = "enter" /\ c.mem.completed \subseteq proved
  <2>1. "enter" \in Pcs
    BY DEF Pcs, Inside
  <2>2. ctl[p].mem.completed \subseteq proved
    BY DEF TCInv, Earned
  <2> QED BY <1>1, <2>1, <2>2, GotoType
<1> HIDE DEF c
<1>5. LockFits'
  <2>1. ctl'[p] = c /\ \A q \in Procs \ {p} : ctl'[q] = ctl[q]
    BY <1>1 DEF c
  <2>2. \A q \in Procs \ {p} : ctl[q].pc \notin Inside \cup {"fill"}
    BY <1>2 DEF LockFits
  <2>3. "enter" \in Inside
    BY DEF Inside
  <2> QED BY <1>3, <1>4, <2>1, <2>2, <2>3 DEF LockFits
<1>6. /\ starts' \in 0..MaxStarts /\ lock' \in [owner : Procs \cup {None, Dead}, ready : BOOLEAN]
      /\ exclusive' \in BOOLEAN
  BY <1>1, <1>3, Typed DEF TCInv, history
<1> QED BY <1>1, <1>4, <1>5, <1>6, TakerStep DEF c, history

\* A lock is removed: unless it was a living owner's, nobody worked under it.
LEMMA RemovalKeepsTCInv ==
  ASSUME TCInv, exclusive, NEW p \in Procs, UNCHANGED starts, Remove(p) \/ Clear(p)
  PROVE  TCInv'
<1>1. /\ ctl[p] \in Ctls /\ ctl \in [Procs -> Ctls] /\ ctl[p].pc \notin Inside \cup {"fill"}
      /\ lock' = Removed /\ exclusive' = (exclusive /\ ~Robs)
      /\ UNCHANGED <<disk, inflight, refused, own, proved>>
  BY Working DEF Remove, Clear, At, Inside
<1> DEFINE c == IF Remove(p) THEN [ctl[p] EXCEPT !.pc = "again"] ELSE Off
<1>2. /\ c \in Ctls /\ c.pc \in {"again", "off"} /\ c.mem.completed \subseteq proved
      /\ ctl' = [ctl EXCEPT ![p] = c]
  BY <1>1, GotoType, OffType DEF TCInv, Earned, Pcs, Remove, Clear, Goto, Ends
<1> HIDE DEF c
<1>3. c.pc \notin Inside \cup {"fill", "mend"}
  BY <1>2 DEF Inside
<1>4. exclusive' => LockFits'
  <2> SUFFICES ASSUME exclusive' PROVE LockFits'
    OBVIOUS
  <2>1. ctl'[p] = c /\ \A q \in Procs \ {p} : ctl'[q] = ctl[q]
    BY <1>1, <1>2
  <2>2. LockFits
    BY DEF TCInv, AllFit
  <2>3. CASE lock.owner \in Procs
    <3>1. lock' = lock
      BY <1>1, <2>3 DEF Removed, Robs
    <3> QED BY <1>1, <1>3, <2>1, <2>2, <3>1 DEF LockFits
  <2>4. CASE lock.owner \notin Procs
    <3>1. \A q \in Procs : ctl[q].pc \notin Inside \cup {"fill"}
      BY <2>2, <2>4 DEF LockFits
    <3>2. lock'.owner \notin Procs
      BY <1>1, <2>4, NamesAssumption DEF Removed, NoLock
    <3> QED BY <1>3, <2>1, <3>1, <3>2 DEF LockFits
  <2> QED BY <2>3, <2>4
<1>5. /\ starts' \in 0..MaxStarts /\ lock' \in [owner : Procs \cup {None, Dead}, ready : BOOLEAN]
      /\ exclusive' \in BOOLEAN
  BY <1>1, Typed DEF TCInv, Removed, NoLock
<1> QED BY <1>1, <1>2, <1>3, <1>4, <1>5, TakerStep

\* A process ends: it gives its lock back, or leaves a dead one.
LEMMA EndsKeepTCInv ==
  ASSUME TCInv, exclusive, NEW p \in Procs, UNCHANGED starts, Exit(p) \/ Crash(p)
  PROVE  TCInv'
<1>1. /\ ctl[p] \in Ctls /\ ctl \in [Procs -> Ctls]
      /\ ctl' = [ctl EXCEPT ![p] = Off] /\ UNCHANGED <<disk, history>>
  BY Working DEF Exit, Crash, Ends
<1>2. \/ lock.owner = p /\ lock' \in {NoLock, [lock EXCEPT !.owner = Dead]}
      \/ lock.owner # p /\ lock' = lock
  BY DEF Exit, Crash
<1>3. lock \in [owner : Procs \cup {None, Dead}, ready : BOOLEAN]
  BY Typed DEF TCInv
<1>4. /\ lock' \in [owner : Procs \cup {None, Dead}, ready : BOOLEAN]
      /\ lock.owner = p => lock'.owner \notin Procs
  <2>1. CASE lock.owner = p /\ lock' = NoLock
    BY <2>1, NamesAssumption DEF NoLock
  <2>2. CASE lock.owner = p /\ lock' = [lock EXCEPT !.owner = Dead]
    BY <1>3, <2>2, NamesAssumption
  <2>3. CASE lock.owner # p /\ lock' = lock
    BY <1>3, <2>3
  <2> QED BY <1>2, <2>1, <2>2, <2>3
<1>5. LockFits'
  <2>1. ctl'[p] = Off /\ \A q \in Procs \ {p} : ctl'[q] = ctl[q]
    BY <1>1
  <2>2. LockFits
    BY DEF TCInv, AllFit
  <2>3. Off.pc \notin Inside \cup {"fill"}
    BY OffType DEF Inside
  <2>4. CASE lock.owner = p
    <3>1. \A q \in Procs \ {p} : ctl[q].pc \notin Inside \cup {"fill"}
      BY <2>2, <2>4 DEF LockFits
    <3> QED BY <1>4, <2>1, <2>3, <2>4, <3>1 DEF LockFits
  <2>5. CASE lock.owner # p
    BY <1>2, <2>1, <2>2, <2>3, <2>5 DEF LockFits
  <2> QED BY <2>4, <2>5
<1>6. starts' \in 0..MaxStarts /\ exclusive' \in BOOLEAN
  BY <1>1, Typed DEF TCInv, history
<1>7. Off.pc \notin Inside /\ Off.pc # "mend" /\ Off.mem.completed \subseteq proved
  BY OffType DEF Inside
<1> QED BY <1>1, <1>4, <1>5, <1>6, <1>7, OffType, TakerStep DEF history

\* An operator's repair reads a file in which no other task is recorded.
LEMMA RepairKeepsTCInv ==
  ASSUME TCInv, exclusive, NEW p \in Procs, UNCHANGED starts, Repair(p)
  PROVE  TCInv'
<1>1. /\ ctl[p] \in Ctls /\ ctl \in [Procs -> Ctls] /\ ctl[p].pc = "repair"
      /\ UNCHANGED <<lock, disk, history>>
  BY Working DEF Repair, At
<1>2. disk \in States /\ disk.completed \subseteq proved
  BY Typed DEF TCInv, Earned
<1>3. PICK c \in Ctls : /\ ctl' = [ctl EXCEPT ![p] = c]
                        /\ c.pc \in {"off", "mend"} /\ c.mem.completed \subseteq proved
                        /\ c.pc = "mend" => /\ c.only \notin c.mem.completed
                                            /\ c.mem.task \in {None, c.only}
  <2>1. CASE Refuses(p)
    BY <1>1, <1>2, <2>1, OffType DEF Repair, Ends
  <2>2. CASE ~Refuses(p)
    <3> DEFINE d == [ctl[p] EXCEPT !.pc = "mend", !.mem = disk]
    <3>1. ctl' = [ctl EXCEPT ![p] = d]
      BY <1>1, <2>2 DEF Repair
    <3>2. d \in Ctls /\ d.pc = "mend" /\ d.only = ctl[p].only /\ d.mem = disk
      BY <1>1, <1>2 DEF Ctls, Pcs
    <3> HIDE DEF d
    <3> QED BY <1>2, <2>2, <3>1, <3>2 DEF Refuses
  <2> QED BY <2>1, <2>2
<1>4. c.pc \notin Inside \cup {"fill"}
  BY <1>3 DEF Inside
<1>5. LockFits'
  <2>1. ctl'[p].pc = c.pc /\ \A q \in Procs \ {p} : ctl'[q] = ctl[q]
    BY <1>1, <1>3
  <2>2. ctl[p].pc \notin Inside \cup {"fill"}
    BY <1>1 DEF Inside
  <2> QED BY <1>1, <1>4, <2>1, <2>2 DEF TCInv, AllFit, LockFits
<1>6. /\ starts' \in 0..MaxStarts /\ lock' \in [owner : Procs \cup {None, Dead}, ready : BOOLEAN]
      /\ exclusive' \in BOOLEAN
  BY <1>1, Typed DEF TCInv, history
<1> QED BY <1>1, <1>3, <1>4, <1>5, <1>6, TakerStep DEF history

\* What a working process knows of the file.
LEMMA AtWork ==
  ASSUME TCInv, exclusive, NEW p \in Procs, ctl[p].pc \in Inside
  PROVE  /\ ctl[p] \in Ctls /\ ctl \in [Procs -> Ctls] /\ disk \in States
         /\ ctl[p].pc # "enter" => ctl[p].mem = disk
         /\ disk.completed \subseteq proved /\ proved \subseteq Tasks
         /\ inflight \in Tasks \cup {None} /\ refused \in BOOLEAN /\ own \in BOOLEAN
         /\ DiskFits(disk, inflight, refused, own)
         /\ MemoryFits(ctl[p], disk, inflight, refused, own)
  BY Working, Typed DEF TCInv, Earned, MemoryFits

LEMMA StateFields ==
  ASSUME NEW s \in States
  PROVE  /\ s.status \in Statuses /\ s.task \in Tasks \cup {None} /\ s.attempt \in 0..MaxAttempts
         /\ s.result \in Results \cup {None} /\ s.verified \in BOOLEAN
         /\ s.durable \in Tasks \cup {None} /\ s.last \in Tasks \cup {None}
         /\ s.completed \in SUBSET Tasks /\ SessionOf(s) \in Tasks \cup {None}
  BY DEF States, SessionOf

LEMMA CtlFields ==
  ASSUME NEW c \in Ctls
  PROVE  /\ c.pc \in Pcs /\ c.only \in Tasks \cup {None} /\ c.mem \in States /\ c.plan \in Plans
         /\ c.uses \in 0..MaxRecoveries /\ c.run \in Results \cup {None}
  BY DEF Ctls

LEMMA PlanFields ==
  ASSUME NEW q \in Plans
  PROVE  /\ q.on \in BOOLEAN /\ q.task \in Tasks \cup {None} /\ q.attempt \in 0..MaxAttempts
         /\ q.session \in Tasks \cup {None}
  BY DEF Plans

\* A worker that writes its memory to the file.
LEMMA WorkerSaves ==
  ASSUME TCInv, exclusive, NEW p \in Procs, ctl[p].pc \in Inside,
         NEW s \in States, NEW c \in Ctls, c.mem = s, c.pc \in Inside,
         disk' = s, ctl' = [ctl EXCEPT ![p] = c], UNCHANGED <<starts, lock, exclusive>>,
         inflight' \in Tasks \cup {None}, refused' \in BOOLEAN, own' \in BOOLEAN,
         proved' \subseteq Tasks, proved \subseteq proved', s.completed \subseteq proved',
         c.pc = "complete" => s.task \in proved',
         DiskFits(s, inflight', refused', own'), MemoryFits(c, s, inflight', refused', own')
  PROVE  TCInv'
BY WorkerStep

\* A worker that only goes on.
LEMMA WorkerGoes ==
  ASSUME TCInv, exclusive, NEW p \in Procs, ctl[p].pc \in Inside \ {"enter"},
         NEW pc \in Inside \ {"complete"}, Goto(p, pc), UNCHANGED <<starts, lock, disk, history>>,
         MemoryFits([ctl[p] EXCEPT !.pc = pc], disk, inflight, refused, own)
  PROVE  TCInv'
<1>1. pc \in Pcs
  BY DEF Pcs
<1> DEFINE c == [ctl[p] EXCEPT !.pc = pc]
<1>2. c \in Ctls /\ c.pc = pc /\ c.mem = ctl[p].mem
  BY <1>1, AtWork, GotoType
<1>3. MemoryFits(c, disk, inflight, refused, own)
  OBVIOUS
<1>4. ctl' = [ctl EXCEPT ![p] = c]
  BY AtWork DEF Goto
<1> HIDE DEF c
<1> QED BY <1>2, <1>3, <1>4, AtWork, WorkerSaves DEF history

LEMMA PlanOf == ASSUME NEW s \in States PROVE PlanFor(s) \in Plans
BY StateFields, NoPlanType DEF PlanFor, Plans

\* A start resumes what was cut short, which is what is in flight.
LEMMA EnterKeepsTCInv ==
  ASSUME TCInv, exclusive, NEW p \in Procs, UNCHANGED starts, Enter(p)
  PROVE  TCInv'
<1>1. ctl[p].pc = "enter" /\ ctl[p].pc \in Inside /\ UNCHANGED <<lock, history>>
  BY DEF Enter, At, Inside
<1>2. /\ ctl[p] \in Ctls /\ ctl \in [Procs -> Ctls] /\ disk \in States
      /\ disk.completed \subseteq proved /\ proved \subseteq Tasks
      /\ inflight \in Tasks \cup {None} /\ refused \in BOOLEAN /\ own \in BOOLEAN
      /\ DiskFits(disk, inflight, refused, own)
  BY <1>1, AtWork
<1>3. CASE IsComplete(disk) /\ ctl[p].only = None
  <2> DEFINE s == [disk EXCEPT !.status = "complete", !.task = None]
             c == [[ctl[p] EXCEPT !.pc = "exit"] EXCEPT !.mem = s]
  <2>1. disk' = s /\ ctl' = [ctl EXCEPT ![p] = c]
    BY <1>3 DEF Enter, Saves
  <2>2. s \in States /\ s.status = "complete" /\ s.completed = disk.completed
    BY <1>2 DEF States, Statuses
  <2> HIDE DEF s
  <2>3. c \in Ctls /\ c.mem = s /\ c.pc = "exit"
    BY <1>2, <2>2 DEF Ctls, Pcs, Inside
  <2> HIDE DEF c
  <2>4. inflight = None /\ own = FALSE
    BY <1>2, <1>3 DEF DiskFits, IsComplete
  <2>5. DiskFits(s, inflight, refused, own)
    BY <2>2, <2>4 DEF DiskFits
  <2>6. MemoryFits(c, s, inflight, refused, own) /\ c.pc \in Inside
    BY <2>3 DEF MemoryFits, Inside, Attempting, BeforeVerdict
  <2> QED BY <1>1, <1>2, <2>1, <2>2, <2>3, <2>5, <2>6, WorkerSaves DEF history
<1>4. CASE ~(IsComplete(disk) /\ ctl[p].only = None) /\ IsInterrupted(disk)
  <2> DEFINE s == [disk EXCEPT !.status = "interrupted", !.result = None]
             c == [[ctl[p] EXCEPT !.pc = "pick", !.plan = PlanFor(disk)] EXCEPT !.mem = s]
  <2>1. disk' = s /\ ctl' = [ctl EXCEPT ![p] = c]
    BY <1>4 DEF Enter, Saves
  <2>2. /\ s \in States /\ s.status = "interrupted" /\ s.completed = disk.completed
        /\ s.task = disk.task /\ s.durable = disk.durable /\ s.last = disk.last
    BY <1>2 DEF States, Statuses
  <2> HIDE DEF s
  <2>3. c \in Ctls /\ c.mem = s /\ c.pc = "pick" /\ c.plan = PlanFor(disk)
    BY <1>2, <2>2, PlanOf DEF Ctls, Pcs, Inside
  <2> HIDE DEF c
  <2>4. DiskFits(s, inflight, refused, own)
    BY <1>2, <2>2 DEF DiskFits, SessionOf, InFlightStatuses
  <2>5. c.plan.on /\ c.plan.task = disk.task /\ c.plan.session = SessionOf(disk)
    BY <1>4, <2>3 DEF PlanFor
  <2>6. MemoryFits(c, s, inflight, refused, own) /\ c.pc \in Inside
    BY <1>2, <2>3, <2>5 DEF MemoryFits, Inside, Attempting, BeforeVerdict, DiskFits
  <2> QED BY <1>1, <1>2, <2>1, <2>2, <2>3, <2>4, <2>6, WorkerSaves DEF history
<1>5. CASE ~(IsComplete(disk) /\ ctl[p].only = None) /\ ~IsInterrupted(disk)
  <2> DEFINE c == [[ctl[p] EXCEPT !.pc = "pick"] EXCEPT !.mem = disk]
  <2>1. disk' = disk /\ ctl' = [ctl EXCEPT ![p] = c]
    BY <1>5 DEF Enter, Saves
  <2>2. c \in Ctls /\ c.mem = disk /\ c.pc = "pick"
    BY <1>2 DEF Ctls, Pcs, Inside
  <2> HIDE DEF c
  <2>3. inflight = None /\ own = FALSE
    BY <1>2, <1>5 DEF DiskFits, IsInterrupted
  <2>4. MemoryFits(c, disk, inflight, refused, own) /\ c.pc \in Inside
    BY <2>2, <2>3 DEF MemoryFits, Inside, Attempting, BeforeVerdict
  <2> QED BY <1>1, <1>2, <2>1, <2>2, <2>4, WorkerSaves DEF history
<1> QED BY <1>3, <1>4, <1>5

\* What a worker that goes on, or stops, keeps.
LEMMA LeaveKeepsTCInv ==
  ASSUME TCInv, exclusive, NEW p \in Procs, UNCHANGED starts, Leave(p)
  PROVE  TCInv'
<1>1. ctl[p].pc \in Inside \ {"enter"} /\ Goto(p, "exit") /\ UNCHANGED <<lock, disk, history>>
  BY DEF Leave, At, Inside
<1>2. ctl[p] \in Ctls /\ ctl[p].mem = disk /\ "exit" \in Inside \ {"complete"} /\ "exit" \in Pcs
  BY <1>1, AtWork DEF Inside, Pcs
<1> DEFINE c == [ctl[p] EXCEPT !.pc = "exit"]
<1>3. c.pc = "exit" /\ c.mem = disk
  BY <1>2, GotoType
<1> HIDE DEF c
<1>4. MemoryFits(c, disk, inflight, refused, own)
  BY <1>3 DEF MemoryFits, Inside, Attempting, BeforeVerdict
<1> QED BY <1>1, <1>2, <1>4, WorkerGoes DEF c

\* Nothing is left to do only where nothing is in flight.
LEMMA NothingLeftKeepsTCInv ==
  ASSUME TCInv, exclusive, NEW p \in Procs, UNCHANGED starts, NothingLeft(p)
  PROVE  TCInv'
<1>1. ctl[p].pc = "pick" /\ ctl[p].pc \in Inside \ {"enter"} /\ UNCHANGED <<lock, history>>
  BY DEF NothingLeft, At, Inside
<1>2. /\ ctl[p] \in Ctls /\ ctl \in [Procs -> Ctls] /\ disk \in States /\ ctl[p].mem = disk
      /\ disk.completed \subseteq proved /\ proved \subseteq Tasks
      /\ inflight \in Tasks \cup {None} /\ refused \in BOOLEAN /\ own \in BOOLEAN
      /\ DiskFits(disk, inflight, refused, own) /\ MemoryFits(ctl[p], disk, inflight, refused, own)
  BY <1>1, AtWork
<1>3. CASE /\ TaskOf(ctl[p]) = None
           /\ Saves(p, [ctl[p].mem EXCEPT !.status = "complete", !.task = None],
                    [ctl[p] EXCEPT !.pc = "exit"])
  <2> DEFINE s == [disk EXCEPT !.status = "complete", !.task = None]
             c == [[ctl[p] EXCEPT !.pc = "exit"] EXCEPT !.mem = s]
  <2>1. disk' = s /\ ctl' = [ctl EXCEPT ![p] = c]
    BY <1>2, <1>3 DEF Saves
  <2>2. s \in States /\ s.status = "complete" /\ s.completed = disk.completed
    BY <1>2 DEF States, Statuses
  <2> HIDE DEF s
  <2>3. c \in Ctls /\ c.mem = s /\ c.pc = "exit"
    BY <1>2, <2>2 DEF Ctls, Pcs, Inside
  <2> HIDE DEF c
  <2>4. inflight = None /\ own = FALSE
    <3>1. inflight # None => ctl[p].plan.on /\ ctl[p].plan.task = inflight
      BY <1>1, <1>2 DEF MemoryFits
    <3>2. ctl[p].only = None
      BY <1>3 DEF TaskOf
    <3>3. inflight = None
      BY <1>3, <3>1, <3>2 DEF TaskOf
    <3> QED BY <1>2, <3>3 DEF DiskFits
  <2>5. DiskFits(s, inflight, refused, own)
    BY <2>2, <2>4 DEF DiskFits
  <2>6. MemoryFits(c, s, inflight, refused, own) /\ c.pc \in Inside
    BY <2>3 DEF MemoryFits, Inside, Attempting, BeforeVerdict
  <2> QED BY <1>1, <1>2, <2>1, <2>2, <2>3, <2>5, <2>6, WorkerSaves DEF history
<1>4. CASE Goto(p, "exit") /\ UNCHANGED disk
  <2> DEFINE c == [ctl[p] EXCEPT !.pc = "exit"]
  <2>1. "exit" \in Inside \ {"complete"} /\ "exit" \in Pcs
    BY DEF Inside, Pcs
  <2>2. c.pc = "exit" /\ c.mem = disk
    BY <1>2, <2>1, GotoType
  <2> HIDE DEF c
  <2>3. MemoryFits(c, disk, inflight, refused, own)
    BY <2>2 DEF MemoryFits, Inside, Attempting, BeforeVerdict
  <2> QED BY <1>1, <1>4, <2>1, <2>3, WorkerGoes DEF c
<1> QED BY <1>3, <1>4 DEF NothingLeft

\* An attempt begins: this task is in flight, and nobody has refused it.
LEMMA BeginsKeepsTCInv ==
  ASSUME TCInv, exclusive, NEW p \in Procs, UNCHANGED starts,
         ctl[p].pc \in {"pick", "next"}, NEW t \in Tasks \ ctl[p].mem.completed,
         ctl[p].pc = "next" => t = ctl[p].mem.task,
         NEW n \in 0..MaxAttempts, NEW u \in 0..MaxRecoveries,
         NEW b \in Ctls, b = [ctl[p] EXCEPT !.uses = u], Begins(p, t, n, b)
  PROVE  TCInv'
<1>1. ctl[p].pc \in Inside \ {"enter"} /\ UNCHANGED <<lock, proved, exclusive>>
  BY DEF Begins, Inside
<1>2. /\ ctl[p] \in Ctls /\ ctl \in [Procs -> Ctls] /\ disk \in States /\ ctl[p].mem = disk
      /\ disk.completed \subseteq proved /\ proved \subseteq Tasks
      /\ inflight \in Tasks \cup {None} /\ refused \in BOOLEAN /\ own \in BOOLEAN
      /\ DiskFits(disk, inflight, refused, own) /\ MemoryFits(ctl[p], disk, inflight, refused, own)
  BY <1>1, AtWork
<1>3. inflight' = t /\ refused' = FALSE /\ own' = (own /\ inflight = t)
  BY DEF Begins
<1> DEFINE s == Begun(disk, t, n)
           c == [[b EXCEPT !.pc = "preflight", !.run = None] EXCEPT !.mem = s]
<1>4. b.plan = ctl[p].plan /\ b.mem = disk
  BY <1>2 DEF Ctls
<1>5. disk' = s /\ ctl' = [ctl EXCEPT ![p] = c]
  BY <1>4 DEF Begins, Saves
<1>6. /\ s \in States /\ s.status = "running" /\ s.completed = disk.completed /\ s.task = t
      /\ s.durable = disk.durable /\ s.last = disk.last
  BY <1>2 DEF States, Statuses, Begun
<1> HIDE DEF s
<1>7. c \in Ctls /\ c.mem = s /\ c.pc = "preflight" /\ c.plan = b.plan
  BY <1>6, <1>4 DEF Ctls, Pcs, Inside
<1> HIDE DEF c
<1>8. DiskFits(s, inflight', refused', own')
  BY <1>2, <1>3, <1>6 DEF DiskFits, SessionOf, InFlightStatuses
<1>9. c.pc \in Inside /\ MemoryFits(c, s, inflight', refused', own')
  <2>1. t # None /\ t \in Tasks \ s.completed
    BY <1>2, <1>6, NamesAssumption
  <2>2. own' /\ c.plan.on => c.plan.session \in {None, t}
    BY <1>2, <1>3, <1>4, <1>7 DEF MemoryFits, Attempting
  <2> QED BY <1>3, <1>6, <1>7, <2>1, <2>2 DEF MemoryFits, Inside, Attempting, BeforeVerdict
<1> QED BY <1>1, <1>2, <1>3, <1>5, <1>6, <1>7, <1>8, <1>9, WorkerSaves

LEMMA PickKeepsTCInv ==
  ASSUME TCInv, exclusive, NEW p \in Procs, UNCHANGED starts, Pick(p)
  PROVE  TCInv'
<1>1. /\ ctl[p].pc = "pick" /\ ctl[p].pc \in Inside
      /\ TaskOf(ctl[p]) \in Tasks \ ctl[p].mem.completed
      /\ Begins(p, TaskOf(ctl[p]), FirstAttempt(ctl[p].plan), [ctl[p] EXCEPT !.uses = 0])
  BY DEF Pick, At, Inside
<1>2. ctl[p] \in Ctls
  BY <1>1, AtWork
<1>3. 0 \in 0..MaxRecoveries /\ [ctl[p] EXCEPT !.uses = 0] \in Ctls
  BY <1>2, AttemptsAssumption DEF Ctls
<1>4. FirstAttempt(ctl[p].plan) \in 0..MaxAttempts
  BY <1>2, CtlFields, PlanFields, AttemptsAssumption DEF FirstAttempt
<1> QED BY <1>1, <1>3, <1>4, BeginsKeepsTCInv

LEMMA AgainKeepsTCInv ==
  ASSUME TCInv, exclusive, NEW p \in Procs, UNCHANGED starts, Again(p)
  PROVE  TCInv'
<1>1. ctl[p].pc = "next" /\ ctl[p].pc \in Inside \ {"enter"}
  BY DEF Again, At, Inside
<1>2. /\ ctl[p] \in Ctls /\ ctl \in [Procs -> Ctls] /\ disk \in States /\ ctl[p].mem = disk
      /\ disk.completed \subseteq proved /\ proved \subseteq Tasks
      /\ inflight \in Tasks \cup {None} /\ refused \in BOOLEAN /\ own \in BOOLEAN
      /\ DiskFits(disk, inflight, refused, own) /\ MemoryFits(ctl[p], disk, inflight, refused, own)
  BY <1>1, AtWork
<1>3. ctl[p].mem.task \in Tasks \ ctl[p].mem.completed
  BY <1>1, <1>2 DEF MemoryFits, Attempting
<1>4. CASE /\ HasAttempt(ctl[p].mem.attempt)
           /\ Begins(p, ctl[p].mem.task, NextAttempt(ctl[p].mem.attempt), ctl[p])
  <2>1. NextAttempt(ctl[p].mem.attempt) \in 0..MaxAttempts
    BY <1>2, <1>4, StateFields, AttemptsAssumption DEF HasAttempt, NextAttempt
  <2>2. ctl[p].uses \in 0..MaxRecoveries /\ ctl[p] = [ctl[p] EXCEPT !.uses = ctl[p].uses]
    BY <1>2 DEF Ctls
  <2> QED BY <1>1, <1>2, <1>3, <1>4, <2>1, <2>2, BeginsKeepsTCInv
<1>5. CASE /\ ctl' = [ctl EXCEPT ![p].pc = "stop", ![p].run = "FAIL"]
           /\ UNCHANGED <<lock, disk, history>>
  <2> DEFINE c == [ctl[p] EXCEPT !.pc = "stop", !.run = "FAIL"]
  <2>1. ctl' = [ctl EXCEPT ![p] = c]
    BY <1>2, <1>5
  <2>2. c \in Ctls /\ c.pc = "stop" /\ c.mem = ctl[p].mem
    BY <1>2 DEF Ctls, Pcs, Inside, Results
  <2> HIDE DEF c
  <2>3. c.pc \in Inside /\ MemoryFits(c, disk, inflight, refused, own)
    BY <1>2, <1>3, <2>2 DEF MemoryFits, Inside, Attempting, BeforeVerdict
  <2> QED BY <1>1, <1>2, <1>5, <2>1, <2>2, <2>3, WorkerSaves DEF history
<1> QED BY <1>4, <1>5 DEF Again

\* The same for the steps inside an attempt.
Sees(p) ==
  /\ ctl[p] \in Ctls /\ ctl \in [Procs -> Ctls] /\ disk \in States /\ ctl[p].mem = disk
  /\ disk.completed \subseteq proved /\ proved \subseteq Tasks
  /\ inflight \in Tasks \cup {None} /\ refused \in BOOLEAN /\ own \in BOOLEAN
  /\ DiskFits(disk, inflight, refused, own) /\ MemoryFits(ctl[p], disk, inflight, refused, own)

LEMMA AtWorkSees ==
  ASSUME TCInv, exclusive, NEW p \in Procs, ctl[p].pc \in Inside \ {"enter"}
  PROVE  Sees(p)
BY AtWork DEF Sees

\* Inside an attempt its task is the one in flight.
LEMMA TaskInFlight ==
  ASSUME NEW p \in Procs, Sees(p), ctl[p].pc \in Attempting
  PROVE  /\ inflight # None /\ disk.task = inflight /\ inflight \in Tasks \ disk.completed
         /\ disk.status \in InFlightStatuses
BY DEF Sees, DiskFits, MemoryFits

\* An attempt that a guard ends before its verdict has refused nothing.
LEMMA BlocksKeepsTCInv ==
  ASSUME TCInv, exclusive, NEW p \in Procs, UNCHANGED starts,
         ctl[p].pc \in BeforeVerdict, Blocks(p)
  PROVE  TCInv'
<1>1. /\ ctl[p].pc \in Inside \ {"enter"} /\ ctl[p].pc \in Attempting /\ inflight' = None
      /\ own' = FALSE /\ UNCHANGED <<lock, refused, proved, exclusive>>
  BY DEF Blocks, Inside, BeforeVerdict, Attempting
<1>2. Sees(p)
  BY <1>1, AtWorkSees
<1> DEFINE s == [disk EXCEPT !.status = "blocked"]
           c == [[ctl[p] EXCEPT !.pc = "stop", !.run = "BLOCKED"] EXCEPT !.mem = s]
<1>3. disk' = s /\ ctl' = [ctl EXCEPT ![p] = c]
  BY <1>2 DEF Blocks, Saves, Sees
<1>4. s \in States /\ s.completed = disk.completed /\ s.task = disk.task
  BY <1>2 DEF States, Statuses, Sees
<1> HIDE DEF s
<1>5. c \in Ctls /\ c.mem = s /\ c.pc = "stop"
  BY <1>2, <1>4 DEF Ctls, Pcs, Inside, Results, Sees
<1> HIDE DEF c
<1>6. ~refused
  BY <1>2 DEF Sees, MemoryFits
<1>7. DiskFits(s, None, refused, FALSE)
  BY <1>6 DEF DiskFits
<1>8. c.pc \in Inside /\ MemoryFits(c, s, None, refused, FALSE)
  <2>1. s.task \in Tasks \ s.completed
    BY <1>1, <1>2, <1>4, TaskInFlight
  <2> QED BY <1>5, <2>1 DEF MemoryFits, Inside, Attempting, BeforeVerdict
<1>9. s.completed \subseteq proved /\ proved \subseteq Tasks /\ refused \in BOOLEAN
  BY <1>2, <1>4 DEF Sees
<1> QED BY <1>1, <1>3, <1>4, <1>5, <1>7, <1>8, <1>9, WorkerSaves

LEMMA PreflightKeepsTCInv ==
  ASSUME TCInv, exclusive, NEW p \in Procs, UNCHANGED starts, Preflight(p)
  PROVE  TCInv'
<1>1. ctl[p].pc = "preflight" /\ ctl[p].pc \in Inside \ {"enter"} /\ ctl[p].pc \in BeforeVerdict
  BY DEF Preflight, At, Inside, BeforeVerdict
<1>2. Sees(p)
  BY <1>1, AtWorkSees
<1>3. CASE Goto(p, "agent") /\ UNCHANGED <<lock, disk, history>>
  <2> DEFINE c == [ctl[p] EXCEPT !.pc = "agent"]
  <2>1. "agent" \in Inside \ {"complete"} /\ "agent" \in Pcs
    BY DEF Inside, Pcs
  <2>2. c.pc = "agent" /\ c.mem = ctl[p].mem /\ c.plan = ctl[p].plan
    BY <1>2, <2>1, GotoType DEF Sees
  <2> HIDE DEF c
  <2>3. MemoryFits(c, disk, inflight, refused, own)
    BY <1>1, <1>2, <2>2 DEF Sees, MemoryFits, Inside, Attempting, BeforeVerdict
  <2> QED BY <1>1, <1>3, <2>1, <2>3, WorkerGoes DEF c
<1>4. CASE Blocks(p)
  BY <1>1, <1>4, BlocksKeepsTCInv
<1> QED BY <1>3, <1>4 DEF Preflight

\* The agent reports the session it was started for, or the one it continued.
LEMMA AgentKeepsTCInv ==
  ASSUME TCInv, exclusive, NEW p \in Procs, UNCHANGED starts, Agent(p)
  PROVE  TCInv'
<1>1. /\ ctl[p].pc = "agent" /\ ctl[p].pc \in Inside \ {"enter"} /\ ctl[p].pc \in Attempting
      /\ UNCHANGED <<lock, inflight, refused, proved, exclusive>>
  BY DEF Agent, At, Inside, Attempting
<1>2. Sees(p) /\ inflight # None /\ disk.task = inflight /\ inflight \in Tasks \ disk.completed
      /\ disk.status \in InFlightStatuses
  BY <1>1, AtWorkSees, TaskInFlight
<1> DEFINE resumed == IF ctl[p].plan.on THEN ctl[p].plan.session ELSE None
<1>3. resumed \in Tasks \cup {None} /\ (own => resumed \in {None, inflight}) /\ ~refused
      /\ (own => SessionOf(disk) \in {None, inflight})
      /\ (ctl[p].plan.on => ctl[p].plan.session = resumed)
  BY <1>1, <1>2, CtlFields, PlanFields, NamesAssumption
     DEF Sees, MemoryFits, DiskFits, Attempting, BeforeVerdict
<1> HIDE DEF resumed
<1>4. PICK session \in {None, inflight, resumed}, pc \in {"postflight", "detach"},
           r \in Results \cup {None} :
        LET s == Reported(disk, session)
        IN /\ disk' = s
           /\ ctl' = [ctl EXCEPT ![p] = [[[ctl[p] EXCEPT !.pc = pc] EXCEPT !.run = r]
                                          EXCEPT !.mem = s]]
           /\ pc = "postflight" => /\ own' = (own \/ session = inflight)
                                   /\ resumed = None \/ session = resumed \/ session = None
           /\ pc = "detach" => UNCHANGED own
  <2>1. ctl[p].mem = disk /\ ctl[p] \in Ctls
    BY <1>2 DEF Sees
  <2>2. CASE \E r \in Results, session \in {None, ctl[p].mem.task, resumed} :
          /\ resumed = None \/ session = resumed \/ (session = None /\ r = "FAIL")
          /\ Saves(p, Reported(ctl[p].mem, session), [ctl[p] EXCEPT !.pc = "postflight", !.run = r])
          /\ own' = (own \/ (session # None /\ session = ctl[p].mem.task))
    <3>1. PICK r \in Results, session \in {None, inflight, resumed} :
          /\ resumed = None \/ session = resumed \/ session = None
          /\ Saves(p, Reported(disk, session), [ctl[p] EXCEPT !.pc = "postflight", !.run = r])
          /\ own' = (own \/ session = inflight)
      BY <1>2, <2>1, <2>2
    <3>2. [[ctl[p] EXCEPT !.pc = "postflight"] EXCEPT !.run = r]
            = [ctl[p] EXCEPT !.pc = "postflight", !.run = r]
      BY <2>1 DEF Ctls
    <3> QED BY <3>1, <3>2 DEF Saves
  <2>3. CASE \E session \in {ctl[p].mem.task, resumed} :
          /\ resumed # None
          /\ Saves(p, Reported(ctl[p].mem, session), [ctl[p] EXCEPT !.pc = "detach"])
          /\ UNCHANGED own
    <3>1. PICK session \in {None, inflight, resumed} :
          /\ Saves(p, Reported(disk, session), [ctl[p] EXCEPT !.pc = "detach"])
          /\ UNCHANGED own
      BY <1>2, <2>1, <2>3
    <3>2. [[ctl[p] EXCEPT !.pc = "detach"] EXCEPT !.run = ctl[p].run]
            = [ctl[p] EXCEPT !.pc = "detach"] /\ ctl[p].run \in Results \cup {None}
      BY <2>1 DEF Ctls
    <3> QED BY <3>1, <3>2 DEF Saves
  <2> QED BY <2>2, <2>3 DEF Agent, resumed
<1> DEFINE s == Reported(disk, session)
           c == [[[ctl[p] EXCEPT !.pc = pc] EXCEPT !.run = r] EXCEPT !.mem = s]
<1>5. disk' = s /\ ctl' = [ctl EXCEPT ![p] = c]
  BY <1>4
<1>6. /\ s \in States /\ s.completed = disk.completed /\ s.task = inflight
      /\ s.status = disk.status /\ s.last = session
      /\ s.durable = IF session = None THEN disk.durable ELSE session
  BY <1>2, <1>3 DEF Reported, States, Sees
<1> HIDE DEF s
<1>7. c \in Ctls /\ c.mem = s /\ c.pc = pc /\ c.plan = ctl[p].plan
  BY <1>2, <1>6 DEF Ctls, Pcs, Inside, Sees
<1> HIDE DEF c
<1>8. own' \in BOOLEAN /\ (own' => own \/ session = inflight)
  <2>1. own \in BOOLEAN
    BY <1>2 DEF Sees
  <2>2. own' = (own \/ session = inflight) \/ own' = own
    BY <1>4
  <2>3. CASE own' = own
    BY <2>1, <2>3
  <2>4. CASE own' = (own \/ session = inflight)
    <3>1. own' \in BOOLEAN
      BY <2>4, Zenon
    <3>2. own' <=> own \/ session = inflight
      BY <2>4, Zenon
    <3> QED BY <3>1, <3>2
  <2> QED BY <2>2, <2>3, <2>4
<1>9. own' => SessionOf(s) \in {None, inflight}
  <2>1. own => session \in {None, inflight}
    BY <1>3
  <2> QED BY <1>2, <1>3, <1>6, <1>8, <2>1 DEF SessionOf
<1>10. DiskFits(s, inflight, refused, own')
  BY <1>2, <1>3, <1>6, <1>9 DEF DiskFits
<1>11. c.pc \in Inside /\ MemoryFits(c, s, inflight, refused, own')
  <2>1. own' /\ c.plan.on => c.plan.session \in {None, inflight}
    BY <1>2, <1>3, <1>4, <1>7
  <2>2. own' /\ c.pc = "detach" => s.last \in {None, inflight}
    BY <1>3, <1>4, <1>6, <1>7
  <2> QED BY <1>2, <1>3, <1>6, <1>7, <2>1, <2>2
          DEF MemoryFits, Inside, Attempting, BeforeVerdict
<1> QED BY <1>1, <1>2, <1>5, <1>6, <1>7, <1>8, <1>10, <1>11, WorkerSaves DEF Sees, Attempting

\* A session that did not attach is dropped: the last one reported remains.
LEMMA DetachKeepsTCInv ==
  ASSUME TCInv, exclusive, NEW p \in Procs, UNCHANGED starts, Detach(p)
  PROVE  TCInv'
<1>1. /\ ctl[p].pc = "detach" /\ ctl[p].pc \in Inside \ {"enter"} /\ ctl[p].pc \in Attempting
      /\ UNCHANGED <<lock, history>>
  BY DEF Detach, At, Inside, Attempting
<1>2. Sees(p) /\ inflight # None /\ disk.task = inflight /\ inflight \in Tasks \ disk.completed
      /\ disk.status \in InFlightStatuses
  BY <1>1, AtWorkSees, TaskInFlight
<1> DEFINE s == [disk EXCEPT !.durable = None]
           q == [on |-> TRUE, task |-> disk.task, attempt |-> disk.attempt, session |-> None]
           c == [[ctl[p] EXCEPT !.pc = "agent", !.plan = q] EXCEPT !.mem = s]
<1>3. disk' = s /\ ctl' = [ctl EXCEPT ![p] = c]
  BY <1>2 DEF Detach, Saves, Sees
<1>4. /\ s \in States /\ s.completed = disk.completed /\ s.task = inflight
      /\ s.status = disk.status /\ s.last = disk.last /\ s.durable = None
  BY <1>2 DEF States, Sees
<1>5. q \in Plans /\ q.session = None
  BY <1>2, StateFields DEF Plans, Sees
<1> HIDE DEF s, q
<1>6. c \in Ctls /\ c.mem = s /\ c.pc = "agent" /\ c.plan = q
  BY <1>2, <1>4, <1>5 DEF Ctls, Pcs, Inside, Sees
<1> HIDE DEF c
<1>7. ~refused /\ (own => disk.last \in {None, inflight})
  BY <1>1, <1>2 DEF Sees, MemoryFits, BeforeVerdict
<1>8. DiskFits(s, inflight, refused, own)
  BY <1>2, <1>4, <1>7 DEF DiskFits, SessionOf
<1>9. c.pc \in Inside /\ MemoryFits(c, s, inflight, refused, own)
  BY <1>2, <1>4, <1>5, <1>6, <1>7 DEF MemoryFits, Inside, Attempting, BeforeVerdict
<1> QED BY <1>1, <1>2, <1>3, <1>4, <1>6, <1>8, <1>9, WorkerSaves DEF Sees, history

\* A verdict that is recorded is not one of a task out of flight.
LEMMA PostflightKeepsTCInv ==
  ASSUME TCInv, exclusive, NEW p \in Procs, UNCHANGED starts, Postflight(p)
  PROVE  TCInv'
<1>1. /\ ctl[p].pc = "postflight" /\ ctl[p].pc \in Inside \ {"enter"}
      /\ ctl[p].pc \in Attempting /\ ctl[p].pc \in BeforeVerdict
  BY DEF Postflight, At, Inside, Attempting, BeforeVerdict
<1>2. Sees(p) /\ inflight # None /\ disk.task = inflight /\ inflight \in Tasks \ disk.completed
      /\ disk.status \in InFlightStatuses
  BY <1>1, AtWorkSees, TaskInFlight
<1>3. /\ own => SessionOf(disk) \in {None, inflight}
      /\ own /\ ctl[p].plan.on => ctl[p].plan.session \in {None, inflight}
  BY <1>1, <1>2 DEF Sees, DiskFits, MemoryFits
<1>4. CASE Blocks(p)
  BY <1>1, <1>4, BlocksKeepsTCInv
<1>5. CASE /\ Saves(p, [ctl[p].mem EXCEPT !.status = "verifying"], [ctl[p] EXCEPT !.pc = "verify"])
           /\ UNCHANGED <<lock, history>>
  <2> DEFINE s == [disk EXCEPT !.status = "verifying"]
             c == [[ctl[p] EXCEPT !.pc = "verify"] EXCEPT !.mem = s]
  <2>1. disk' = s /\ ctl' = [ctl EXCEPT ![p] = c]
    BY <1>2, <1>5 DEF Saves, Sees
  <2>2. /\ s \in States /\ s.completed = disk.completed /\ s.task = inflight
        /\ s.status = "verifying" /\ s.last = disk.last /\ s.durable = disk.durable
    BY <1>2 DEF States, Statuses, Sees
  <2> HIDE DEF s
  <2>3. c \in Ctls /\ c.mem = s /\ c.pc = "verify" /\ c.plan = ctl[p].plan
    BY <1>2, <2>2 DEF Ctls, Pcs, Inside, Sees
  <2> HIDE DEF c
  <2>4. DiskFits(s, inflight, refused, own)
    BY <1>2, <1>3, <2>2 DEF DiskFits, SessionOf, InFlightStatuses
  <2>5. c.pc \in Inside /\ MemoryFits(c, s, inflight, refused, own)
    BY <1>2, <1>3, <2>2, <2>3 DEF MemoryFits, Inside, Attempting, BeforeVerdict
  <2> QED BY <1>1, <1>2, <1>5, <2>1, <2>2, <2>3, <2>4, <2>5, WorkerSaves DEF Sees, history
<1>6. CASE /\ Saves(p, Judged(ctl[p].mem, ctl[p].run, FALSE),
                    [ctl[p] EXCEPT !.pc = IF ctl[p].run = "BLOCKED" THEN "stop" ELSE "retry"])
           /\ refused' = (ctl[p].run = "BLOCKED")
           /\ UNCHANGED <<lock, inflight, own, proved, exclusive>>
  <2> DEFINE s == Judged(disk, ctl[p].run, FALSE)
             pc == IF ctl[p].run = "BLOCKED" THEN "stop" ELSE "retry"
             c == [[ctl[p] EXCEPT !.pc = pc] EXCEPT !.mem = s]
  <2>1. disk' = s /\ ctl' = [ctl EXCEPT ![p] = c]
    BY <1>2, <1>6 DEF Saves, Sees
  <2>2. /\ s \in States /\ s.completed = disk.completed /\ s.task = inflight
        /\ s.status = disk.status /\ s.last = disk.last /\ s.durable = disk.durable
    BY <1>2, CtlFields DEF States, Sees, Judged
  <2> HIDE DEF s
  <2>3. pc \in {"stop", "retry"}
    OBVIOUS
  <2> HIDE DEF pc
  <2>4. c \in Ctls /\ c.mem = s /\ c.pc = pc /\ c.plan = ctl[p].plan
    BY <1>2, <2>2, <2>3 DEF Ctls, Pcs, Inside, Sees
  <2> HIDE DEF c
  <2>5. DiskFits(s, inflight, refused', own)
    BY <1>2, <1>3, <2>2 DEF DiskFits, SessionOf, InFlightStatuses
  <2>6. c.pc \in Inside /\ MemoryFits(c, s, inflight, refused', own)
    BY <1>2, <1>3, <2>2, <2>3, <2>4 DEF MemoryFits, Inside, Attempting, BeforeVerdict
  <2>7. refused' \in BOOLEAN /\ UNCHANGED <<lock, inflight, own, proved, exclusive>>
    BY <1>6
  <2>8. c.pc # "complete" /\ s.completed \subseteq proved /\ own \in BOOLEAN
        /\ inflight \in Tasks \cup {None} /\ proved \subseteq Tasks
    BY <1>2, <2>2, <2>3, <2>4 DEF Sees
  <2> QED BY <1>1, <2>1, <2>2, <2>4, <2>5, <2>6, <2>7, <2>8, WorkerSaves
<1> QED BY <1>4, <1>5, <1>6 DEF Postflight

\* A task that the gates passed is proved before it is recorded.
LEMMA VerifyKeepsTCInv ==
  ASSUME TCInv, exclusive, NEW p \in Procs, UNCHANGED starts, Verify(p)
  PROVE  TCInv'
<1>1. /\ ctl[p].pc = "verify" /\ ctl[p].pc \in Inside \ {"enter"} /\ ctl[p].pc \in Attempting
      /\ UNCHANGED <<lock, inflight, refused, own, exclusive>>
  BY DEF Verify, At, Inside, Attempting
<1>2. Sees(p) /\ inflight # None /\ disk.task = inflight /\ inflight \in Tasks \ disk.completed
      /\ disk.status \in InFlightStatuses
  BY <1>1, AtWorkSees, TaskInFlight
<1>3. /\ own => SessionOf(disk) \in {None, inflight}
      /\ own /\ ctl[p].plan.on => ctl[p].plan.session \in {None, inflight}
  BY <1>1, <1>2 DEF Sees, DiskFits, MemoryFits
<1>4. PICK passed \in BOOLEAN :
        /\ Saves(p, Judged(ctl[p].mem, Effective(passed), TRUE),
                 [ctl[p] EXCEPT !.pc = IF Effective(passed) = "PASS" THEN "complete" ELSE "retry",
                                !.run = Effective(passed)])
        /\ proved' = IF passed THEN proved \cup {ctl[p].mem.task} ELSE proved
  BY DEF Verify
<1> DEFINE r == Effective(passed)
           pc == IF r = "PASS" THEN "complete" ELSE "retry"
           s == Judged(disk, r, TRUE)
           c == [[ctl[p] EXCEPT !.pc = pc, !.run = r] EXCEPT !.mem = s]
<1>5. r \in Results /\ pc \in {"complete", "retry"} /\ (pc = "complete" => passed)
  BY DEF Effective, Results
<1>6. disk' = s /\ ctl' = [ctl EXCEPT ![p] = c]
  BY <1>2, <1>4 DEF Saves, Sees
<1> HIDE DEF r, pc
<1>7. /\ s \in States /\ s.completed = disk.completed /\ s.task = inflight
      /\ s.status = disk.status /\ s.last = disk.last /\ s.durable = disk.durable
  BY <1>2, <1>5 DEF States, Sees, Judged
<1> HIDE DEF s
<1>8. c \in Ctls /\ c.mem = s /\ c.pc = pc /\ c.plan = ctl[p].plan
  BY <1>2, <1>5, <1>7 DEF Ctls, Pcs, Inside, Sees
<1> HIDE DEF c
<1>9. DiskFits(s, inflight, refused, own)
  BY <1>2, <1>3, <1>7 DEF DiskFits, SessionOf, InFlightStatuses
<1>10. c.pc \in Inside /\ MemoryFits(c, s, inflight, refused, own)
  BY <1>2, <1>3, <1>5, <1>7, <1>8 DEF MemoryFits, Inside, Attempting, BeforeVerdict
<1>11. /\ proved' \subseteq Tasks /\ proved \subseteq proved' /\ s.completed \subseteq proved'
       /\ c.pc = "complete" => s.task \in proved'
  BY <1>2, <1>4, <1>5, <1>7, <1>8 DEF Sees
<1> QED BY <1>1, <1>2, <1>6, <1>7, <1>8, <1>9, <1>10, <1>11, WorkerSaves DEF Sees

LEMMA CompleteKeepsTCInv ==
  ASSUME TCInv, exclusive, NEW p \in Procs, UNCHANGED starts, Complete(p)
  PROVE  TCInv'
<1>1. /\ ctl[p].pc = "complete" /\ ctl[p].pc \in Inside \ {"enter"} /\ ctl[p].pc \in Attempting
      /\ inflight' = None /\ own' = FALSE /\ UNCHANGED <<lock, refused, proved, exclusive>>
  BY DEF Complete, At, Inside, Attempting
<1>2. Sees(p) /\ inflight # None /\ disk.task = inflight /\ disk.task \in proved
  BY <1>1, AtWorkSees, TaskInFlight DEF TCInv, Earned, Sees
<1> DEFINE pc == IF ctl[p].only = None THEN "pick" ELSE "exit"
           s == [disk EXCEPT !.completed = CompletedOf(disk), !.status = "idle",
                             !.task = None, !.attempt = 0]
           c == [[ctl[p] EXCEPT !.pc = pc, !.plan = NoPlan, !.run = None] EXCEPT !.mem = s]
<1>3. disk' = s /\ ctl' = [ctl EXCEPT ![p] = c]
  BY <1>2 DEF Complete, Saves, Sees
<1>4. CompletedOf(disk) \subseteq proved /\ CompletedOf(disk) \subseteq Tasks
  BY <1>2 DEF CompletedOf, Sees
<1>5. s \in States /\ s.completed = CompletedOf(disk) /\ s.status = "idle"
  <2>1. \A k \in SUBSET Tasks :
          LET d == [disk EXCEPT !.completed = k, !.status = "idle", !.task = None, !.attempt = 0]
          IN d \in States /\ d.completed = k /\ d.status = "idle"
    <3>1. 0 \in 0..MaxAttempts /\ "idle" \in Statuses
      BY AttemptsAssumption DEF Statuses
    <3>2. \A k \in SUBSET Tasks : [disk EXCEPT !.completed = k] \in States
      BY <1>2 DEF States, Sees
    <3>3. \A d \in States : [d EXCEPT !.status = "idle", !.task = None, !.attempt = 0] \in States
      BY <3>1 DEF States
    <3>4. \A k \in SUBSET Tasks :
            [disk EXCEPT !.completed = k, !.status = "idle", !.task = None, !.attempt = 0]
              = [[disk EXCEPT !.completed = k]
                   EXCEPT !.status = "idle", !.task = None, !.attempt = 0]
      BY <1>2 DEF States, Sees
    <3>5. \A k \in SUBSET Tasks :
            LET d == [disk EXCEPT !.completed = k, !.status = "idle", !.task = None, !.attempt = 0]
            IN d.completed = k /\ d.status = "idle"
      BY <1>2 DEF States, Sees
    <3> QED BY <3>2, <3>3, <3>4, <3>5
  <2> QED BY <1>4, <2>1
<1>6. pc \in {"pick", "exit"}
  OBVIOUS
<1> HIDE DEF s, pc
<1>7. c \in Ctls /\ c.mem = s /\ c.pc = pc
  BY <1>2, <1>5, <1>6, NoPlanType DEF Ctls, Pcs, Inside, Sees
<1> HIDE DEF c
<1>8. DiskFits(s, None, refused, FALSE)
  BY <1>5 DEF DiskFits
<1>9. c.pc \in Inside /\ MemoryFits(c, s, None, refused, FALSE)
  BY <1>6, <1>7 DEF MemoryFits, Inside, Attempting, BeforeVerdict
<1>10. /\ c.pc # "complete" /\ s.completed \subseteq proved /\ proved \subseteq Tasks
       /\ refused \in BOOLEAN
  BY <1>2, <1>4, <1>5, <1>6, <1>7 DEF Sees
<1> QED BY <1>1, <1>3, <1>5, <1>7, <1>8, <1>9, <1>10, WorkerSaves

LEMMA RetryKeepsTCInv ==
  ASSUME TCInv, exclusive, NEW p \in Procs, UNCHANGED starts, Retry(p)
  PROVE  TCInv'
<1>1. /\ ctl[p].pc = "retry" /\ ctl[p].pc \in Inside \ {"enter"} /\ ctl[p].pc \in Attempting
      /\ UNCHANGED <<lock, history>>
  BY DEF Retry, At, Inside, Attempting
<1>2. Sees(p) /\ inflight # None /\ disk.task = inflight /\ inflight \in Tasks \ disk.completed
      /\ disk.status \in InFlightStatuses
  BY <1>1, AtWorkSees, TaskInFlight
<1>3. /\ own => SessionOf(disk) \in {None, inflight}
      /\ own /\ ctl[p].plan.on => ctl[p].plan.session \in {None, inflight}
  BY <1>1, <1>2 DEF Sees, DiskFits, MemoryFits
<1>4. CASE ctl[p].uses < MaxRecoveries
  <2> DEFINE s == [disk EXCEPT !.status = "recovering"]
             c == [[ctl[p] EXCEPT !.pc = "recovery", !.uses = @ + 1] EXCEPT !.mem = s]
  <2>1. disk' = s /\ ctl' = [ctl EXCEPT ![p] = c]
    BY <1>2, <1>4 DEF Retry, Saves, Sees
  <2>2. /\ s \in States /\ s.completed = disk.completed /\ s.task = inflight
        /\ s.status = "recovering" /\ s.last = disk.last /\ s.durable = disk.durable
    BY <1>2 DEF States, Statuses, Sees
  <2> HIDE DEF s
  <2>3. ctl[p].uses + 1 \in 0..MaxRecoveries
    BY <1>2, <1>4, CtlFields, AttemptsAssumption DEF Sees
  <2>4. c \in Ctls /\ c.mem = s /\ c.pc = "recovery" /\ c.plan = ctl[p].plan
    BY <1>2, <2>2, <2>3 DEF Ctls, Pcs, Inside, Sees
  <2> HIDE DEF c
  <2>5. DiskFits(s, inflight, refused, own)
    BY <1>2, <1>3, <2>2 DEF DiskFits, SessionOf, InFlightStatuses
  <2>6. c.pc \in Inside /\ MemoryFits(c, s, inflight, refused, own)
    BY <1>2, <1>3, <2>2, <2>4 DEF MemoryFits, Inside, Attempting, BeforeVerdict
  <2> QED BY <1>1, <1>2, <2>1, <2>2, <2>4, <2>5, <2>6, WorkerSaves DEF Sees, history
<1>5. CASE ~(ctl[p].uses < MaxRecoveries)
  <2> DEFINE c == [ctl[p] EXCEPT !.pc = "stop"]
  <2>1. "stop" \in Inside \ {"complete"} /\ "stop" \in Pcs
    BY DEF Inside, Pcs
  <2>2. c.pc = "stop" /\ c.mem = disk
    BY <1>2, <2>1, GotoType DEF Sees
  <2>3. Goto(p, "stop") /\ UNCHANGED disk
    BY <1>5 DEF Retry
  <2> HIDE DEF c
  <2>4. MemoryFits(c, disk, inflight, refused, own)
    BY <1>2, <2>2 DEF MemoryFits, Inside, Attempting, BeforeVerdict
  <2> QED BY <1>1, <2>1, <2>3, <2>4, WorkerGoes DEF c
<1> QED BY <1>4, <1>5

\* The recovery agent's session is the task's, or the one it had.
LEMMA RecoveryKeepsTCInv ==
  ASSUME TCInv, exclusive, NEW p \in Procs, UNCHANGED starts, Recovery(p)
  PROVE  TCInv'
<1>1. /\ ctl[p].pc = "recovery" /\ ctl[p].pc \in Inside \ {"enter"} /\ ctl[p].pc \in Attempting
      /\ UNCHANGED <<lock, history>>
  BY DEF Recovery, At, Inside, Attempting
<1>2. Sees(p) /\ inflight # None /\ disk.task = inflight /\ inflight \in Tasks \ disk.completed
      /\ disk.status \in InFlightStatuses
  BY <1>1, AtWorkSees, TaskInFlight
<1>3. /\ own => SessionOf(disk) \in {None, inflight}
      /\ own /\ ctl[p].plan.on => ctl[p].plan.session \in {None, inflight}
  BY <1>1, <1>2 DEF Sees, DiskFits, MemoryFits
<1>4. PICK session \in {None, inflight, disk.last}, pc \in {"stop", "next"},
           r \in Results \cup {None} :
        LET s == [disk EXCEPT !.last = session]
        IN disk' = s /\ ctl' = [ctl EXCEPT ![p] = [[[ctl[p] EXCEPT !.pc = pc] EXCEPT !.run = r]
                                                    EXCEPT !.mem = s]]
  <2>1. ctl[p].mem = disk /\ ctl[p] \in Ctls /\ ctl[p].run \in Results \cup {None}
    BY <1>2, CtlFields DEF Sees
  <2>2. PICK session \in {None, inflight, disk.last} :
          \/ Saves(p, [disk EXCEPT !.last = session],
                   [ctl[p] EXCEPT !.pc = "stop", !.run = "BLOCKED"])
          \/ Saves(p, [disk EXCEPT !.last = session], [ctl[p] EXCEPT !.pc = "next"])
    BY <1>2, <2>1 DEF Recovery
  <2>3. /\ [ctl[p] EXCEPT !.pc = "stop", !.run = "BLOCKED"]
             = [[ctl[p] EXCEPT !.pc = "stop"] EXCEPT !.run = "BLOCKED"]
        /\ [ctl[p] EXCEPT !.pc = "next"]
             = [[ctl[p] EXCEPT !.pc = "next"] EXCEPT !.run = ctl[p].run]
    BY <2>1 DEF Ctls
  <2>4. "BLOCKED" \in Results
    BY DEF Results
  <2>5. CASE Saves(p, [disk EXCEPT !.last = session],
                   [ctl[p] EXCEPT !.pc = "stop", !.run = "BLOCKED"])
    BY <2>3, <2>4, <2>5 DEF Saves
  <2>6. CASE Saves(p, [disk EXCEPT !.last = session], [ctl[p] EXCEPT !.pc = "next"])
    BY <2>1, <2>3, <2>6 DEF Saves
  <2> QED BY <2>2, <2>5, <2>6
<1> DEFINE s == [disk EXCEPT !.last = session]
           c == [[[ctl[p] EXCEPT !.pc = pc] EXCEPT !.run = r] EXCEPT !.mem = s]
<1>5. disk' = s /\ ctl' = [ctl EXCEPT ![p] = c]
  BY <1>4
<1>6. /\ s \in States /\ s.completed = disk.completed /\ s.task = inflight
      /\ s.status = disk.status /\ s.last = session /\ s.durable = disk.durable
  BY <1>2, StateFields DEF States, Sees
<1> HIDE DEF s
<1>7. c \in Ctls /\ c.mem = s /\ c.pc = pc /\ c.plan = ctl[p].plan
  BY <1>2, <1>6 DEF Ctls, Pcs, Inside, Sees
<1> HIDE DEF c
<1>8. DiskFits(s, inflight, refused, own)
  BY <1>2, <1>3, <1>6 DEF DiskFits, SessionOf, InFlightStatuses
<1>9. c.pc \in Inside /\ MemoryFits(c, s, inflight, refused, own)
  BY <1>2, <1>3, <1>6, <1>7 DEF MemoryFits, Inside, Attempting, BeforeVerdict
<1> QED BY <1>1, <1>2, <1>5, <1>6, <1>7, <1>8, <1>9, WorkerSaves DEF Sees, history

\* A controller that stops records a result.
LEMMA StopKeepsTCInv ==
  ASSUME TCInv, exclusive, NEW p \in Procs, UNCHANGED starts, Stop(p)
  PROVE  TCInv'
<1>1. /\ ctl[p].pc = "stop" /\ ctl[p].pc \in Inside \ {"enter"}
      /\ inflight' = None /\ own' = FALSE /\ UNCHANGED <<lock, refused, proved, exclusive>>
  BY DEF Stop, At, Inside
<1>2. Sees(p)
  BY <1>1, AtWorkSees
<1> DEFINE status == IF ctl[p].run = "BLOCKED" THEN "blocked" ELSE "failed"
           s == [disk EXCEPT !.status = status, !.result = ctl[p].run]
           c == [[ctl[p] EXCEPT !.pc = "exit"] EXCEPT !.mem = s]
<1>3. disk' = s /\ ctl' = [ctl EXCEPT ![p] = c]
  BY <1>2 DEF Stop, Saves, Sees
<1>4. s \in States /\ s.completed = disk.completed /\ s.status = status /\ s.result = ctl[p].run
  BY <1>2, CtlFields DEF States, Statuses, Sees
<1>5. s.status = "blocked" => s.result # None
  <2>1. "BLOCKED" \in Results
    BY DEF Results
  <2> QED BY <1>4, <2>1, NamesAssumption
<1> HIDE DEF s, status
<1>6. c \in Ctls /\ c.mem = s /\ c.pc = "exit"
  BY <1>2, <1>4 DEF Ctls, Pcs, Inside, Sees
<1> HIDE DEF c
<1>7. DiskFits(s, None, refused, FALSE)
  BY <1>5 DEF DiskFits
<1>8. c.pc \in Inside /\ MemoryFits(c, s, None, refused, FALSE)
  BY <1>6 DEF MemoryFits, Inside, Attempting, BeforeVerdict
<1>9. s.completed \subseteq proved /\ proved \subseteq Tasks /\ refused \in BOOLEAN
  BY <1>2, <1>4 DEF Sees
<1> QED BY <1>1, <1>3, <1>4, <1>6, <1>7, <1>8, <1>9, WorkerSaves

LEMMA ThrowKeepsTCInv ==
  ASSUME TCInv, exclusive, NEW p \in Procs, UNCHANGED starts, Throw(p)
  PROVE  TCInv'
<1>1. /\ ctl[p].pc \in Inside /\ inflight' = None /\ own' = FALSE
      /\ UNCHANGED <<lock, refused, proved, exclusive>>
  BY DEF Throw
<1>2. /\ ctl[p] \in Ctls /\ ctl \in [Procs -> Ctls] /\ disk \in States
      /\ disk.completed \subseteq proved /\ proved \subseteq Tasks /\ refused \in BOOLEAN
  BY <1>1, AtWork
<1> DEFINE s == [disk EXCEPT !.status = "error"]
           c == [[ctl[p] EXCEPT !.pc = "exit"] EXCEPT !.mem = s]
<1>3. disk' = s /\ ctl' = [ctl EXCEPT ![p] = c]
  BY DEF Throw, Saves
<1>4. s \in States /\ s.completed = disk.completed /\ s.status = "error"
  BY <1>2 DEF States, Statuses
<1> HIDE DEF s
<1>5. c \in Ctls /\ c.mem = s /\ c.pc = "exit"
  BY <1>2, <1>4 DEF Ctls, Pcs, Inside
<1> HIDE DEF c
<1>6. DiskFits(s, None, refused, FALSE)
  BY <1>4 DEF DiskFits
<1>7. c.pc \in Inside /\ MemoryFits(c, s, None, refused, FALSE)
  BY <1>5 DEF MemoryFits, Inside, Attempting, BeforeVerdict
<1> QED BY <1>1, <1>2, <1>3, <1>4, <1>5, <1>6, <1>7, WorkerSaves

\* The operator's repair writes what it has read: only as long as nobody works
\* and the file is what it was does it write over nothing.
LEMMA MendKeepsTCInv ==
  ASSUME TCInv, exclusive, NEW p \in Procs, UNCHANGED starts, Mend(p)
  PROVE  TCInv'
<1>1. /\ ctl[p] \in Ctls /\ ctl \in [Procs -> Ctls] /\ ctl[p].pc = "mend"
      /\ ctl' = [ctl EXCEPT ![p] = Off] /\ inflight' = ctl[p].only /\ refused' = FALSE
      /\ own' = (own /\ inflight = ctl[p].only) /\ UNCHANGED <<lock, proved>>
      /\ exclusive' = (exclusive /\ disk = ctl[p].mem /\ \A q \in Procs : ctl[q].pc \notin Inside)
  BY Working DEF Mend, At, Ends
<1>2. /\ ctl[p].mem \in States /\ ctl[p].only \in Tasks \cup {None}
      /\ ctl[p].mem.completed \subseteq proved /\ own \in BOOLEAN
      /\ ctl[p].only \notin ctl[p].mem.completed
  BY <1>1, Working, CtlFields, Typed DEF TCInv, Earned, MemoryFits
<1> DEFINE m == ctl[p].mem
           s == [m EXCEPT !.status = "interrupted", !.task = ctl[p].only,
                          !.durable = SessionOf(m), !.result = None]
<1>3. disk' = s
  BY DEF Mend
<1>4. /\ s \in States /\ s.status = "interrupted" /\ s.task = ctl[p].only
      /\ s.completed = m.completed /\ s.durable = SessionOf(m) /\ s.last = m.last
  <2>1. SessionOf(m) \in Tasks \cup {None}
    BY <1>2, StateFields
  <2> QED BY <1>2, <2>1 DEF States, Statuses
<1> HIDE DEF s
<1>5. ctl'[p] = Off /\ \A q \in Procs \ {p} : ctl'[q] = ctl[q]
  BY <1>1
<1>6. own' \in BOOLEAN /\ exclusive' \in BOOLEAN /\ (own' => own /\ inflight = ctl[p].only)
      /\ (exclusive' => disk = m /\ \A q \in Procs : ctl[q].pc \notin Inside)
  BY <1>1, <1>2, Zenon
<1>7. TypeOK'
  <2>1. ctl' \in [Procs -> Ctls]
    BY <1>1, OffType
  <2>2. /\ starts' \in 0..MaxStarts /\ proved' \subseteq Tasks
        /\ lock' \in [owner : Procs \cup {None, Dead}, ready : BOOLEAN]
    BY <1>1, Typed DEF TCInv
  <2> QED BY <1>1, <1>2, <1>3, <1>4, <1>6, <2>1, <2>2 DEF TypeOK, Ctls, Pcs, Plans
<1>8. Earned'
  BY <1>1, <1>2, <1>3, <1>4, <1>5, OffType DEF TCInv, Earned
<1>9. ASSUME exclusive' PROVE AllFit'
  <2>1. \A q \in Procs : ctl[q].pc \notin Inside
    BY <1>6, <1>9
  <2>2. Off.pc \notin Inside \cup {"fill"} /\ Off.pc # "mend"
    BY OffType DEF Inside
  <2>3. LockFits'
    <3>1. LockFits /\ lock.owner # p
      BY <1>1 DEF TCInv, AllFit, LockFits, Inside
    <3> QED BY <1>1, <1>5, <2>2, <3>1 DEF LockFits
  <2>4. DiskFits(s, inflight', refused', own')
    <3>1. own' => /\ inflight # None /\ inflight = ctl[p].only
                  /\ SessionOf(m) \in {None, inflight}
      BY <1>6, <1>9, Working DEF DiskFits
    <3> QED BY <1>1, <1>2, <1>4, <3>1 DEF DiskFits, SessionOf, InFlightStatuses
  <2>5. \A q \in Procs : MemoryFits(ctl'[q], disk', inflight', refused', own')
    <3>1. \A q \in Procs : /\ ctl'[q].pc \notin Inside
                           /\ ctl'[q].pc = "mend" => /\ ctl'[q].only \notin ctl'[q].mem.completed
                                                     /\ ctl'[q].mem.task \in {None, ctl'[q].only}
      BY <1>5, <2>1, <2>2, Working DEF MemoryFits
    <3> QED BY <3>1 DEF MemoryFits, Inside, Attempting, BeforeVerdict
  <2> QED BY <1>3, <2>3, <2>4, <2>5 DEF AllFit, DiskFits, MemoryFits
<1> QED BY <1>7, <1>8, <1>9 DEF TCInv

\* Every step keeps the invariant.
LEMMA TCInvStep == TCInv /\ [Next]_vars => TCInv'
<1> SUFFICES ASSUME TCInv, [Next]_vars PROVE TCInv'
  OBVIOUS
<1>1. ASSUME exclusive, NEW p \in Procs, Start(p) PROVE TCInv'
  BY <1>1, StartKeepsTCInv
<1>2. ASSUME exclusive, NEW p \in Procs, UNCHANGED starts, Takes(p) PROVE TCInv'
  BY <1>2, LooksKeepTCInv, CreateKeepsTCInv, FillKeepsTCInv, RemovalKeepsTCInv, RepairKeepsTCInv,
     MendKeepsTCInv DEF Takes
<1>3. ASSUME exclusive, NEW p \in Procs, UNCHANGED starts, Works(p) PROVE TCInv'
  BY <1>3, EnterKeepsTCInv, NothingLeftKeepsTCInv, PickKeepsTCInv, PreflightKeepsTCInv,
     AgentKeepsTCInv, DetachKeepsTCInv, PostflightKeepsTCInv, VerifyKeepsTCInv,
     CompleteKeepsTCInv, RetryKeepsTCInv, RecoveryKeepsTCInv, AgainKeepsTCInv,
     LeaveKeepsTCInv, StopKeepsTCInv, ThrowKeepsTCInv, EndsKeepTCInv DEF Works
<1>4. ASSUME exclusive, NEW p \in Procs, UNCHANGED starts, Crash(p) PROVE TCInv'
  BY <1>4, EndsKeepTCInv
<1>5. CASE UNCHANGED vars
  BY <1>5 DEF vars, TCInv, TypeOK, Earned, AllFit, LockFits, DiskFits, MemoryFits
<1> QED BY <1>1, <1>2, <1>3, <1>4, <1>5 DEF Next

\* Type correctness and everything the proofs below rest on.
THEOREM ControllerInvariant == Spec => []TCInv
<1>1. Init => TCInv
  BY InitTCInv
<1>2. TCInv /\ [Next]_vars => TCInv'
  BY TCInvStep
<1> QED BY <1>1, <1>2, PTL DEF Spec

\* A controller that works on the state file holds the lock, whoever starts, is
\* killed, or reclaims a lock at the same time, for any number of processes.
THEOREM OneController == Spec => []ControllersAreExclusive
<1>1. TCInv => ControllersAreExclusive
  BY DEF TCInv, AllFit, LockFits, ControllersAreExclusive, WorkersHoldTheLock
<1> QED BY <1>1, ControllerInvariant, PTL

\* Wherever a controller was killed, the next start resumes that very task, in
\* its own session, and never over an agent's BLOCKED.
THEOREM RestartsResume == Spec => []RestartsResumeTheirTask
<1>1. TCInv => RestartsResumeTheirTask
  <2> SUFFICES ASSUME TCInv, exclusive
               PROVE  RestartsResumeTheirTask
    BY DEF RestartsResumeTheirTask, InterruptedIsFound, ArtifactsHideNoVerdict,
           OwnSessionIsResumed
  <2>1. DiskFits(disk, inflight, refused, own)
    BY DEF TCInv, AllFit
  <2>2. InterruptedIsFound
    BY <2>1 DEF InterruptedIsFound, DiskFits, PlanFor, IsInterrupted
  <2>3. ArtifactsHideNoVerdict
    BY <2>1 DEF ArtifactsHideNoVerdict, DiskFits, IsInterrupted, IsArtifact, InFlightStatuses
  <2>4. OwnSessionIsResumed
    BY <2>1 DEF OwnSessionIsResumed, DiskFits, PlanFor, NoPlan
  <2> QED BY <2>2, <2>3, <2>4 DEF RestartsResumeTheirTask
<1> QED BY <1>1, ControllerInvariant, PTL

-------------------------------------------------------------------------------
\* Whoever writes the file starts from what is in it: a worker because its
\* memory is the file, an operator as long as the file is still what was read.
LEMMA CompletedGrows ==
  ASSUME TCInv, [Next]_vars
  PROVE  exclusive' => disk.completed \subseteq disk'.completed
<1>1. CASE UNCHANGED disk
  BY <1>1
<1>2. ASSUME exclusive, NEW p \in Procs, Mend(p)
      PROVE  exclusive' => disk.completed \subseteq disk'.completed
  <2>1. ctl[p].mem \in States
    BY <1>2, Working, CtlFields
  <2>2. disk'.completed = ctl[p].mem.completed /\ (exclusive' => disk = ctl[p].mem)
    BY <1>2, <2>1 DEF Mend, States
  <2> QED BY <2>2
<1>3. ASSUME exclusive, NEW p \in Procs, Works(p), ~(UNCHANGED disk)
      PROVE  disk.completed \subseteq disk'.completed
  <2>1. ctl[p].pc \in Inside /\ ctl[p].pc # "exit"
    BY <1>3 DEF Works, Enter, NothingLeft, Pick, Preflight, Agent, Detach, Postflight, Verify,
                Complete, Retry, Recovery, Again, Leave, Stop, Throw, Exit, At, Inside
  <2>2. disk \in States /\ (ctl[p].pc # "enter" => ctl[p].mem = disk)
    BY <1>3, <2>1, AtWork
  <2>3. CASE Enter(p) \/ Throw(p)
    BY <2>2, <2>3 DEF Enter, Throw, Saves, States
  <2>4. ctl[p] \in Ctls
    BY <1>3, <2>1, AtWork
  <2>5. ASSUME NothingLeft(p) \/ Preflight(p) \/ Postflight(p) \/ Retry(p) \/ Agent(p)
                 \/ Detach(p) \/ Verify(p) \/ Recovery(p)
        PROVE  disk.completed \subseteq disk'.completed
    <3>1. ctl[p].mem = disk
      BY <2>2, <2>5 DEF NothingLeft, Preflight, Postflight, Retry, Agent, Detach, Verify,
                        Recovery, At
    <3>2. CASE NothingLeft(p)
      <4>1. disk' = [disk EXCEPT !.status = "complete", !.task = None]
        BY <1>3, <3>1, <3>2 DEF NothingLeft, Saves
      <4> QED BY <2>2, <4>1 DEF States
    <3>3. CASE Preflight(p) \/ Postflight(p) \/ Retry(p)
      <4>1. PICK x, r : \/ disk' = [disk EXCEPT !.status = x]
                        \/ disk' = [disk EXCEPT !.result = r, !.verified = FALSE]
        BY <1>3, <3>1, <3>3 DEF Preflight, Postflight, Retry, Blocks, Judged, Saves
      <4> QED BY <2>2, <4>1 DEF States
    <3>4. CASE Recovery(p)
      <4>1. PICK x : disk' = [disk EXCEPT !.last = x]
        BY <3>1, <3>4 DEF Recovery, Saves
      <4> QED BY <2>2, <4>1 DEF States
    <3>5. CASE Agent(p)
      <4>1. PICK x : disk' = Reported(disk, x)
        BY <3>1, <3>5 DEF Agent, Saves
      <4> QED BY <2>2, <4>1 DEF States, Reported
    <3>6. CASE Detach(p)
      <4>1. disk' = [disk EXCEPT !.durable = None]
        BY <3>1, <3>6 DEF Detach, Saves
      <4> QED BY <2>2, <4>1 DEF States
    <3>7. CASE Verify(p)
      <4>1. PICK r : disk' = Judged(disk, r, TRUE)
        BY <3>1, <3>7 DEF Verify, Saves
      <4> QED BY <2>2, <4>1 DEF States, Judged
    <3> QED BY <2>5, <3>2, <3>3, <3>4, <3>5, <3>6, <3>7
  <2>6. CASE Pick(p) \/ Again(p)
    <3>1. ctl[p].mem = disk /\ [ctl[p] EXCEPT !.uses = 0].mem = disk
      BY <2>2, <2>4, <2>6 DEF Pick, Again, At, Ctls
    <3>2. PICK t, n : disk' = Begun(disk, t, n)
      BY <1>3, <2>6, <3>1 DEF Pick, Again, Begins, Saves
    <3> QED BY <2>2, <3>2 DEF States, Begun
  <2>7. CASE Complete(p)
    BY <2>2, <2>7 DEF Complete, CompletedOf, Saves, States, At
  <2>8. CASE Stop(p)
    BY <2>2, <2>8 DEF Stop, Saves, States, At
  <2>9. CASE Leave(p) \/ Exit(p)
    BY <1>3, <2>9 DEF Leave, Exit
  <2> QED BY <1>3, <2>3, <2>4, <2>5, <2>6, <2>7, <2>8, <2>9 DEF Works
<1>4. ASSUME exclusive, NEW p \in Procs, ~(UNCHANGED disk),
             Start(p) \/ Takes(p) \/ Works(p) \/ Crash(p)
      PROVE  Mend(p) \/ Works(p)
  BY <1>4 DEF Start, Takes, Check, Inspect, Look, Create, CreateFails, Judge, Remove, Fill, Reset,
              Clear, Repair, Crash
<1> QED BY <1>1, <1>2, <1>3, <1>4 DEF Next, vars

\* A task is completed only by a PASS that the gates confirmed, and no
\* controller, start or kill takes it off the record.
THEOREM CompletionsAreEarned == Spec => CompletionIsEarned
<1>1. TCInv /\ TCInv' /\ [Next]_vars
        => [/\ disk'.completed \subseteq proved'
            /\ exclusive' => disk.completed \subseteq disk'.completed]_<<disk, proved>>
  BY CompletedGrows DEF TCInv, Earned
<1> QED BY <1>1, ControllerInvariant, PTL DEF Spec, CompletionIsEarned

-------------------------------------------------------------------------------
\* The measure of RetriesRunOut, taken apart: a task is worth more than all its
\* attempts, an attempt more than all its stages.
Room == 10 * (MaxAttempts + 1)
Undone(c) == Cardinality(Tasks \ c.mem.completed)

LEMMA TasksAreFinite == IsFiniteSet(Tasks)
<1>1. Roadmap \in Seq(Tasks) /\ DOMAIN Roadmap = 1..Len(Roadmap) /\ Len(Roadmap) \in Nat
  BY RoadmapAssumption
<1>2. IsFiniteSet(1..Len(Roadmap))
  BY <1>1, FS_Interval
<1>3. Roadmap \in Surjection(1..Len(Roadmap), Tasks)
  BY <1>1 DEF Surjection, Tasks
<1> QED BY <1>2, <1>3, FS_Surjection

LEMMA UndoneType ==
  ASSUME NEW c \in Ctls
  PROVE  /\ Undone(c) \in Nat /\ Cardinality(Tasks) \in Nat /\ Undone(c) <= Cardinality(Tasks)
         /\ \A t \in Tasks \ c.mem.completed : Undone(c) > 0
<1>1. /\ IsFiniteSet(Tasks \ c.mem.completed)
      /\ Cardinality(Tasks \ c.mem.completed) <= Cardinality(Tasks)
  BY TasksAreFinite, FS_Subset
<1>2. Undone(c) \in Nat /\ Cardinality(Tasks) \in Nat
  BY <1>1, TasksAreFinite, FS_CardinalityType DEF Undone
<1>3. ASSUME NEW t \in Tasks \ c.mem.completed PROVE Undone(c) # 0
  BY <1>1, <1>3, FS_EmptySet DEF Undone
<1> QED BY <1>1, <1>2, <1>3 DEF Undone

LEMMA RoomFor ==
  ASSUME NEW m \in Nat
  PROVE  /\ MaxAttempts \in Nat /\ Room \in Nat /\ Room = 10 * MaxAttempts + 10
         /\ Room * m \in Nat /\ Room * (m + 1) = Room * m + Room
<1>1. MaxAttempts \in Nat /\ Room \in Nat /\ Room = 10 * MaxAttempts + 10
  BY AttemptsAssumption DEF Room
<1>2. \A r \in Nat : r * m \in Nat /\ r * (m + 1) = r * m + r
  OBVIOUS
<1> HIDE DEF Room
<1>3. Room * m \in Nat /\ Room * (m + 1) = Room * m + Room
  BY <1>1, <1>2
<1> QED BY <1>1, <1>3

LEMMA RoomKeeps ==
  ASSUME NEW m \in Nat, NEW n \in Nat, m <= n
  PROVE  Room * m <= Room * n
<1> DEFINE d == n - m
<1>1. d \in Nat /\ n = m + d
  OBVIOUS
<1> HIDE DEF d
<1>2. \A r \in Nat : r * (m + d) = r * m + r * d /\ r * d \in Nat /\ r * m \in Nat
  BY <1>1
<1>3. Room * (m + d) = Room * m + Room * d /\ Room * d \in Nat /\ Room * m \in Nat
  BY <1>2, RoomFor
<1>4. Room * n = Room * m + Room * d
  BY <1>1, <1>3
<1> QED BY <1>3, <1>4

LEMMA RoomGrows ==
  ASSUME NEW m \in Nat, NEW n \in Nat, m < n
  PROVE  Room * m + Room <= Room * n
<1>1. m + 1 \in Nat /\ m + 1 <= n
  OBVIOUS
<1>2. Room * (m + 1) <= Room * n
  BY <1>1, RoomKeeps
<1> QED BY <1>2, RoomFor

LEMMA LeftAttempting ==
  ASSUME NEW c \in Ctls, c.pc \in Attempting \cup {"stop"}
  PROVE  /\ Left(c) = Room * Undone(c) + 10 * (MaxAttempts - c.mem.attempt) + StageOf(c)
         /\ StageOf(c) \in 0..9
         /\ 10 * (MaxAttempts - c.mem.attempt) \in Nat
<1>1. MaxAttempts \in Nat /\ c.mem.attempt \in 0..MaxAttempts
  BY CtlFields, StateFields, AttemptsAssumption
<1>2. StageOf(c) \in 0..9
  BY DEF StageOf, Attempting
<1>3. Left(c) = Room * Undone(c) + 10 * (MaxAttempts - c.mem.attempt) + StageOf(c)
  BY DEF Left, Room, Undone, Attempting
<1> QED BY <1>1, <1>2, <1>3

LEMMA LeftPicking ==
  ASSUME NEW c \in Ctls, c.pc = "pick"
  PROVE  /\ Left(c) = Room * Undone(c) + 10 * MaxAttempts
         /\ MaxAttempts \in Nat /\ MaxAttempts > 0
<1>1. MaxAttempts \in Nat /\ MaxAttempts > 0
  BY AttemptsAssumption
<1>2. Left(c) = Room * Undone(c) + 0 + 10 * MaxAttempts
  BY DEF Left, Room, Undone, StageOf
<1>3. Room * Undone(c) \in Nat
  BY UndoneType, RoomFor
<1> QED BY <1>1, <1>2, <1>3

\* There is always something left before the exit.
LEMMA LeftIsPositive ==
  ASSUME NEW c \in Ctls, c.pc \in Inside \ {"exit"},
         c.pc \in Attempting \cup {"stop"} => c.mem.task \in Tasks \ c.mem.completed
  PROVE  Left(c) > 0
<1>1. MaxAttempts \in Nat /\ MaxAttempts > 0
  BY AttemptsAssumption
<1>2. CASE c.pc = "enter"
  <2>1. Left(c) = Room * (Cardinality(Tasks) + 1)
    BY <1>2 DEF Left, Room
  <2> QED BY <1>1, <2>1, UndoneType, RoomFor
<1>3. CASE c.pc = "pick"
  <2>1. Room * Undone(c) \in Nat
    BY UndoneType, RoomFor
  <2> QED BY <1>1, <1>3, <2>1, LeftPicking
<1>4. CASE c.pc \in Attempting \cup {"stop"}
  <2>1. Undone(c) \in Nat /\ Undone(c) > 0
    BY <1>4, UndoneType
  <2>2. Room * 0 + Room <= Room * Undone(c) /\ Room * Undone(c) \in Nat /\ Room \in Nat
        /\ Room = 10 * MaxAttempts + 10 /\ Room * 0 \in Nat
    BY <2>1, RoomFor, RoomGrows
  <2> QED BY <1>1, <1>4, <2>2, LeftAttempting
<1> QED BY <1>2, <1>3, <1>4 DEF Inside, Attempting

\* From one stage of an attempt to a later one.
LEMMA StagesCountDown ==
  ASSUME NEW c \in Ctls, NEW d \in Ctls,
         c.pc \in Attempting \cup {"stop"}, d.pc \in Attempting \cup {"stop"},
         d.mem.completed = c.mem.completed, d.mem.attempt = c.mem.attempt,
         StageOf(d) < StageOf(c)
  PROVE  Left(d) < Left(c)
<1>1. Undone(d) = Undone(c)
  BY DEF Undone
<1>2. Room * Undone(c) \in Nat
  BY UndoneType, RoomFor
<1> QED BY <1>1, <1>2, LeftAttempting

\* An attempt takes its stages in their order, whoever answers what.
LEMMA AttemptsCountDown ==
  ASSUME TCInv, TCInv', exclusive, NEW p \in Procs,
         Preflight(p) \/ Agent(p) \/ Detach(p) \/ Postflight(p) \/ Verify(p) \/ Retry(p)
           \/ Recovery(p)
  PROVE  Left(ctl'[p]) < Left(ctl[p])
<1> DEFINE c == ctl[p]
           d == ctl'[p]
<1>1. c.pc \in Attempting /\ c.pc \in Inside \ {"enter"}
  BY DEF Preflight, Agent, Detach, Postflight, Verify, Retry, Recovery, At, Attempting, Inside
<1>2. c \in Ctls /\ d \in Ctls /\ disk \in States /\ c.mem = disk /\ ctl \in [Procs -> Ctls]
  <2>1. Sees(p)
    BY <1>1, AtWorkSees
  <2>2. d \in Ctls
    BY DEF TCInv, TypeOK, Ctls, Pcs, Plans
  <2> QED BY <2>1, <2>2 DEF Sees
<1>3. c.plan \in Plans
  BY <1>2, CtlFields
<1>4. CASE Preflight(p)
  <2>1. /\ c.pc = "preflight" /\ d.pc \in {"agent", "stop"}
        /\ d.mem.completed = c.mem.completed /\ d.mem.attempt = c.mem.attempt
    <3>1. CASE Goto(p, "agent")
      BY <1>2, <1>4, <3>1 DEF Preflight, At, Goto, Ctls
    <3>2. CASE Blocks(p)
      <4>1. d = [[c EXCEPT !.pc = "stop", !.run = "BLOCKED"]
                  EXCEPT !.mem = [disk EXCEPT !.status = "blocked"]]
        BY <1>2, <3>2 DEF Blocks, Saves
      <4> QED BY <1>2, <1>4, <4>1 DEF Preflight, At, Ctls, States
    <3> QED BY <1>4, <3>1, <3>2 DEF Preflight
  <2>2. StageOf(c) = 9 /\ StageOf(d) < 9
    BY <2>1 DEF StageOf
  <2> QED BY <1>1, <1>2, <2>1, <2>2, StagesCountDown DEF Attempting
<1>5. CASE Agent(p)
  <2>1. c.pc = "agent" /\ StageOf(c) = IF c.plan.on /\ c.plan.session # None THEN 8 ELSE 6
    BY <1>5 DEF Agent, At, StageOf
  <2>2. PICK x : \/ /\ d.pc = "postflight" /\ d.mem = Reported(disk, x)
                 \/ /\ d.pc = "detach" /\ d.mem = Reported(disk, x)
                    /\ c.plan.on /\ c.plan.session # None
    <3> DEFINE resumed == IF c.plan.on THEN c.plan.session ELSE None
    <3>1. CASE \E r \in Results, session \in {None, c.mem.task, resumed} :
                 Saves(p, Reported(c.mem, session), [c EXCEPT !.pc = "postflight", !.run = r])
      <4>0. PICK r \in Results, x \in {None, c.mem.task, resumed} :
              Saves(p, Reported(disk, x), [c EXCEPT !.pc = "postflight", !.run = r])
        BY <1>2, <3>1
      <4>1. d = [[c EXCEPT !.pc = "postflight", !.run = r] EXCEPT !.mem = Reported(disk, x)]
        BY <1>2, <4>0 DEF Saves
      <4>2. d.pc = "postflight" /\ d.mem = Reported(disk, x)
        BY <1>2, <4>1 DEF Ctls
      <4> HIDE DEF d
      <4> QED BY <4>2
    <3>2. CASE \E session \in {c.mem.task, resumed} :
                 resumed # None /\ Saves(p, Reported(c.mem, session), [c EXCEPT !.pc = "detach"])
      <4>1. PICK x : d = [[c EXCEPT !.pc = "detach"] EXCEPT !.mem = Reported(disk, x)]
        BY <1>2, <3>2 DEF Saves
      <4>2. d.pc = "detach" /\ d.mem = Reported(disk, x)
        BY <1>2, <4>1 DEF Ctls
      <4>3. c.plan.on /\ c.plan.session # None
        BY <3>2
      <4> HIDE DEF d
      <4> QED BY <4>2, <4>3
    <3> QED BY <1>5, <3>1, <3>2 DEF Agent
  <2>3. d.mem.completed = c.mem.completed /\ d.mem.attempt = c.mem.attempt
    BY <1>2, <2>2 DEF Reported, States
  <2>4. StageOf(d) < StageOf(c) /\ d.pc \in Attempting
    BY <2>1, <2>2 DEF StageOf, Attempting
  <2> QED BY <1>1, <1>2, <2>3, <2>4, StagesCountDown
<1>6. CASE Detach(p)
  <2>1. /\ c.pc = "detach"
        /\ d = [[c EXCEPT !.pc = "agent",
                          !.plan = [on |-> TRUE, task |-> disk.task, attempt |-> disk.attempt,
                                    session |-> None]]
                 EXCEPT !.mem = [disk EXCEPT !.durable = None]]
    BY <1>2, <1>6 DEF Detach, Saves, At
  <2>2. /\ d.pc = "agent" /\ d.plan.session = None
        /\ d.mem.completed = c.mem.completed /\ d.mem.attempt = c.mem.attempt
    BY <1>2, <2>1 DEF Ctls, States
  <2>3. StageOf(c) = 7 /\ StageOf(d) = 6 /\ d.pc \in Attempting
    BY <2>1, <2>2 DEF StageOf, Attempting
  <2> QED BY <1>1, <1>2, <2>2, <2>3, StagesCountDown
<1>7. CASE Postflight(p)
  <2>1. c.pc = "postflight"
    BY <1>7 DEF Postflight, At
  <2>2. PICK pc \in {"stop", "verify", "retry"}, r \in {"BLOCKED", c.run}, s \in States :
          /\ s.completed = disk.completed /\ s.attempt = disk.attempt
          /\ d = [[[c EXCEPT !.pc = pc] EXCEPT !.run = r] EXCEPT !.mem = s]
    <3>1. \A pc \in {"stop", "verify", "retry"} :
            [[c EXCEPT !.pc = pc] EXCEPT !.run = c.run] = [c EXCEPT !.pc = pc]
      BY <1>2 DEF Ctls
    <3>2. CASE Blocks(p)
      <4> DEFINE s == [disk EXCEPT !.status = "blocked"]
      <4>1. d = [[c EXCEPT !.pc = "stop", !.run = "BLOCKED"] EXCEPT !.mem = s]
        BY <1>2, <3>2 DEF Blocks, Saves
      <4>2. s \in States /\ s.completed = disk.completed /\ s.attempt = disk.attempt
        BY <1>2 DEF States, Statuses
      <4>3. [c EXCEPT !.pc = "stop", !.run = "BLOCKED"]
              = [[c EXCEPT !.pc = "stop"] EXCEPT !.run = "BLOCKED"]
        BY <1>2 DEF Ctls
      <4> HIDE DEF s, d
      <4> QED BY <4>1, <4>2, <4>3
    <3>3. CASE Saves(p, [c.mem EXCEPT !.status = "verifying"], [c EXCEPT !.pc = "verify"])
      <4> DEFINE s == [disk EXCEPT !.status = "verifying"]
      <4>1. d = [[c EXCEPT !.pc = "verify"] EXCEPT !.mem = s]
        BY <1>2, <3>3 DEF Saves
      <4>2. s \in States /\ s.completed = disk.completed /\ s.attempt = disk.attempt
        BY <1>2 DEF States, Statuses
      <4> HIDE DEF s, d
      <4> QED BY <3>1, <4>1, <4>2
    <3>4. CASE Saves(p, Judged(c.mem, c.run, FALSE),
                     [c EXCEPT !.pc = IF c.run = "BLOCKED" THEN "stop" ELSE "retry"])
      <4> DEFINE s == Judged(disk, c.run, FALSE)
                 pc == IF c.run = "BLOCKED" THEN "stop" ELSE "retry"
      <4>1. d = [[c EXCEPT !.pc = pc] EXCEPT !.mem = s]
        BY <1>2, <3>4 DEF Saves
      <4>2. s \in States /\ s.completed = disk.completed /\ s.attempt = disk.attempt
        BY <1>2, CtlFields DEF States, Judged
      <4>3. pc \in {"stop", "verify", "retry"}
        OBVIOUS
      <4> HIDE DEF s, d, pc
      <4> QED BY <3>1, <4>1, <4>2, <4>3
    <3> QED BY <1>7, <3>2, <3>3, <3>4 DEF Postflight
  <2>3. d.pc = pc /\ d.mem = s
    BY <1>2, <2>2 DEF Ctls
  <2>4. StageOf(c) = 5 /\ StageOf(d) < 5 /\ d.pc \in Attempting \cup {"stop"}
    BY <2>1, <2>3 DEF StageOf, Attempting
  <2> QED BY <1>1, <1>2, <2>2, <2>3, <2>4, StagesCountDown
<1>8. CASE Verify(p)
  <2>1. PICK pc \in {"complete", "retry"}, r \in {"PASS", "FAIL"} :
          d = [[c EXCEPT !.pc = pc, !.run = r] EXCEPT !.mem = Judged(disk, r, TRUE)]
    BY <1>2, <1>8 DEF Verify, Saves, Effective
  <2>2. /\ c.pc = "verify" /\ d.pc = pc
        /\ d.mem.completed = c.mem.completed /\ d.mem.attempt = c.mem.attempt
    <3>1. c.pc = "verify" /\ d.pc = pc /\ d.mem = Judged(disk, r, TRUE)
      BY <1>2, <1>8, <2>1 DEF Verify, At, Ctls
    <3> HIDE DEF d
    <3> QED BY <1>2, <3>1 DEF States, Judged
  <2>3. StageOf(c) = 4 /\ StageOf(d) < 4 /\ d.pc \in Attempting
    BY <2>2 DEF StageOf, Attempting
  <2> QED BY <1>1, <1>2, <2>2, <2>3, StagesCountDown
<1>9. CASE Retry(p)
  <2>1. /\ c.pc = "retry" /\ d.pc \in {"recovery", "stop"}
        /\ d.mem.completed = c.mem.completed /\ d.mem.attempt = c.mem.attempt
    <3>1. CASE Goto(p, "stop")
      BY <1>2, <1>9, <3>1 DEF Retry, At, Goto, Ctls
    <3>2. CASE Saves(p, [c.mem EXCEPT !.status = "recovering"],
                     [c EXCEPT !.pc = "recovery", !.uses = @ + 1])
      <4>1. d = [[c EXCEPT !.pc = "recovery", !.uses = @ + 1]
                  EXCEPT !.mem = [disk EXCEPT !.status = "recovering"]]
        BY <1>2, <3>2 DEF Saves
      <4> QED BY <1>2, <1>9, <4>1 DEF Retry, At, Ctls, States
    <3> QED BY <1>9, <3>1, <3>2 DEF Retry
  <2>2. StageOf(c) = 3 /\ StageOf(d) < 3 /\ d.pc \in Attempting \cup {"stop"}
    BY <2>1 DEF StageOf, Attempting
  <2> QED BY <1>1, <1>2, <2>1, <2>2, StagesCountDown
<1>10. CASE Recovery(p)
  <2>1. PICK x, r : \/ d = [[c EXCEPT !.pc = "stop", !.run = r]
                             EXCEPT !.mem = [disk EXCEPT !.last = x]]
                    \/ d = [[c EXCEPT !.pc = "next"] EXCEPT !.mem = [disk EXCEPT !.last = x]]
    BY <1>2, <1>10 DEF Recovery, Saves
  <2>2. /\ c.pc = "recovery" /\ d.pc \in {"next", "stop"}
        /\ d.mem.completed = c.mem.completed /\ d.mem.attempt = c.mem.attempt
    <3>1. c.pc = "recovery" /\ d.pc \in {"next", "stop"} /\ d.mem = [disk EXCEPT !.last = x]
      BY <1>2, <1>10, <2>1 DEF Recovery, At, Ctls
    <3> HIDE DEF d
    <3> QED BY <1>2, <3>1 DEF States
  <2>3. StageOf(c) = 2 /\ StageOf(d) < 2 /\ d.pc \in Attempting \cup {"stop"}
    BY <2>2 DEF StageOf, Attempting
  <2> QED BY <1>1, <1>2, <2>2, <2>3, StagesCountDown
<1> QED BY <1>4, <1>5, <1>6, <1>7, <1>8, <1>9, <1>10

\* A controller that comes to its exit had something left.
LEMMA ExitsCountDown ==
  ASSUME TCInv, exclusive, NEW p \in Procs, ctl[p].pc \in Inside \ {"exit"},
         ctl'[p].pc = "exit"
  PROVE  Left(ctl'[p]) < Left(ctl[p])
<1>1. Left(ctl'[p]) = 0
  BY DEF Left
<1>2. ctl[p] \in Ctls /\ MemoryFits(ctl[p], disk, inflight, refused, own)
  BY AtWork
<1>3. ctl[p].pc \in Attempting \cup {"stop"} => ctl[p].mem.task \in Tasks \ ctl[p].mem.completed
  BY <1>2 DEF MemoryFits
<1>4. Left(ctl[p]) > 0
  BY <1>2, <1>3, LeftIsPositive
<1> QED BY <1>1, <1>4

\* What remains once a controller has read the file is less than before.
LEMMA EnterCountsDown ==
  ASSUME TCInv, TCInv', exclusive, NEW p \in Procs, Enter(p)
  PROVE  Left(ctl'[p]) < Left(ctl[p])
<1> DEFINE c == ctl[p]
           d == ctl'[p]
<1>1. c.pc = "enter" /\ c.pc \in Inside \ {"exit"}
  BY DEF Enter, At, Inside
<1>2. c \in Ctls /\ ctl \in [Procs -> Ctls] /\ d \in Ctls
  <2>1. d \in Ctls
    BY DEF TCInv, TypeOK, Ctls, Pcs, Plans
  <2> QED BY <1>1, <2>1, AtWork
<1>3. d.pc \in {"pick", "exit"}
  BY <1>2 DEF Enter, Saves, Ctls
<1>4. CASE d.pc = "exit"
  BY <1>1, <1>4, ExitsCountDown
<1>5. CASE d.pc = "pick"
  <2>1. Left(c) = Room * (Cardinality(Tasks) + 1)
    BY <1>1 DEF Left, Room
  <2>2. Left(d) = Room * Undone(d) + 10 * MaxAttempts
    BY <1>2, <1>5, LeftPicking
  <2>3. /\ Undone(d) \in Nat /\ Cardinality(Tasks) \in Nat
        /\ Undone(d) <= Cardinality(Tasks)
    BY <1>2, UndoneType
  <2>4. /\ Room * Undone(d) <= Room * Cardinality(Tasks)
        /\ Room * Undone(d) \in Nat /\ Room * Cardinality(Tasks) \in Nat
        /\ Room * (Cardinality(Tasks) + 1) = Room * Cardinality(Tasks) + Room
        /\ Room = 10 * MaxAttempts + 10 /\ MaxAttempts \in Nat
    BY <2>3, RoomFor, RoomKeeps
  <2> HIDE DEF c, d
  <2>5. Left(d) < Left(c)
    BY <2>1, <2>2, <2>4
  <2> QED BY <2>5 DEF c, d
<1> QED BY <1>3, <1>4, <1>5

\* An attempt that begins is a later one.
LEMMA BeginsCountDown ==
  ASSUME TCInv, TCInv', exclusive, NEW p \in Procs,
         NEW t, NEW n \in 1..MaxAttempts, NEW u,
         ctl[p].pc \in {"pick", "next"}, ctl[p].pc = "next" => n = ctl[p].mem.attempt + 1,
         Begins(p, t, n, [ctl[p] EXCEPT !.uses = u])
  PROVE  Left(ctl'[p]) < Left(ctl[p])
<1> DEFINE c == ctl[p]
           d == ctl'[p]
<1>1. c.pc \in Inside \ {"enter"}
  BY DEF Inside
<1>2. c \in Ctls /\ ctl \in [Procs -> Ctls] /\ d \in Ctls /\ c.mem = disk /\ disk \in States
  <2>1. d \in Ctls
    BY DEF TCInv, TypeOK, Ctls, Pcs, Plans
  <2> QED BY <1>1, <2>1, AtWork
<1>3. d.pc = "preflight" /\ d.mem = Begun(disk, t, n)
  BY <1>2 DEF Begins, Saves, Ctls
<1> HIDE DEF d
<1>4. d.mem.completed = disk.completed /\ d.mem.attempt = n
  BY <1>2, <1>3 DEF Begun, States
<1>5. Undone(d) = Undone(c) /\ StageOf(d) = 9
  BY <1>2, <1>3, <1>4 DEF Undone, StageOf
<1>6. Left(d) = Room * Undone(c) + 10 * (MaxAttempts - n) + 9
  BY <1>2, <1>3, <1>4, <1>5, LeftAttempting DEF Attempting
<1>7. Room * Undone(c) \in Nat /\ MaxAttempts \in Nat
  BY <1>2, UndoneType, RoomFor
<1>8. CASE c.pc = "pick"
  <2>1. Left(c) = Room * Undone(c) + 10 * MaxAttempts
    BY <1>2, <1>8, LeftPicking
  <2>2. Left(d) < Left(c)
    BY <1>6, <1>7, <2>1
  <2> QED BY <2>2 DEF d
<1>9. CASE c.pc = "next"
  <2>1. /\ StageOf(c) = 1 /\ c.mem.attempt \in 0..MaxAttempts
        /\ Left(c) = Room * Undone(c) + 10 * (MaxAttempts - c.mem.attempt) + StageOf(c)
    BY <1>2, <1>9, LeftAttempting, CtlFields, StateFields DEF StageOf, Attempting
  <2>2. n = c.mem.attempt + 1
    BY <1>9
  <2> HIDE DEF c
  <2>3. Left(d) < Left(c)
    BY <1>6, <1>7, <2>1, <2>2
  <2> QED BY <2>3 DEF c, d
<1> QED BY <1>8, <1>9

\* A completed task is one task less.
LEMMA CompleteCountsDown ==
  ASSUME TCInv, TCInv', exclusive, NEW p \in Procs, Complete(p)
  PROVE  Left(ctl'[p]) < Left(ctl[p])
<1> DEFINE c == ctl[p]
           d == ctl'[p]
<1>1. c.pc = "complete" /\ c.pc \in Inside \ {"enter", "exit"} /\ c.pc \in Attempting
  BY DEF Complete, At, Inside, Attempting
<1>2. /\ c \in Ctls /\ ctl \in [Procs -> Ctls] /\ d \in Ctls /\ c.mem = disk /\ disk \in States
      /\ disk.task \in Tasks \ disk.completed
  <2>1. d \in Ctls
    BY DEF TCInv, TypeOK, Ctls, Pcs, Plans
  <2>2. Sees(p)
    BY <1>1, AtWorkSees
  <2> QED BY <1>1, <2>1, <2>2, TaskInFlight DEF Sees
<1>3. /\ d.pc \in {"pick", "exit"}
      /\ d.mem = [disk EXCEPT !.completed = CompletedOf(disk), !.status = "idle",
                              !.task = None, !.attempt = 0]
  BY <1>2 DEF Complete, Saves, Ctls
<1>4. d.mem.completed = disk.completed \cup {disk.task}
  <2> HIDE DEF d
  <2> QED BY <1>2, <1>3 DEF States, CompletedOf
<1>5. CASE d.pc = "exit"
  BY <1>1, <1>5, ExitsCountDown
<1>6. CASE d.pc = "pick"
  <2>1. Undone(c) = Undone(d) + 1
    <3>1. Tasks \ disk.completed = (Tasks \ d.mem.completed) \cup {disk.task}
      BY <1>2, <1>4
    <3>2. IsFiniteSet(Tasks \ d.mem.completed) /\ disk.task \notin Tasks \ d.mem.completed
      BY <1>4, TasksAreFinite, FS_Subset
    <3>3. Cardinality((Tasks \ d.mem.completed) \cup {disk.task})
            = Cardinality(Tasks \ d.mem.completed) + 1
      BY <3>2, FS_AddElement
    <3> QED BY <1>2, <3>1, <3>3 DEF Undone
  <2>2. Left(d) = Room * Undone(d) + 10 * MaxAttempts
    BY <1>2, <1>6, LeftPicking
  <2>3. /\ Left(c) = Room * Undone(c) + 10 * (MaxAttempts - c.mem.attempt) + StageOf(c)
        /\ StageOf(c) \in 0..9 /\ 10 * (MaxAttempts - c.mem.attempt) \in Nat
    BY <1>1, <1>2, LeftAttempting
  <2>4. /\ Room * Undone(d) \in Nat /\ Room * (Undone(d) + 1) = Room * Undone(d) + Room
        /\ Room = 10 * MaxAttempts + 10 /\ MaxAttempts \in Nat
    BY <1>2, UndoneType, RoomFor
  <2> DEFINE a == 10 * (MaxAttempts - c.mem.attempt)
  <2>5. a \in Nat /\ Left(c) = Room * Undone(c) + a + StageOf(c)
    BY <2>3
  <2> HIDE DEF a, c, d
  <2>6. Left(d) < Left(c)
    BY <2>1, <2>2, <2>3, <2>4, <2>5
  <2> QED BY <2>6 DEF c, d
<1> QED BY <1>3, <1>5, <1>6

\* Every step of a working controller.
LEMMA WorksCountDown ==
  ASSUME TCInv, TCInv', exclusive, NEW p \in Procs, UNCHANGED starts, Works(p),
         ctl'[p] # ctl[p], ctl'[p].pc \in Inside
  PROVE  Left(ctl'[p]) < Left(ctl[p])
<1>1. CASE Enter(p)
  BY <1>1, EnterCountsDown
<1>2. CASE Preflight(p) \/ Agent(p) \/ Detach(p) \/ Postflight(p) \/ Verify(p) \/ Retry(p)
             \/ Recovery(p)
  BY <1>2, AttemptsCountDown
<1>3. CASE Complete(p)
  BY <1>3, CompleteCountsDown
<1>4. CASE NothingLeft(p) \/ Leave(p) \/ Stop(p) \/ Throw(p)
  <2>1. ctl[p].pc \in Inside \ {"exit"}
    BY <1>4 DEF NothingLeft, Leave, Stop, Throw, At, Inside
  <2>2. ctl[p] \in Ctls /\ ctl \in [Procs -> Ctls]
    BY <2>1, AtWork
  <2>3. ctl'[p].pc = "exit"
    <3>1. CASE Goto(p, "exit")
      BY <2>2, <3>1 DEF Goto, Ctls
    <3>2. CASE \E s : Saves(p, s, [ctl[p] EXCEPT !.pc = "exit"])
      <4>1. PICK s : ctl'[p] = [[ctl[p] EXCEPT !.pc = "exit"] EXCEPT !.mem = s]
        BY <2>2, <3>2 DEF Saves
      <4> QED BY <2>2, <4>1 DEF Ctls
    <3>3. Goto(p, "exit") \/ \E s : Saves(p, s, [ctl[p] EXCEPT !.pc = "exit"])
      BY <1>4 DEF NothingLeft, Leave, Stop, Throw
    <3> QED BY <3>1, <3>2, <3>3
  <2> QED BY <2>1, <2>3, ExitsCountDown
<1>5. CASE Pick(p)
  <2>1. /\ ctl[p].pc = "pick" /\ ctl[p].pc \in Inside
        /\ Begins(p, TaskOf(ctl[p]), FirstAttempt(ctl[p].plan), [ctl[p] EXCEPT !.uses = 0])
    BY <1>5 DEF Pick, At, Inside
  <2>2. ctl[p] \in Ctls
    BY <2>1, AtWork
  <2>3. FirstAttempt(ctl[p].plan) \in 1..MaxAttempts
    BY <2>2, CtlFields, PlanFields, AttemptsAssumption DEF FirstAttempt
  <2> QED BY <2>1, <2>3, BeginsCountDown
<1>6. CASE Again(p)
  <2>1. ctl[p].pc = "next" /\ ctl[p].pc \in Inside \ {"enter", "exit"} /\ ctl[p].pc \in Attempting
    BY <1>6 DEF Again, At, Inside, Attempting
  <2>2. ctl[p] \in Ctls /\ ctl \in [Procs -> Ctls]
    BY <2>1, AtWork
  <2>3. CASE /\ HasAttempt(ctl[p].mem.attempt)
             /\ Begins(p, ctl[p].mem.task, NextAttempt(ctl[p].mem.attempt), ctl[p])
    <3>1. ctl[p] = [ctl[p] EXCEPT !.uses = ctl[p].uses]
      BY <2>2 DEF Ctls
    <3>2. /\ NextAttempt(ctl[p].mem.attempt) \in 1..MaxAttempts
          /\ NextAttempt(ctl[p].mem.attempt) = ctl[p].mem.attempt + 1
      BY <2>2, <2>3, CtlFields, StateFields, AttemptsAssumption DEF HasAttempt, NextAttempt
    <3>3. Begins(p, ctl[p].mem.task, NextAttempt(ctl[p].mem.attempt),
                 [ctl[p] EXCEPT !.uses = ctl[p].uses])
      BY <2>3, <3>1
    <3> QED BY <2>1, <3>2, <3>3, BeginsCountDown
  <2>4. CASE ctl' = [ctl EXCEPT ![p].pc = "stop", ![p].run = "FAIL"]
    <3>1. ctl'[p] = [ctl[p] EXCEPT !.pc = "stop", !.run = "FAIL"]
      BY <2>2, <2>4
    <3>2. ctl'[p] \in Ctls /\ ctl'[p].pc = "stop" /\ ctl'[p].mem = ctl[p].mem
      <4>1. ctl'[p] \in Ctls
        BY DEF TCInv, TypeOK, Ctls, Pcs, Plans
      <4> QED BY <2>2, <3>1, <4>1 DEF Ctls
    <3>3. StageOf(ctl'[p]) = 0 /\ StageOf(ctl[p]) = 1
      BY <2>1, <3>2 DEF StageOf
    <3> QED BY <2>1, <2>2, <3>2, <3>3, StagesCountDown
  <2> QED BY <1>6, <2>3, <2>4 DEF Again
<1>7. CASE Exit(p)
  BY <1>7, OffType DEF Exit, Ends, TCInv, TypeOK, Inside
<1> QED BY <1>1, <1>2, <1>3, <1>4, <1>5, <1>6, <1>7 DEF Works

\* Who is not at work does not get to work but by writing the lock.
LEMMA OthersDoNotWork ==
  ASSUME TCInv, exclusive, NEW p \in Procs, NEW q \in Procs, ctl[q].pc \in Inside,
         ctl'[q] # ctl[q], ctl'[q].pc \in Inside,
         Start(p) \/ Takes(p) \/ Crash(p)
  PROVE  FALSE
<1>1. ctl \in [Procs -> Ctls] /\ Off.pc \notin Inside
  BY Working, OffType DEF Inside
<1>2. \A r \in Procs \ {p} : ctl'[r] = ctl[r]
  BY <1>1 DEF Start, Takes, Check, Inspect, Look, Create, CreateFails, Judge, Remove, Fill, Reset,
              Clear, Repair, Mend, Crash, Goto, Ends
<1>3. q = p
  BY <1>2
<1>4. ~Crash(p)
  BY <1>1, <1>3 DEF Crash, Ends
<1> QED BY <1>3, <1>4 DEF Start, Takes, Check, Inspect, Look, Create, CreateFails, Judge, Remove,
                          Fill, Reset, Clear, Repair, Mend, At, Inside

\* Retries are bounded: every step brings a working controller closer to its
\* end, for every limit and every roadmap.
THEOREM RetriesAreBounded == Spec => RetriesRunOut
<1>1. ASSUME TCInv, TCInv', Next
      PROVE  \A p \in Procs : ctl[p].pc \in Inside /\ ctl'[p] # ctl[p] /\ ctl'[p].pc \in Inside =>
               Left(ctl'[p]) < Left(ctl[p])
  <2> SUFFICES ASSUME NEW q \in Procs, ctl[q].pc \in Inside, ctl'[q] # ctl[q],
                      ctl'[q].pc \in Inside
               PROVE  Left(ctl'[q]) < Left(ctl[q])
    OBVIOUS
  <2>1. exclusive
    BY <1>1 DEF Next
  <2>2. PICK p \in Procs : Start(p) \/ ((Takes(p) \/ Works(p) \/ Crash(p)) /\ UNCHANGED starts)
    BY <1>1 DEF Next
  <2>3. Works(p) /\ UNCHANGED starts
    BY <1>1, <2>1, <2>2, OthersDoNotWork
  <2>4. q = p
    <3>1. ctl \in [Procs -> Ctls]
      BY <1>1, <2>1, Working
    <3>2. \A r \in Procs \ {p} : ctl'[r] = ctl[r]
      BY <2>3, <3>1 DEF Works, Enter, NothingLeft, Pick, Preflight, Agent, Detach, Postflight,
                        Verify, Complete, Retry, Recovery, Again, Leave, Stop, Throw, Exit, Begins,
                        Blocks, Saves, Goto, Ends
    <3> QED BY <3>2
  <2> QED BY <1>1, <2>1, <2>3, <2>4, WorksCountDown
<1>2. TCInv /\ TCInv' /\ [Next]_vars
        => [\A p \in Procs : ctl[p].pc \in Inside /\ ctl'[p] # ctl[p] /\ ctl'[p].pc \in Inside =>
              Left(ctl'[p]) < Left(ctl[p])]_vars
  BY <1>1
<1> QED BY <1>2, ControllerInvariant, PTL DEF Spec, RetriesRunOut

===============================================================================
