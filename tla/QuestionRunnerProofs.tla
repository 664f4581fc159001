------------------------- MODULE QuestionRunnerProofs -------------------------
(***************************************************************************)
(* Proofs about QuestionRunner, for any questions, catalogues and limits:  *)
(* the page, its query and its database belong together, its verdict and   *)
(* its history agree, and previews and syncs leave alone what is not       *)
(* theirs.                                                                 *)
(***************************************************************************)
EXTENDS QuestionRunner, FiniteSetTheorems, SequenceTheorems, TLAPS

Places == Questions \cup {Nowhere}
Verdicts == [run : Nat, of : Places, result : Results \cup {"none"}]
Tabs == [at : Places, preview : BOOLEAN, status : {"idle", "running", "success", "error"},
         db : {NoDb} \cup Dbs, run : Nat, verdict : Verdicts, attempts : Seq(Results)]
Databases == [of : Places, phase : {"creating", "open", "closed"}, cancelled : BOOLEAN,
              altered : BOOLEAN]
Running == [run : Nat, exec : BOOLEAN, db : Dbs, of : Questions, code : Codes]
Storages == [solved : SUBSET Questions, attempts : [Questions -> Seq(Results)],
             custom : SUBSET Stored]

Types ==
  /\ storage \in Storages /\ cached \in SUBSET Stored /\ tab \in Tabs
  /\ dbs \in [Dbs -> Databases] /\ queries \in SUBSET Running
  /\ log \in [Questions -> Seq(Results)]

\* A database that is still wanted by the page in state t, out of ds.
Wanted(ds, d) == ds[d].phase = "creating" /\ ~ds[d].cancelled

\* The databases ds of a page in state t: the open one is its own; the one it
\* waits for is the only one it waits for; no query runs on one being built.
DatabasesFit(t, ds, qs) ==
  /\ t.db # NoDb => t.at # Nowhere /\ ds[t.db].of = t.at /\ ds[t.db].phase = "open"
  /\ \A d \in Dbs : ds[d].phase = "open" => d = t.db
  /\ \A d \in Dbs : Wanted(ds, d) => t.db = NoDb /\ t.at # Nowhere /\ ds[d].of = t.at
  /\ \A d, e \in Dbs : Wanted(ds, d) /\ Wanted(ds, e) => d = e
  /\ \A d \in Dbs, query \in qs : ds[d].phase = "creating" => query.db # d

\* The queries qs under way: one per number, and the one whose answer the page
\* takes is its last.
Taken(t, query) == query.exec /\ t.db = query.db
QueriesFit(t, qs) ==
  /\ \A a, b \in qs : a.run = b.run => a = b
  /\ \A query \in qs : query.run <= t.run
  /\ \A query \in qs : Taken(t, query) =>
       t.status = "running" /\ query.run = t.run /\ query.of = t.at
  /\ t.status = "running" => \E query \in qs : Taken(t, query)

\* The verdict a page shows, and its history.
VerdictFits(t) ==
  /\ t.verdict # NoVerdict =>
       /\ t.verdict.run = t.run /\ t.verdict.of = t.at
       /\ ~t.preview /\ t.attempts # <<>> => t.attempts[Len(t.attempts)] = t.verdict.result
  /\ t.preview => t.attempts = <<>>

\* Stored attempts s are the last of all verdicts l, and all below the cap.
IsLatest(s, l) ==
  /\ Len(s) <= MaxAttempts /\ Len(s) <= Len(l)
  /\ Len(s) < MaxAttempts => Len(l) = Len(s)
  /\ \A i \in 1..Len(s) : s[i] = l[(Len(l) - Len(s)) + i]

RunnerInv ==
  /\ Types
  /\ DatabasesFit(tab, dbs, queries) /\ QueriesFit(tab, queries) /\ VerdictFits(tab)
  /\ \A q \in Questions : IsLatest(storage.attempts[q], log[q])

-------------------------------------------------------------------------------
LEMMA InitRunnerInv == Init => RunnerInv
<1> SUFFICES ASSUME Init PROVE RunnerInv
  OBVIOUS
<1>1. Types
  <2>1. PICK c \in SUBSET Stored :
          storage = [solved |-> {}, attempts |-> [q \in Questions |-> <<>>], custom |-> c]
    BY DEF Init
  <2>2. storage \in Storages /\ cached \in SUBSET Stored
    BY <2>1 DEF Init, Storages
  <2>3. tab \in Tabs
    BY DEF Init, Tabs, Places, Verdicts, NoVerdict, NoDb
  <2>4. dbs \in [Dbs -> Databases]
    BY DEF Init, NoDatabase, Databases, Places
  <2> QED BY <2>2, <2>3, <2>4 DEF Init, Types
<1>2. DatabasesFit(tab, dbs, queries)
  BY DEF Init, DatabasesFit, NoDatabase, Wanted
<1>3. QueriesFit(tab, queries) /\ VerdictFits(tab)
  BY DEF Init, QueriesFit, VerdictFits
<1>4. \A q \in Questions : IsLatest(storage.attempts[q], log[q])
  BY RunnerAssumption DEF Init, IsLatest
<1> QED BY <1>1, <1>2, <1>3, <1>4 DEF RunnerInv

LEMMA TabFields ==
  ASSUME NEW t \in Tabs
  PROVE  /\ t.at \in Places /\ t.preview \in BOOLEAN
         /\ t.status \in {"idle", "running", "success", "error"} /\ t.db \in {NoDb} \cup Dbs
         /\ t.run \in Nat /\ t.verdict \in Verdicts /\ t.attempts \in Seq(Results)
BY DEF Tabs

LEMMA NoVerdictType == NoVerdict \in Verdicts
BY DEF NoVerdict, Verdicts, Places

LEMMA DatabaseTypes ==
  /\ NoDatabase \in Databases /\ NoDatabase.phase = "closed"
  /\ LET d == [NoDatabase EXCEPT !.phase = "creating"]
     IN d \in Databases /\ d.phase = "creating" /\ d.cancelled
  /\ \A q \in Questions : /\ NewDb(q) \in Databases /\ NewDb(q).phase = "creating"
                          /\ NewDb(q).of = q /\ ~NewDb(q).cancelled
BY DEF NoDatabase, Databases, NewDb, Places

\* What the cleanup of a page leaves: no open database, and none that is wanted.
LEMMA ReleasedFits ==
  ASSUME Types, DatabasesFit(tab, dbs, queries), NEW t \in Tabs, t.db = tab.db
  PROVE  /\ Released(t) \in [Dbs -> Databases]
         /\ \A d \in Dbs : Released(t)[d].phase # "open" /\ ~Wanted(Released(t), d)
         /\ \A d \in Dbs : Released(t)[d].phase = "creating" => dbs[d].phase = "creating"
<1> DEFINE R == Released(t)
<1>1. \A d \in Dbs : \/ R[d] = NoDatabase
                     \/ /\ R[d] = [NoDatabase EXCEPT !.phase = "creating"]
                        /\ dbs[d].phase = "creating"
                     \/ R[d] = dbs[d] /\ dbs[d].phase # "creating" /\ d # tab.db
  BY DEF Released
<1>2. DOMAIN R = Dbs /\ R = [d \in Dbs |-> R[d]]
  BY DEF Released
<1> HIDE DEF R
<1>3. \A d \in Dbs : R[d] \in Databases
  BY <1>1, DatabaseTypes DEF Types
<1>4. R \in [Dbs -> Databases]
  BY <1>2, <1>3
<1>5. \A d \in Dbs : R[d].phase # "open" /\ ~Wanted(R, d)
  BY <1>1, DatabaseTypes DEF DatabasesFit, Wanted
<1>6. \A d \in Dbs : R[d].phase = "creating" => dbs[d].phase = "creating"
  BY <1>1, DatabaseTypes
<1> QED BY <1>4, <1>5, <1>6 DEF R

\* A page that starts over: nothing shown, nothing running, and at most one
\* database under construction that it wants, its question's.
LEMMA RestartFits ==
  ASSUME Types, DatabasesFit(tab, dbs, queries), NEW t \in Tabs, t.db = tab.db,
         NEW q \in Places, NEW there \in BOOLEAN, there => q \in Questions /\ q = t.at,
         Restart(t, q, there), NEW qs \in SUBSET Running,
         \A x \in qs : \E y \in queries : x.db = y.db
  PROVE  /\ tab' \in Tabs /\ tab'.status = "idle" /\ tab'.db = NoDb /\ tab'.verdict = NoVerdict
         /\ tab'.at = t.at /\ tab'.run = t.run /\ tab'.attempts = t.attempts
         /\ tab'.preview = t.preview
         /\ dbs' \in [Dbs -> Databases] /\ DatabasesFit(tab', dbs', qs)
<1>1. /\ tab' \in Tabs /\ tab'.status = "idle" /\ tab'.db = NoDb /\ tab'.verdict = NoVerdict
      /\ tab'.at = t.at /\ tab'.run = t.run /\ tab'.attempts = t.attempts
      /\ tab'.preview = t.preview
  BY NoVerdictType DEF Restart, Tabs
<1>2. /\ Released(t) \in [Dbs -> Databases]
      /\ \A d \in Dbs : Released(t)[d].phase # "open" /\ ~Wanted(Released(t), d)
      /\ \A d \in Dbs : Released(t)[d].phase = "creating" => dbs[d].phase = "creating"
  BY ReleasedFits
<1>3. \A d \in Dbs, x \in qs : dbs[d].phase = "creating" => x.db # d
  BY DEF DatabasesFit
<1>4. CASE ~there
  <2>1. dbs' = Released(t)
    BY <1>4 DEF Restart, WithNewDb
  <2> QED BY <1>1, <1>2, <1>3, <2>1 DEF DatabasesFit
<1>5. CASE there
  <2>1. PICK d \in Dbs : /\ \A query \in queries : query.db # d
                         /\ dbs' = [Released(t) EXCEPT ![d] = NewDb(q)]
    BY <1>5 DEF Restart, WithNewDb
  <2>2. /\ dbs'[d] = NewDb(q) /\ \A e \in Dbs \ {d} : dbs'[e] = Released(t)[e]
        /\ dbs' \in [Dbs -> Databases]
    BY <1>2, <1>5, <2>1, DatabaseTypes
  <2>3. q = t.at /\ q \in Questions /\ q # Nowhere
    BY <1>5, RunnerAssumption
  <2>4. /\ dbs'[d].phase = "creating" /\ dbs'[d].of = q
        /\ \A e \in Dbs \ {d} : ~Wanted(dbs', e) /\ dbs'[e].phase # "open"
    BY <1>2, <2>2, <2>3, DatabaseTypes DEF Wanted
  <2>5. \A e \in Dbs, x \in qs : dbs'[e].phase = "creating" => x.db # e
    BY <1>2, <1>3, <2>1, <2>2
  <2> QED BY <1>1, <2>2, <2>3, <2>4, <2>5 DEF DatabasesFit
<1> QED BY <1>1, <1>4, <1>5

LEMMA DisownedTypes ==
  ASSUME NEW qs \in SUBSET Running
  PROVE  /\ Disowned(qs) \in SUBSET Running
         /\ \A x \in Disowned(qs) : \E y \in qs : /\ x = [y EXCEPT !.exec = FALSE]
                                               /\ x.run = y.run /\ x.db = y.db /\ x.exec = FALSE
<1>1. \A y \in qs : LET x == [y EXCEPT !.exec = FALSE]
                    IN x \in Running /\ x.run = y.run /\ x.db = y.db /\ x.exec = FALSE
  BY DEF Running
<1> QED BY <1>1 DEF Disowned

\* Queries that nobody waits for.
LEMMA DisownedFits ==
  ASSUME NEW qs \in SUBSET Running, NEW t \in Tabs, t.status # "running",
         \A a, b \in qs : a.run = b.run => a = b,
         \A query \in qs : query.run <= t.run
  PROVE  /\ Disowned(qs) \in SUBSET Running /\ QueriesFit(t, Disowned(qs))
         /\ \A x \in Disowned(qs) : \E y \in qs : x.db = y.db
<1> DEFINE D == Disowned(qs)
<1>1. /\ D \in SUBSET Running
      /\ \A x \in D : \E y \in qs : /\ x = [y EXCEPT !.exec = FALSE]
                                  /\ x.run = y.run /\ x.db = y.db /\ x.exec = FALSE
  BY DisownedTypes
<1> HIDE DEF D
<1>2. ASSUME NEW a \in D, NEW b \in D, a.run = b.run PROVE a = b
  <2>1. PICK y \in qs : a = [y EXCEPT !.exec = FALSE] /\ a.run = y.run
    BY <1>1
  <2>2. PICK z \in qs : b = [z EXCEPT !.exec = FALSE] /\ b.run = z.run
    BY <1>1
  <2>3. y = z
    BY <1>2, <2>1, <2>2
  <2> QED BY <2>1, <2>2, <2>3
<1>3. \A x \in D : x.run <= t.run /\ ~Taken(t, x)
  BY <1>1 DEF Taken
<1>4. QueriesFit(t, D)
  BY <1>2, <1>3 DEF QueriesFit
<1> QED BY <1>1, <1>4 DEF D

\* Nobody waits for a query of a page that has no database.
LEMMA UnownedFits ==
  ASSUME NEW qs \in SUBSET Running, NEW t \in Tabs, t.status # "running", t.db = NoDb,
         \A a, b \in qs : a.run = b.run => a = b,
         \A query \in qs : query.run <= t.run
  PROVE  QueriesFit(t, qs)
<1>1. \A query \in qs : query.db \in Dbs
  BY DEF Running
<1> QED BY <1>1, DbsAssumption DEF QueriesFit, Taken

\* A sync of the page in state t with the queries owed under way.
LEMMA SyncedFits ==
  ASSUME Types, DatabasesFit(tab, dbs, queries), NEW t \in Tabs, t.db = tab.db, t.at = tab.at,
         NEW owed \in SUBSET queries, QueriesFit(t, owed), VerdictFits(t), Synced(t, owed)
  PROVE  /\ cached' \in SUBSET Stored /\ tab' \in Tabs /\ dbs' \in [Dbs -> Databases]
         /\ queries' \in SUBSET Running
         /\ DatabasesFit(tab', dbs', queries') /\ QueriesFit(tab', queries') /\ VerdictFits(tab')
<1> DEFINE was == Resolves(t.at, cached)
           there == Resolves(t.at, storage.custom)
           resets == t.at # Nowhere /\ ~t.preview /\ was # there
           rebuilds == t.at # Nowhere /\ ~t.preview /\ was /\ there /\ IsRebuilt(t.at)
           k == [t EXCEPT !.attempts = IF there THEN storage.attempts[t.at] ELSE <<>>]
<1>1. /\ there \in BOOLEAN /\ cached' = storage.custom
      /\ queries' = IF resets THEN Disowned(owed) ELSE owed
      /\ \/ resets /\ Restart(k, t.at, there)
         \/ rebuilds /\ Restart(t, t.at, TRUE)
         \/ ~resets /\ ~rebuilds /\ tab' = t /\ dbs' = dbs
  <2>1. there \in BOOLEAN
    BY DEF Resolves
  <2>2. cached' = storage.custom /\ queries' = IF resets THEN Disowned(owed) ELSE owed
    BY DEF Synced
  <2>3. \/ resets /\ Restart(k, t.at, there)
        \/ rebuilds /\ Restart(t, t.at, TRUE)
        \/ ~resets /\ ~rebuilds /\ tab' = t /\ dbs' = dbs
    BY DEF Synced
  <2> HIDE DEF was, there, k
  <2> QED BY <2>1, <2>2, <2>3
<1>2. cached' \in SUBSET Stored /\ owed \in SUBSET Running
  BY <1>1 DEF Types, Storages
<1>3. t.at # Nowhere => t.at \in Questions
  BY TabFields DEF Places
<1>4. t.at # Nowhere => /\ k \in Tabs /\ k.db = t.db /\ k.at = t.at /\ k.run = t.run
                        /\ k.preview = t.preview
  <2>1. t.at # Nowhere => storage.attempts[t.at] \in Seq(Results) /\ <<>> \in Seq(Results)
    BY <1>3 DEF Types, Storages
  <2> HIDE DEF there
  <2> QED BY <2>1 DEF Tabs
<1>5. \A a, b \in owed : a.run = b.run => a = b
  BY DEF QueriesFit
<1>6. \A query \in owed : query.run <= t.run
  BY DEF QueriesFit
<1>7. t.at \in Places
  BY TabFields
<1> HIDE DEF was, there, k
<1>8. CASE resets /\ Restart(k, t.at, there)
  <2>1. queries' = Disowned(owed) /\ k \in Tabs /\ k.db = tab.db /\ k.at = t.at /\ k.run = t.run
        /\ k.preview = t.preview /\ ~t.preview /\ t.at \in Questions
    BY <1>1, <1>3, <1>4, <1>8
  <2>2. Disowned(owed) \in SUBSET Running /\ \A x \in Disowned(owed) : \E y \in queries : x.db = y.db
    <3>1. \A x \in Disowned(owed) : \E y \in owed : x.db = y.db
      BY <1>2, DisownedTypes
    <3> QED BY <1>2, <3>1, DisownedTypes
  <2>3. /\ tab' \in Tabs /\ tab'.status = "idle" /\ tab'.verdict = NoVerdict
        /\ tab'.run = t.run /\ tab'.preview = t.preview
        /\ dbs' \in [Dbs -> Databases] /\ DatabasesFit(tab', dbs', Disowned(owed))
    BY <1>1, <1>7, <1>8, <2>1, <2>2, RestartFits
  <2>4. QueriesFit(tab', Disowned(owed))
    <3>1. tab'.status # "running" /\ \A query \in owed : query.run <= tab'.run
      BY <1>6, <2>3
    <3> QED BY <1>2, <1>5, <2>3, <3>1, DisownedFits
  <2>5. VerdictFits(tab')
    BY <2>1, <2>3 DEF VerdictFits
  <2> QED BY <1>2, <2>1, <2>2, <2>3, <2>4, <2>5
<1>9. CASE rebuilds /\ Restart(t, t.at, TRUE)
  <2>1. queries' = owed /\ ~t.preview /\ t.at \in Questions
    BY <1>1, <1>3, <1>9
  <2>2. \A x \in owed : \E y \in queries : x.db = y.db
    OBVIOUS
  <2>3. /\ tab' \in Tabs /\ tab'.status = "idle" /\ tab'.verdict = NoVerdict /\ tab'.db = NoDb
        /\ tab'.run = t.run /\ tab'.preview = t.preview
        /\ dbs' \in [Dbs -> Databases] /\ DatabasesFit(tab', dbs', owed)
    BY <1>2, <1>7, <1>9, <2>1, <2>2, RestartFits
  <2>4. QueriesFit(tab', owed)
    <3>1. tab'.status # "running" /\ \A query \in owed : query.run <= tab'.run
      BY <1>6, <2>3
    <3> QED BY <1>2, <1>5, <2>3, <3>1, UnownedFits
  <2>5. VerdictFits(tab')
    BY <2>1, <2>3 DEF VerdictFits
  <2> QED BY <1>2, <2>1, <2>3, <2>4, <2>5
<1>10. CASE ~resets /\ ~rebuilds /\ tab' = t /\ dbs' = dbs
  <2>1. queries' = owed
    BY <1>1, <1>10
  <2>2. DatabasesFit(t, dbs, owed)
    BY DEF DatabasesFit
  <2> QED BY <1>2, <1>10, <2>1, <2>2 DEF Types
<1> QED BY <1>1, <1>8, <1>9, <1>10

\* The invariant of the next state, from its parts.
LEMMA InvFromParts ==
  ASSUME Types', DatabasesFit(tab', dbs', queries'), QueriesFit(tab', queries'),
         VerdictFits(tab'), \A q \in Questions : IsLatest(storage'.attempts[q], log'[q])
  PROVE  RunnerInv'
BY DEF RunnerInv, DatabasesFit, QueriesFit, VerdictFits, Taken, Wanted, IsLatest

\* A page with the databases ds2, of which fewer are open, wanted or under way.
Fewer(ds, ds2) ==
  \A d \in Dbs : /\ ds2[d].phase = "open" => ds[d].phase = "open"
                 /\ Wanted(ds2, d) => Wanted(ds, d) /\ ds2[d].of = ds[d].of
                 /\ ds2[d].phase = "creating" => ds[d].phase = "creating"
LEMMA FewerDatabasesFit ==
  ASSUME NEW t \in Tabs, NEW ds, NEW ds2, NEW qs, NEW qs2, DatabasesFit(t, ds, qs),
         qs2 \subseteq qs, Fewer(ds, ds2),
         t.db # NoDb => ds2[t.db].of = ds[t.db].of /\ ds2[t.db].phase = ds[t.db].phase
  PROVE  DatabasesFit(t, ds2, qs2)
<1>1. t.db # NoDb => t.at # Nowhere /\ ds2[t.db].of = t.at /\ ds2[t.db].phase = "open"
  BY DEF DatabasesFit
<1>2. \A d \in Dbs : ds2[d].phase = "open" => d = t.db
  BY DEF DatabasesFit, Fewer
<1>3. \A d \in Dbs : Wanted(ds2, d) => t.db = NoDb /\ t.at # Nowhere /\ ds2[d].of = t.at
  BY DEF DatabasesFit, Fewer
<1>4. \A d, e \in Dbs : Wanted(ds2, d) /\ Wanted(ds2, e) => d = e
  BY DEF DatabasesFit, Fewer
<1>5. \A d \in Dbs, query \in qs2 : ds2[d].phase = "creating" => query.db # d
  BY DEF DatabasesFit, Fewer
<1> QED BY <1>1, <1>2, <1>3, <1>4, <1>5 DEF DatabasesFit

-------------------------------------------------------------------------------
\* recordAttempt keeps the latest verdicts, the new one last.
LEMMA TrimmedFits ==
  ASSUME NEW s \in Seq(Results), NEW l \in Seq(Results), IsLatest(s, l), NEW r \in Results
  PROVE  LET t == Trimmed(Append(s, r))
         IN t \in Seq(Results) /\ t # <<>> /\ t[Len(t)] = r /\ IsLatest(t, Append(l, r))
<1> DEFINE a == Append(s, r)
           b == Append(l, r)
           from == IF Len(a) > MaxAttempts THEN Len(a) - MaxAttempts + 1 ELSE 1
           t == SubSeq(a, from, Len(a))
<1>1. MaxAttempts \in Nat /\ MaxAttempts > 0
  BY RunnerAssumption
<1>2. /\ a \in Seq(Results) /\ Len(a) = Len(s) + 1 /\ a[Len(a)] = r
      /\ \A i \in 1..Len(s) : a[i] = s[i]
  BY AppendProperties
<1>3. /\ b \in Seq(Results) /\ Len(b) = Len(l) + 1 /\ b[Len(b)] = r
      /\ \A i \in 1..Len(l) : b[i] = l[i]
  BY AppendProperties
<1>4. /\ Len(s) \in Nat /\ Len(l) \in Nat /\ Len(s) <= MaxAttempts /\ Len(s) <= Len(l)
      /\ Len(s) < MaxAttempts => Len(l) = Len(s)
      /\ \A i \in 1..Len(s) : s[i] = l[(Len(l) - Len(s)) + i]
  BY DEF IsLatest
<1>5. t = Trimmed(a)
  BY DEF Trimmed
<1> HIDE DEF a, b
<1>6. /\ from \in 1..Len(a) /\ Len(a) - from + 1 \in Nat /\ Len(a) - from + 1 > 0
      /\ Len(a) - from + 1 <= MaxAttempts
      /\ Len(a) - from + 1 < MaxAttempts => from = 1 /\ Len(s) < MaxAttempts
  <2>1. Len(a) \in Nat /\ Len(a) > 0 /\ Len(a) <= MaxAttempts + 1
    BY <1>1, <1>2, <1>4
  <2>2. CASE Len(a) > MaxAttempts
    <3>1. from = Len(a) - MaxAttempts + 1
      BY <2>2
    <3> HIDE DEF from
    <3> QED BY <1>1, <2>1, <2>2, <3>1
  <2>3. CASE ~(Len(a) > MaxAttempts)
    <3>1. from = 1
      BY <2>3
    <3> HIDE DEF from
    <3> QED BY <1>1, <1>2, <1>4, <2>1, <2>3, <3>1
  <2> QED BY <2>2, <2>3
<1> HIDE DEF from
<1>7. /\ t \in Seq(Results) /\ Len(t) = Len(a) - from + 1
      /\ \A i \in 1..Len(t) : t[i] = a[from + i - 1]
  <2>1. from \in 1..(Len(a) + 1) /\ Len(a) \in (from - 1)..Len(a)
    BY <1>2, <1>4, <1>6
  <2> QED BY <1>2, <2>1, <1>6, SubSeqProperties
<1> HIDE DEF t
<1>8. t # <<>> /\ t[Len(t)] = r
  BY <1>2, <1>4, <1>6, <1>7
<1>9. \A i \in 1..Len(a) : a[i] = b[(Len(b) - Len(a)) + i]
  <2> SUFFICES ASSUME NEW i \in 1..Len(a) PROVE a[i] = b[(Len(b) - Len(a)) + i]
    OBVIOUS
  <2>1. CASE i = Len(a)
    <3>1. (Len(b) - Len(a)) + i = Len(b)
      BY <1>2, <1>3, <1>4, <2>1
    <3> QED BY <1>2, <1>3, <2>1, <3>1
  <2>2. CASE i # Len(a)
    <3>1. i \in 1..Len(s) /\ (Len(l) - Len(s)) + i \in 1..Len(l)
          /\ (Len(b) - Len(a)) + i = (Len(l) - Len(s)) + i
      BY <1>2, <1>3, <1>4, <2>2
    <3>2. a[i] = s[i] /\ s[i] = l[(Len(l) - Len(s)) + i]
      BY <1>2, <1>4, <3>1
    <3>3. b[(Len(l) - Len(s)) + i] = l[(Len(l) - Len(s)) + i]
      BY <1>3, <3>1
    <3> QED BY <3>1, <3>2, <3>3
  <2> QED BY <2>1, <2>2
<1>10. IsLatest(t, b)
  <2>1. Len(t) <= MaxAttempts /\ Len(t) <= Len(b)
    BY <1>2, <1>3, <1>4, <1>6, <1>7
  <2>2. Len(t) < MaxAttempts => Len(b) = Len(t)
    BY <1>1, <1>2, <1>3, <1>4, <1>6, <1>7
  <2>3. ASSUME NEW i \in 1..Len(t) PROVE t[i] = b[(Len(b) - Len(t)) + i]
    <3>1. from \in Nat /\ from >= 1 /\ from <= Len(a) /\ Len(a) \in Nat /\ i \in Nat /\ i >= 1
          /\ i <= Len(a) - from + 1
      BY <1>2, <1>4, <1>6, <1>7
    <3>2. from + i - 1 \in 1..Len(a) /\ t[i] = a[from + i - 1]
      BY <1>7, <3>1
    <3>3. (Len(b) - Len(a)) + (from + i - 1) = (Len(b) - Len(t)) + i
      BY <1>2, <1>3, <1>4, <1>6, <1>7
    <3> QED BY <1>9, <3>2, <3>3
  <2> QED BY <2>1, <2>2, <2>3 DEF IsLatest
<1> QED BY <1>5, <1>7, <1>8, <1>10 DEF a, b

\* The page opens a question, a preview, or no question.
LEMMA OpeningsKeepRunnerInv ==
  ASSUME RunnerInv,
         (\E q \in Questions : Open(q) \/ Preview(q)) \/ Leave
  PROVE  RunnerInv'
<1>1. PICK q \in Places, there \in BOOLEAN, pre \in BOOLEAN, h \in Seq(Results) :
        LET t == [tab EXCEPT !.at = q, !.preview = pre, !.attempts = h]
        IN /\ Restart(t, q, there) /\ (there => q \in Questions) /\ (pre => h = <<>>)
           /\ queries' = Disowned(queries) /\ cached' \in SUBSET Stored
           /\ UNCHANGED <<storage, log>>
  <2>1. /\ tab \in Tabs /\ <<>> \in Seq(Results) /\ cached \in SUBSET Stored
        /\ storage.custom \in SUBSET Stored
        /\ \A q \in Questions : q \in Places /\ storage.attempts[q] \in Seq(Results)
    BY DEF RunnerInv, Types, Storages, Places
  <2>2. CASE \E q \in Questions : Open(q)
    <3>1. PICK q \in Questions : Open(q)
      BY <2>2
    <3> DEFINE there == Resolves(q, storage.custom)
               h == IF there /\ ~tab.preview THEN storage.attempts[q] ELSE <<>>
    <3>2. there \in BOOLEAN /\ h \in Seq(Results) /\ ~tab.preview
      BY <2>1, <3>1 DEF Resolves, Open
    <3>3. Opened(q, there) = [tab EXCEPT !.at = q, !.preview = FALSE, !.attempts = h]
      BY <2>1, <3>2 DEF Opened, Tabs
    <3>4. /\ Restart(Opened(q, there), q, there) /\ queries' = Disowned(queries)
          /\ cached' = storage.custom /\ UNCHANGED <<storage, log>>
      BY <3>1 DEF Open
    <3> HIDE DEF h, there
    <3> QED BY <2>1, <3>2, <3>3, <3>4
  <2>3. CASE \E q \in Questions : Preview(q)
    <3>1. PICK q \in Questions : Preview(q)
      BY <2>3
    <3>2. [Opened(q, FALSE) EXCEPT !.preview = TRUE]
            = [tab EXCEPT !.at = q, !.preview = TRUE, !.attempts = <<>>]
      BY <2>1 DEF Opened, Tabs
    <3>3. /\ Restart([Opened(q, FALSE) EXCEPT !.preview = TRUE], q, TRUE)
          /\ queries' = Disowned(queries) /\ UNCHANGED <<storage, cached, log>>
      BY <3>1 DEF Preview
    <3> QED BY <2>1, <3>2, <3>3
  <2>4. CASE Leave
    <3>1. Nowhere \in Places
      BY DEF Places
    <3>2. /\ Restart([tab EXCEPT !.at = Nowhere, !.preview = FALSE, !.attempts = <<>>],
                     Nowhere, FALSE)
          /\ queries' = Disowned(queries) /\ UNCHANGED <<storage, cached, log>>
      BY <2>4 DEF Leave
    <3> QED BY <2>1, <3>1, <3>2
  <2> QED BY <2>2, <2>3, <2>4
<1> DEFINE t == [tab EXCEPT !.at = q, !.preview = pre, !.attempts = h]
<1>2. t \in Tabs /\ t.db = tab.db /\ t.at = q /\ t.run = tab.run /\ t.preview = pre
      /\ t.attempts = h
  BY <1>1 DEF RunnerInv, Types, Tabs
<1>3. Restart(t, q, there)
  BY <1>1
<1> HIDE DEF t
<1>4. queries \in SUBSET Running /\ Types /\ DatabasesFit(tab, dbs, queries)
      /\ QueriesFit(tab, queries)
  BY DEF RunnerInv, Types
<1>5. /\ Disowned(queries) \in SUBSET Running
      /\ \A x \in Disowned(queries) : \E y \in queries : x.db = y.db
  BY <1>4, DisownedTypes
<1>6. /\ tab' \in Tabs /\ tab'.status = "idle" /\ tab'.verdict = NoVerdict
      /\ tab'.run = tab.run /\ tab'.attempts = h /\ tab'.preview = pre
      /\ dbs' \in [Dbs -> Databases] /\ DatabasesFit(tab', dbs', Disowned(queries))
  BY <1>1, <1>2, <1>3, <1>4, <1>5, RestartFits
<1>7. QueriesFit(tab', Disowned(queries))
  <2>1. /\ tab'.status # "running" /\ \A query \in queries : query.run <= tab'.run
        /\ \A a, b \in queries : a.run = b.run => a = b
    BY <1>4, <1>6 DEF QueriesFit
  <2> QED BY <1>4, <1>6, <2>1, DisownedFits
<1>8. VerdictFits(tab')
  BY <1>1, <1>6 DEF VerdictFits
<1>9. Types'
  BY <1>1, <1>5, <1>6 DEF RunnerInv, Types
<1>10. (DatabasesFit(tab, dbs, queries) /\ QueriesFit(tab, queries) /\ VerdictFits(tab))'
  BY <1>1, <1>6, <1>7, <1>8 DEF DatabasesFit, QueriesFit, VerdictFits, Taken, Wanted
<1> QED BY <1>1, <1>9, <1>10 DEF RunnerInv, IsLatest

\* A database is there, or will never be.
LEMMA CreationsKeepRunnerInv ==
  ASSUME RunnerInv, NEW d \in Dbs, Created(d) \/ CreateFails(d)
  PROVE  RunnerInv'
<1>1. /\ tab \in Tabs /\ dbs \in [Dbs -> Databases] /\ dbs[d].phase = "creating"
      /\ DatabasesFit(tab, dbs, queries) /\ QueriesFit(tab, queries) /\ VerdictFits(tab)
      /\ queries \in SUBSET Running /\ UNCHANGED <<storage, cached, queries, log>>
  BY DEF RunnerInv, Types, Created, CreateFails
<1>2. \A query \in queries : query.db # d
  BY <1>1 DEF DatabasesFit
<1>3. d # NoDb /\ d # tab.db
  BY <1>1, DbsAssumption DEF DatabasesFit
<1>4. CASE dbs[d].cancelled \/ CreateFails(d)
  <2>1. dbs' = [dbs EXCEPT ![d] = NoDatabase]
    BY <1>4 DEF Created, CreateFails
  <2>2. dbs' \in [Dbs -> Databases] /\ dbs'[d].phase = "closed"
        /\ \A e \in Dbs \ {d} : dbs'[e] = dbs[e]
    BY <1>1, <2>1, DatabaseTypes
  <2>3. DatabasesFit(tab, dbs', queries)
    <3>1. tab.db # NoDb => dbs'[tab.db] = dbs[tab.db]
      BY <1>1, <1>3, <2>2, TabFields
    <3>2. Fewer(dbs, dbs') /\ queries \subseteq queries
      BY <2>2 DEF Wanted, Fewer
    <3> QED BY <1>1, <3>1, <3>2, FewerDatabasesFit
  <2>4. CASE tab' = tab
    BY <1>1, <2>2, <2>3, <2>4 DEF RunnerInv, Types, DatabasesFit, QueriesFit, VerdictFits, Taken,
                                  Wanted, IsLatest
  <2>5. CASE Wanted(dbs, d) /\ tab' = [tab EXCEPT !.status = "error"]
    <3>1. /\ tab' \in Tabs /\ tab'.status = "error" /\ tab'.at = tab.at /\ tab'.db = tab.db
          /\ tab'.run = tab.run /\ tab'.verdict = tab.verdict /\ tab'.attempts = tab.attempts
          /\ tab'.preview = tab.preview
      BY <1>1, <2>5 DEF Tabs
    <3>2. tab.db = NoDb
      BY <1>1, <2>5 DEF DatabasesFit
    <3>3. tab.status # "running" /\ QueriesFit(tab', queries)
      <4>1. \A query \in queries : ~Taken(tab, query)
        BY <1>1, <3>2, DbsAssumption DEF Taken, Running
      <4>2. \A query \in queries : ~Taken(tab', query)
        BY <3>1, <4>1 DEF Taken
      <4> QED BY <1>1, <3>1, <4>1, <4>2 DEF QueriesFit
    <3>4. DatabasesFit(tab', dbs', queries) /\ VerdictFits(tab')
      BY <1>1, <2>3, <3>1 DEF DatabasesFit, VerdictFits
    <3> QED BY <1>1, <2>2, <3>1, <3>3, <3>4
            DEF RunnerInv, Types, DatabasesFit, QueriesFit, VerdictFits, Taken, Wanted, IsLatest
  <2> QED BY <1>4, <2>4, <2>5 DEF Created, CreateFails, Wanted
<1>5. CASE ~dbs[d].cancelled /\ Created(d)
  <2>1. dbs' = [dbs EXCEPT ![d] = [dbs[d] EXCEPT !.phase = "open"]] /\ tab' = [tab EXCEPT !.db = d]
    BY <1>1, <1>5 DEF Created
  <2>2. /\ dbs' \in [Dbs -> Databases] /\ dbs'[d].phase = "open" /\ dbs'[d].of = dbs[d].of
        /\ \A e \in Dbs \ {d} : dbs'[e] = dbs[e]
    BY <1>1, <2>1 DEF Databases
  <2>3. /\ tab' \in Tabs /\ tab'.status = tab.status /\ tab'.at = tab.at /\ tab'.db = d
        /\ tab'.run = tab.run /\ tab'.verdict = tab.verdict /\ tab'.attempts = tab.attempts
        /\ tab'.preview = tab.preview
    BY <1>1, <2>1 DEF Tabs
  <2>4. Wanted(dbs, d) /\ tab.db = NoDb /\ tab.at # Nowhere /\ dbs[d].of = tab.at
    BY <1>1, <1>5 DEF DatabasesFit, Wanted
  <2>5. DatabasesFit(tab', dbs', queries)
    <3>1. \A e \in Dbs : ~Wanted(dbs', e)
      BY <1>1, <2>2, <2>4 DEF DatabasesFit, Wanted
    <3>2. \A e \in Dbs \ {d} : dbs'[e].phase # "open"
      BY <1>1, <2>2, <2>4, DbsAssumption DEF DatabasesFit
    <3> QED BY <1>1, <2>2, <2>3, <2>4, <3>1, <3>2 DEF DatabasesFit
  <2>6. QueriesFit(tab', queries)
    <3>1. \A query \in queries : ~Taken(tab, query) /\ ~Taken(tab', query)
      BY <1>1, <1>2, <2>3, <2>4, DbsAssumption DEF Taken, Running
    <3> QED BY <1>1, <2>3, <3>1 DEF QueriesFit
  <2>7. VerdictFits(tab')
    BY <1>1, <2>3 DEF VerdictFits
  <2> QED BY <1>1, <2>2, <2>3, <2>5, <2>6, <2>7
          DEF RunnerInv, Types, DatabasesFit, QueriesFit, VerdictFits, Taken, Wanted, IsLatest
<1> QED BY <1>4, <1>5

\* A query is started where none runs.
LEMMA RunKeepsRunnerInv ==
  ASSUME RunnerInv, NEW code \in Codes, Run(code)
  PROVE  RunnerInv'
<1>1. /\ tab \in Tabs /\ dbs \in [Dbs -> Databases] /\ queries \in SUBSET Running
      /\ DatabasesFit(tab, dbs, queries) /\ QueriesFit(tab, queries) /\ VerdictFits(tab)
      /\ tab.db # NoDb /\ tab.status # "running" /\ UNCHANGED <<storage, cached, dbs, log>>
  BY DEF RunnerInv, Types, Run
<1> DEFINE new == [run |-> tab.run + 1, exec |-> TRUE, db |-> tab.db, of |-> tab.at, code |-> code]
           t == [tab EXCEPT !.status = "running", !.verdict = NoVerdict, !.run = @ + 1]
<1>2. tab' = t /\ queries' = queries \cup {new}
  BY DEF Run
<1>3. /\ t \in Tabs /\ t.status = "running" /\ t.verdict = NoVerdict /\ t.run = tab.run + 1
      /\ t.at = tab.at /\ t.db = tab.db /\ t.attempts = tab.attempts /\ t.preview = tab.preview
  <2>1. tab.run + 1 \in Nat
    BY <1>1, TabFields
  <2> QED BY <1>1, <2>1, NoVerdictType DEF Tabs
<1>4. tab.db \in Dbs /\ tab.at \in Questions /\ tab.run \in Nat
  BY <1>1, TabFields DEF DatabasesFit, Places
<1>5. new \in Running
  BY <1>4 DEF Running
<1>6. new.run = tab.run + 1 /\ new.exec /\ new.db = tab.db /\ new.of = tab.at
  OBVIOUS
<1> HIDE DEF new, t
<1>7. QueriesFit(t, queries \cup {new})
  <2>1. \A query \in queries : ~Taken(tab, query) /\ query.run <= tab.run /\ query.run \in Nat
    BY <1>1 DEF QueriesFit, Running
  <2>2. \A query \in queries : query.run # new.run /\ query.run <= t.run /\ ~Taken(t, query)
    BY <1>3, <1>4, <1>6, <2>1 DEF Taken
  <2>3. \A a, b \in queries : a.run = b.run => a = b
    BY <1>1 DEF QueriesFit
  <2>4. Taken(t, new) /\ new.run = t.run /\ new.of = t.at
    BY <1>3, <1>6 DEF Taken
  <2>5. new.run <= t.run
    BY <1>4, <1>6, <2>4
  <2> QED BY <1>3, <2>2, <2>3, <2>4, <2>5 DEF QueriesFit
<1>8. DatabasesFit(t, dbs, queries \cup {new})
  <2>1. \A d \in Dbs : dbs[d].phase = "creating" => new.db # d
    BY <1>1, <1>6 DEF DatabasesFit
  <2> QED BY <1>1, <1>3, <2>1 DEF DatabasesFit
<1>9. VerdictFits(t)
  BY <1>1, <1>3 DEF VerdictFits
<1>10. Types' /\ \A q \in Questions : IsLatest(storage'.attempts[q], log'[q])
  BY <1>1, <1>2, <1>3, <1>5 DEF RunnerInv, Types
<1> QED BY <1>1, <1>2, <1>7, <1>8, <1>9, <1>10, InvFromParts

LEMMA ResultType == ASSUME NEW c, NEW a, NEW q PROVE Result(c, a, q) \in Results
BY DEF Result, Results

\* The answer of a query comes back: it is taken if it is still waited for.
LEMMA ReturnKeepsRunnerInv ==
  ASSUME RunnerInv, NEW query \in queries, Return(query)
  PROVE  RunnerInv'
<1>1. /\ tab \in Tabs /\ dbs \in [Dbs -> Databases] /\ queries \in SUBSET Running /\ Types
      /\ DatabasesFit(tab, dbs, queries) /\ QueriesFit(tab, queries) /\ VerdictFits(tab)
  BY DEF RunnerInv, Types
<1>2. query.db \in Dbs /\ query.of \in Questions /\ query.run \in Nat /\ query.db # NoDb
  BY <1>1, DbsAssumption DEF Running
<1> DEFINE qs == queries \ {query}
<1>3. CASE ~IsCurrent(query) /\ queries' = qs /\ UNCHANGED <<storage, cached, tab, dbs, log>>
  <2>1. QueriesFit(tab, qs)
    BY <1>1, <1>3 DEF QueriesFit, Taken, IsCurrent
  <2>2. DatabasesFit(tab, dbs, qs)
    BY <1>1 DEF DatabasesFit
  <2> QED BY <1>1, <1>3, <2>1, <2>2
          DEF RunnerInv, Types, DatabasesFit, QueriesFit, VerdictFits, Taken, Wanted, IsLatest
<1>4. CASE IsCurrent(query)
  <2> DEFINE r == Result(query.code, dbs[query.db].altered, query.of)
             status == IF r = "error" THEN "error" ELSE "success"
             v == [run |-> query.run, of |-> query.of, result |-> r]
             h == Recorded(query, r).attempts[query.of]
             shown == [tab EXCEPT !.status = status, !.verdict = v, !.attempts = h]
             quiet == [shown EXCEPT !.attempts = IF tab.preview THEN tab.attempts ELSE @]
             touched == [dbs EXCEPT ![query.db].altered = @ \/ query.code = "alters"]
  <2>1. r \in Results /\ status \in {"success", "error"}
    BY ResultType
  <2>2. /\ Recorded(query, r) = storage' /\ cached \in SUBSET Stored
        /\ log' = IF tab.preview THEN log ELSE [log EXCEPT ![query.of] = Append(@, r)]
        /\ \/ r = "correct" /\ ~tab.preview /\ Synced(shown, qs)
           \/ /\ ~(r = "correct" /\ ~tab.preview)
              /\ tab' = quiet /\ dbs' = touched /\ queries' = qs /\ UNCHANGED cached
    BY <1>1, <1>4 DEF Return, Types
  <2> HIDE DEF r
  <2>3. v \in Verdicts /\ v.run = query.run /\ v.of = query.of /\ v.result = r
    BY <1>2, <2>1 DEF Verdicts, Places
  <2>4. /\ storage' \in Storages /\ log' \in [Questions -> Seq(Results)] /\ h \in Seq(Results)
        /\ \A q \in Questions : IsLatest(storage'.attempts[q], log'[q])
        /\ ~tab.preview => h # <<>> /\ h[Len(h)] = r
    <3>1. /\ storage.attempts \in [Questions -> Seq(Results)] /\ storage \in Storages
          /\ log \in [Questions -> Seq(Results)]
          /\ \A q \in Questions : IsLatest(storage.attempts[q], log[q])
      BY DEF RunnerInv, Types, Storages
    <3>2. CASE tab.preview
      <4>1. storage' = storage /\ log' = log
        BY <2>2, <3>2 DEF Recorded
      <4> QED BY <1>2, <2>2, <3>1, <3>2, <4>1
    <3>3. CASE ~tab.preview
      <4> DEFINE new == Trimmed(Append(storage.attempts[query.of], r))
                 sol == IF r = "correct" THEN storage.solved \cup {query.of} ELSE storage.solved
      <4>1. storage' = [storage EXCEPT !.solved = sol, !.attempts[query.of] = new]
        BY <2>2, <3>1, <3>3 DEF Recorded, Storages
      <4>2. /\ new \in Seq(Results) /\ new # <<>> /\ new[Len(new)] = r
            /\ IsLatest(new, Append(log[query.of], r))
        BY <1>2, <2>1, <3>1, TrimmedFits
      <4>3. sol \in SUBSET Questions
        BY <1>2, <3>1 DEF Storages
      <4>4. log' = [log EXCEPT ![query.of] = Append(log[query.of], r)]
        BY <1>2, <2>2, <3>3
      <4> HIDE DEF new, sol
      <4>5. storage' \in Storages /\ storage'.attempts = [storage.attempts EXCEPT ![query.of] = new]
        BY <1>2, <3>1, <4>1, <4>2, <4>3 DEF Storages
      <4>6. log' \in [Questions -> Seq(Results)]
        BY <1>2, <2>1, <3>1, <4>4, AppendProperties
      <4>7. \A q \in Questions : IsLatest(storage'.attempts[q], log'[q])
        BY <1>2, <3>1, <4>2, <4>4, <4>5
      <4>8. h = new
        BY <1>2, <2>2, <3>1, <4>5
      <4> QED BY <4>2, <4>5, <4>6, <4>7, <4>8
    <3> QED BY <3>2, <3>3
  <2> HIDE DEF h, v, status
  <2>5. /\ shown \in Tabs /\ shown.status = status /\ shown.verdict = v /\ shown.attempts = h
        /\ shown.at = tab.at /\ shown.db = tab.db /\ shown.run = tab.run
        /\ shown.preview = tab.preview
    BY <1>1, <2>1, <2>3, <2>4 DEF Tabs
  <2> HIDE DEF shown
  <2>6. quiet \in Tabs /\ quiet.status = status /\ quiet.verdict = v
        /\ quiet.attempts = (IF tab.preview THEN tab.attempts ELSE h)
        /\ quiet.at = tab.at /\ quiet.db = tab.db /\ quiet.run = tab.run
        /\ quiet.preview = tab.preview
    BY <1>1, <2>4, <2>5, TabFields DEF Tabs
  <2> HIDE DEF quiet
  <2>7. Taken(tab, query) /\ query.run = tab.run /\ query.of = tab.at /\ tab.db = query.db
    BY <1>1, <1>4 DEF IsCurrent, Taken, QueriesFit
  <2>8. \A x \in qs : ~Taken(tab, x) /\ x.run <= tab.run
    BY <1>1, <2>7 DEF QueriesFit
  <2>9. QueriesFit(shown, qs) /\ QueriesFit(quiet, qs)
    BY <1>1, <2>1, <2>5, <2>6, <2>8 DEF QueriesFit, Taken
  <2>10. VerdictFits(quiet) /\ (~tab.preview => VerdictFits(shown))
    BY <1>1, <2>3, <2>4, <2>5, <2>6, <2>7 DEF VerdictFits
  <2>11. CASE r = "correct" /\ ~tab.preview /\ Synced(shown, qs)
    <3>1. qs \in SUBSET queries
      OBVIOUS
    <3>2. /\ cached' \in SUBSET Stored /\ tab' \in Tabs /\ dbs' \in [Dbs -> Databases]
          /\ queries' \in SUBSET Running
          /\ DatabasesFit(tab', dbs', queries') /\ QueriesFit(tab', queries')
          /\ VerdictFits(tab')
      BY <1>1, <2>5, <2>9, <2>10, <2>11, <3>1, SyncedFits
    <3> QED BY <2>4, <3>2 DEF RunnerInv, Types, DatabasesFit, QueriesFit, VerdictFits, Taken,
                              Wanted, IsLatest
  <2>12. CASE tab' = quiet /\ dbs' = touched /\ queries' = qs /\ UNCHANGED cached
    <3>1. /\ touched \in [Dbs -> Databases]
          /\ \A d \in Dbs : /\ touched[d].of = dbs[d].of /\ touched[d].phase = dbs[d].phase
                            /\ touched[d].cancelled = dbs[d].cancelled
      <4> DEFINE alt == dbs[query.db].altered \/ query.code = "alters"
                 new == [dbs[query.db] EXCEPT !.altered = alt]
      <4>1. touched = [dbs EXCEPT ![query.db] = new]
        BY <1>1, <1>2 DEF Databases
      <4>2. alt \in BOOLEAN
        BY <1>1, <1>2 DEF Databases
      <4> HIDE DEF alt
      <4>3. new \in Databases /\ new.of = dbs[query.db].of /\ new.phase = dbs[query.db].phase
            /\ new.cancelled = dbs[query.db].cancelled
        BY <1>1, <1>2, <4>2 DEF Databases
      <4> HIDE DEF new, touched
      <4> QED BY <1>1, <1>2, <4>1, <4>3
    <3> HIDE DEF touched
    <3>2. DatabasesFit(quiet, touched, qs)
      <4>1. DatabasesFit(quiet, dbs, queries)
        BY <1>1, <2>6 DEF DatabasesFit
      <4>2. Fewer(dbs, touched)
        BY <3>1 DEF Wanted, Fewer
      <4>3. qs \subseteq queries /\ quiet.db \in Dbs
        BY <1>2, <2>6, <2>7
      <4>4. /\ touched[quiet.db].of = dbs[quiet.db].of
            /\ touched[quiet.db].phase = dbs[quiet.db].phase
        BY <3>1, <4>3
      <4> HIDE DEF qs
      <4> QED BY <2>6, <4>1, <4>2, <4>3, <4>4, FewerDatabasesFit
    <3>3. Types'
      BY <1>1, <2>2, <2>4, <2>6, <2>12, <3>1 DEF Types
    <3>4. /\ DatabasesFit(tab', dbs', queries') /\ QueriesFit(tab', queries')
          /\ VerdictFits(tab')
      BY <2>9, <2>10, <2>12, <3>2
    <3> QED BY <2>4, <3>3, <3>4, InvFromParts
  <2> QED BY <2>2, <2>11, <2>12
<1> QED BY <1>3, <1>4 DEF Return

\* The page forgets its result, or its history.
LEMMA ResetKeepsRunnerInv ==
  ASSUME RunnerInv, Reset
  PROVE  RunnerInv'
<1>1. /\ tab \in Tabs /\ tab.status # "running" /\ Types
      /\ DatabasesFit(tab, dbs, queries) /\ QueriesFit(tab, queries)
      /\ UNCHANGED <<storage, cached, dbs, queries, log>>
      /\ tab' = [tab EXCEPT !.status = "idle", !.verdict = NoVerdict]
  BY DEF RunnerInv, Types, Reset
<1>2. /\ tab' \in Tabs /\ tab'.status = "idle" /\ tab'.verdict = NoVerdict /\ tab'.at = tab.at
      /\ tab'.db = tab.db /\ tab'.run = tab.run /\ tab'.preview = tab.preview
      /\ tab'.attempts = tab.attempts
  BY <1>1, NoVerdictType DEF Tabs
<1>3. DatabasesFit(tab', dbs, queries)
  BY <1>1, <1>2 DEF DatabasesFit
<1>4. QueriesFit(tab', queries)
  BY <1>1, <1>2 DEF QueriesFit, Taken
<1>5. VerdictFits(tab')
  BY <1>2 DEF RunnerInv, VerdictFits
<1>6. Types'
  BY <1>1, <1>2 DEF Types
<1>7. \A q \in Questions : IsLatest(storage'.attempts[q], log'[q])
  BY <1>1 DEF RunnerInv
<1> QED BY <1>1, <1>3, <1>4, <1>5, <1>6, <1>7, InvFromParts

LEMMA ClearHistoryKeepsRunnerInv ==
  ASSUME RunnerInv, ClearHistory
  PROVE  RunnerInv'
<1>1. /\ tab \in Tabs /\ Types /\ storage \in Storages /\ log \in [Questions -> Seq(Results)]
      /\ DatabasesFit(tab, dbs, queries) /\ QueriesFit(tab, queries) /\ VerdictFits(tab)
      /\ UNCHANGED <<cached, dbs, queries>> /\ <<>> \in Seq(Results) /\ tab.at \in Questions
      /\ tab' = [tab EXCEPT !.attempts = <<>>]
      /\ storage' = [storage EXCEPT !.attempts[tab.at] = <<>>]
      /\ log' = [log EXCEPT ![tab.at] = <<>>]
  BY TabFields DEF RunnerInv, Types, ClearHistory, Places
<1>2. /\ tab' \in Tabs /\ tab'.status = tab.status /\ tab'.verdict = tab.verdict
      /\ tab'.at = tab.at /\ tab'.db = tab.db /\ tab'.run = tab.run
      /\ tab'.preview = tab.preview /\ tab'.attempts = <<>>
  BY <1>1 DEF Tabs
<1>3. storage' \in Storages /\ storage'.attempts = [storage.attempts EXCEPT ![tab.at] = <<>>]
  BY <1>1 DEF Storages
<1>4. DatabasesFit(tab', dbs, queries) /\ QueriesFit(tab', queries) /\ VerdictFits(tab')
  BY <1>1, <1>2 DEF DatabasesFit, QueriesFit, Taken, VerdictFits
<1>5. Types'
  BY <1>1, <1>2, <1>3 DEF Types
<1>6. \A q \in Questions : IsLatest(storage'.attempts[q], log'[q])
  <2>1. IsLatest(<<>>, <<>>)
    BY RunnerAssumption DEF IsLatest
  <2>2. storage.attempts \in [Questions -> Seq(Results)]
    BY <1>1 DEF Storages
  <2>3. \A q \in Questions : IsLatest(storage.attempts[q], log[q])
    BY DEF RunnerInv
  <2>4. \A q \in Questions \ {tab.at} : storage'.attempts[q] = storage.attempts[q] /\ log'[q] = log[q]
    BY <1>1, <1>3, <2>2
  <2>5. storage'.attempts[tab.at] = <<>> /\ log'[tab.at] = <<>>
    BY <1>1, <1>3, <2>2
  <2> QED BY <2>1, <2>3, <2>4, <2>5
<1> QED BY <1>1, <1>4, <1>5, <1>6, InvFromParts

\* The other tab writes; the page does not see it yet.
LEMMA OthersKeepRunnerInv ==
  ASSUME RunnerInv,
         (\E q \in Questions : OtherSolves(q)) \/ (\E c \in SUBSET Stored : OtherEdits(c))
  PROVE  RunnerInv'
<1>1. /\ Types /\ storage \in Storages /\ log \in [Questions -> Seq(Results)]
      /\ DatabasesFit(tab, dbs, queries) /\ QueriesFit(tab, queries) /\ VerdictFits(tab)
      /\ storage.attempts \in [Questions -> Seq(Results)]
      /\ \A q \in Questions : IsLatest(storage.attempts[q], log[q])
  BY DEF RunnerInv, Types, Storages
<1>2. UNCHANGED <<cached, tab, dbs, queries>>
  BY DEF OtherSolves, OtherEdits, Others
<1>3. /\ storage' \in Storages /\ log' \in [Questions -> Seq(Results)]
      /\ \A q \in Questions : IsLatest(storage'.attempts[q], log'[q])
  <2>1. CASE \E q \in Questions : OtherSolves(q)
    <3>1. PICK q \in Questions : OtherSolves(q)
      BY <2>1
    <3> DEFINE new == Trimmed(Append(storage.attempts[q], "correct"))
               sol == storage.solved \cup {q}
    <3>2. /\ storage' = [storage EXCEPT !.solved = sol, !.attempts[q] = new]
          /\ log' = [log EXCEPT ![q] = Append(log[q], "correct")]
      BY <1>1, <3>1 DEF OtherSolves, Others, Storages
    <3>3. new \in Seq(Results) /\ IsLatest(new, Append(log[q], "correct"))
      <4>1. "correct" \in Results
        BY DEF Results
      <4> QED BY <1>1, <4>1, TrimmedFits
    <3>4. sol \in SUBSET Questions /\ Append(log[q], "correct") \in Seq(Results)
      BY <1>1, AppendProperties DEF Storages, Results
    <3> HIDE DEF new, sol
    <3>5. storage' \in Storages /\ storage'.attempts = [storage.attempts EXCEPT ![q] = new]
      BY <1>1, <3>2, <3>3, <3>4 DEF Storages
    <3>6. log' \in [Questions -> Seq(Results)]
      BY <1>1, <3>2, <3>4
    <3>7. \A x \in Questions : IsLatest(storage'.attempts[x], log'[x])
      BY <1>1, <3>2, <3>3, <3>5
    <3> QED BY <3>5, <3>6, <3>7
  <2>2. CASE \E c \in SUBSET Stored : OtherEdits(c)
    <3>1. PICK c \in SUBSET Stored : OtherEdits(c)
      BY <2>2
    <3>2. storage' = [storage EXCEPT !.custom = c] /\ log' = log
      BY <3>1 DEF OtherEdits, Others
    <3>3. storage' \in Storages /\ storage'.attempts = storage.attempts
      BY <1>1, <3>2 DEF Storages
    <3> QED BY <1>1, <3>2, <3>3
  <2> QED BY <2>1, <2>2
<1>4. Types'
  BY <1>1, <1>2, <1>3 DEF Types
<1> QED BY <1>1, <1>2, <1>3, <1>4, InvFromParts

LEMMA ToldKeepsRunnerInv ==
  ASSUME RunnerInv, Told
  PROVE  RunnerInv'
<1>1. /\ Types /\ tab \in Tabs /\ DatabasesFit(tab, dbs, queries) /\ QueriesFit(tab, queries)
      /\ VerdictFits(tab) /\ queries \in SUBSET queries /\ Synced(tab, queries)
      /\ UNCHANGED <<storage, log>>
  BY DEF RunnerInv, Types, Told
<1>2. /\ cached' \in SUBSET Stored /\ tab' \in Tabs /\ dbs' \in [Dbs -> Databases]
      /\ queries' \in SUBSET Running
      /\ DatabasesFit(tab', dbs', queries') /\ QueriesFit(tab', queries') /\ VerdictFits(tab')
  BY <1>1, SyncedFits
<1>3. Types'
  BY <1>1, <1>2 DEF Types
<1>4. \A q \in Questions : IsLatest(storage'.attempts[q], log'[q])
  BY <1>1 DEF RunnerInv
<1> QED BY <1>2, <1>3, <1>4, InvFromParts

\* Every step of the page, the database, a query and the other tab.
LEMMA RunnerInvStep == RunnerInv /\ [Next]_vars => RunnerInv'
<1> SUFFICES ASSUME RunnerInv, [Next]_vars PROVE RunnerInv'
  OBVIOUS
<1>1. CASE (\E q \in Questions : Open(q) \/ Preview(q)) \/ Leave
  BY <1>1, OpeningsKeepRunnerInv
<1>2. CASE \E d \in Dbs : Created(d) \/ CreateFails(d)
  BY <1>2, CreationsKeepRunnerInv
<1>3. CASE \E query \in queries : Return(query)
  BY <1>3, ReturnKeepsRunnerInv
<1>4. CASE \E c \in Codes : Run(c)
  BY <1>4, RunKeepsRunnerInv
<1>5. CASE Reset
  BY <1>5, ResetKeepsRunnerInv
<1>6. CASE ClearHistory
  BY <1>6, ClearHistoryKeepsRunnerInv
<1>7. CASE (\E q \in Questions : OtherSolves(q)) \/ (\E c \in SUBSET Stored : OtherEdits(c))
  BY <1>7, OthersKeepRunnerInv
<1>8. CASE Told
  BY <1>8, ToldKeepsRunnerInv
<1>9. CASE UNCHANGED vars
  BY <1>9 DEF vars, RunnerInv, Types, DatabasesFit, QueriesFit, VerdictFits, Taken, Wanted, IsLatest
<1> QED BY <1>1, <1>2, <1>3, <1>4, <1>5, <1>6, <1>7, <1>8, <1>9 DEF Next, Settle

\* At every moment the page, its query, its databases and its history have
\* the values the code gives them, one query per number, one database wanted.
THEOREM RunnerInvariant == Spec => []RunnerInv
<1> QED BY InitRunnerInv, RunnerInvStep, PTL DEF Spec

-------------------------------------------------------------------------------
LEMMA OneTakenQuery ==
  ASSUME RunnerInv
  PROVE  RunningIsAwaited
<1> DEFINE C == {query \in queries : IsCurrent(query)}
<1>1. QueriesFit(tab, queries)
  BY DEF RunnerInv
<1>2. \A query \in queries : IsCurrent(query) <=> Taken(tab, query)
  BY DEF IsCurrent, Taken
<1>3. CASE tab.status = "running"
  <2>1. PICK x \in queries : Taken(tab, x)
    BY <1>1, <1>3 DEF QueriesFit
  <2>2. \A y \in queries : Taken(tab, y) => y = x
    BY <1>1, <2>1 DEF QueriesFit
  <2>3. C = {x}
    BY <1>2, <2>1, <2>2
  <2>4. Cardinality(C) = 1
    BY <2>3, FS_Singleton
  <2> QED BY <1>3, <2>4 DEF RunningIsAwaited
<1>4. CASE tab.status # "running"
  <2>1. C = {}
    BY <1>1, <1>2, <1>4 DEF QueriesFit
  <2>2. Cardinality(C) = 0
    BY <2>1, FS_EmptySet
  <2> QED BY <1>4, <2>2 DEF RunningIsAwaited
<1> QED BY <1>3, <1>4

\* At every moment the page runs exactly one query if it says so, its verdict
\* is of its last query and of its question, every other database is released,
\* and the one it uses was built for the question it shows.
THEOREM RunnersAreConsistent == Spec => []RunnerIsConsistent
<1>1. RunnerInv => RunnerIsConsistent
  <2> SUFFICES ASSUME RunnerInv PROVE RunnerIsConsistent
    OBVIOUS
  <2>1. Types /\ DatabasesFit(tab, dbs, queries) /\ VerdictFits(tab)
        /\ \A q \in Questions : IsLatest(storage.attempts[q], log[q])
    BY DEF RunnerInv
  <2>2. TypeOK
    <3>1. /\ storage.solved \subseteq Questions /\ storage.custom \subseteq Stored
          /\ \A q \in Questions : /\ storage.attempts[q] \in Seq(Results)
                                  /\ Len(storage.attempts[q]) <= MaxAttempts
      BY <2>1 DEF Types, Storages, IsLatest
    <3>2. cached \subseteq Stored /\ tab \in Tabs
      BY <2>1 DEF Types
    <3>3. \A d \in Dbs : dbs[d].phase \in {"creating", "open", "closed"}
      BY <2>1 DEF Types, Databases
    <3>4. \A query \in queries : query.db \in Dbs /\ query.exec \in BOOLEAN
      BY <2>1 DEF Types, Running
    <3> QED BY <3>1, <3>2, <3>3, <3>4, TabFields DEF TypeOK, Places
  <2>3. VerdictIsOfLastRun
    BY <2>1 DEF VerdictFits, VerdictIsOfLastRun
  <2>4. DatabasesAreReleased /\ DatabaseIsOfQuestion
    BY <2>1 DEF DatabasesFit, Wanted, DatabasesAreReleased, DatabaseIsOfQuestion
  <2> QED BY <2>2, <2>3, <2>4, OneTakenQuery DEF RunnerIsConsistent
<1> QED BY <1>1, RunnerInvariant, PTL

\* At every moment the stored attempts of a question are its latest verdicts
\* of both tabs, and the verdict on the page is the last of its history.
THEOREM HistoriesAreFaithful == Spec => []HistoryIsFaithful
<1>1. RunnerInv => HistoryIsFaithful
  <2> SUFFICES ASSUME RunnerInv PROVE HistoryIsFaithful
    OBVIOUS
  <2>1. Types /\ VerdictFits(tab) /\ \A q \in Questions : IsLatest(storage.attempts[q], log[q])
    BY DEF RunnerInv
  <2>2. HistoryIsTheLatest
    <3> SUFFICES ASSUME NEW q \in Questions
                 PROVE  LET kept == Len(storage.attempts[q])
                            dropped == Len(log[q]) - kept
                        IN /\ kept < MaxAttempts => dropped = 0
                           /\ \A i \in 1..kept : storage.attempts[q][i] = log[q][dropped + i]
      BY DEF HistoryIsTheLatest
    <3> DEFINE s == storage.attempts[q]
               l == log[q]
    <3>1. Len(s) \in Nat /\ Len(l) \in Nat /\ IsLatest(s, l)
      BY <2>1 DEF Types, Storages
    <3> HIDE DEF s, l
    <3>2. Len(s) < MaxAttempts => Len(l) - Len(s) = 0
      BY <3>1 DEF IsLatest
    <3>3. \A i \in 1..Len(s) : s[i] = l[(Len(l) - Len(s)) + i]
      BY <3>1 DEF IsLatest
    <3> QED BY <3>2, <3>3 DEF s, l
  <2>3. VerdictIsRecorded
    BY <2>1 DEF VerdictFits, VerdictIsRecorded
  <2> QED BY <2>2, <2>3 DEF HistoryIsFaithful
<1> QED BY <1>1, RunnerInvariant, PTL

-------------------------------------------------------------------------------
\* A sync that finds the catalogue the tab has read leaves the page alone.
LEMMA QuietSync ==
  ASSUME Told, storage.custom = cached
  PROVE  tab' = tab /\ dbs' = dbs
<1>1. Synced(tab, queries)
  BY DEF Told
<1> DEFINE was == Resolves(tab.at, cached)
           there == Resolves(tab.at, storage.custom)
           resets == tab.at # Nowhere /\ ~tab.preview /\ was # there
           rebuilds == tab.at # Nowhere /\ ~tab.preview /\ was /\ there /\ IsRebuilt(tab.at)
<1>2. ~resets /\ ~rebuilds
  BY DEF IsRebuilt
<1> QED BY <1>1, <1>2 DEF Synced

\* Only the other tab's writes are counted.
LEMMA OthersCount == others \in Nat /\ [Next]_vars => others' \in Nat
<1> SUFFICES ASSUME others \in Nat, [Next]_vars PROVE others' \in Nat
  OBVIOUS
<1>1. CASE (\E q \in Questions : OtherSolves(q)) \/ (\E c \in SUBSET Stored : OtherEdits(c))
  <2>1. others' = others + 1
    BY <1>1 DEF OtherSolves, OtherEdits, Others
  <2> QED BY <2>1
<1>2. CASE (\E q \in Questions : Open(q) \/ Preview(q)) \/ Leave
  BY <1>2 DEF Open, Preview, Leave
<1>3. CASE Settle
  BY <1>3 DEF Settle, Created, CreateFails, Return
<1>4. CASE (\E c \in Codes : Run(c)) \/ Reset \/ ClearHistory \/ Told
  BY <1>4 DEF Run, Reset, ClearHistory, Told
<1>5. CASE UNCHANGED vars
  BY <1>5 DEF vars
<1> QED BY <1>1, <1>2, <1>3, <1>4, <1>5 DEF Next

\* No step of the page writes to storage while it is a preview.
LEMMA QuietPreview ==
  ASSUME others \in Nat, [Next]_vars, tab.preview, others' = others
  PROVE  storage' = storage
<1>1. CASE \E query \in queries : Return(query)
  <2>1. PICK query \in queries : Return(query)
    BY <1>1
  <2>2. \A r : Recorded(query, r) = storage
    BY DEF Recorded
  <2> QED BY <2>1, <2>2 DEF Return
<1>2. CASE (\E q \in Questions : OtherSolves(q)) \/ (\E c \in SUBSET Stored : OtherEdits(c))
  <2>1. others' = others + 1 /\ others \in Nat
    BY <1>2 DEF OtherSolves, OtherEdits, Others
  <2> QED BY <2>1
<1>3. CASE (\E q \in Questions : Open(q) \/ Preview(q)) \/ Leave
  BY <1>3 DEF Open, Preview, Leave
<1>4. CASE \E d \in Dbs : Created(d) \/ CreateFails(d)
  BY <1>4 DEF Created, CreateFails
<1>5. CASE (\E c \in Codes : Run(c)) \/ Reset \/ ClearHistory \/ Told
  BY <1>5 DEF Run, Reset, ClearHistory, Told
<1>6. CASE UNCHANGED vars
  BY <1>6 DEF vars
<1> QED BY <1>1, <1>2, <1>3, <1>4, <1>5, <1>6 DEF Next, Settle

\* A sync wipes no verdict unless the stored catalogue changed, and what a
\* preview runs is never stored, whatever the other tab does.
THEOREM SideEffectsStayContained == Spec => SideEffectsAreContained
<1> DEFINE Counted == others \in Nat
<1>1. [Next]_vars => [Told /\ storage.custom = cached => tab' = tab /\ dbs' = dbs]_vars
  BY QuietSync
<1>2. Init => Counted
  BY DEF Init
<1>3. Counted /\ [Next]_vars => Counted'
  BY OthersCount
<1>4. Counted /\ [Next]_vars
        => [tab.preview /\ others' = others => storage' = storage]_vars
  BY QuietPreview
<1> HIDE DEF Counted
<1>5. Spec => SyncsKeepTheVerdict
  BY <1>1, PTL DEF Spec, SyncsKeepTheVerdict
<1>6. Spec => PreviewLeavesNoTrace
  BY <1>2, <1>3, <1>4, PTL DEF Spec, PreviewLeavesNoTrace
<1> QED BY <1>5, <1>6 DEF SideEffectsAreContained
===============================================================================
