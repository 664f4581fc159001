------------------------- MODULE QuestionStoreProofs -------------------------
(***************************************************************************)
(* Proofs about the two writers of the question table, server/store.ts:    *)
(* QuestionStore, for every set of ids, requests and drafts, from the      *)
(* inductive invariant QSInv; and BulkImport, for every list, statement    *)
(* and batch size, from ImportInv.                                         *)
(***************************************************************************)
EXTENDS QuestionStore, BulkImport, FiniteSetTheorems, SequenceTheorems,
        WellFoundedInduction, TLAPS

\* Which step a request may be at, given what it asks for.
StepFits ==
  \A r \in Reqs :
    /\ pc[r] = "source" => call[r].op = "duplicate"
    /\ pc[r] \in {"check", "insert", "created"} => call[r].op \in {"create", "duplicate"}
    /\ pc[r] = "load" => call[r].op \notin {"create", "duplicate"}
    /\ pc[r] \in {"update", "updated", "reload"} => call[r].op = "update"
    /\ pc[r] \in {"flag", "flagged"} => call[r].op \in FlagOps
    /\ pc[r] \in {"delete", "deleted"} => call[r].op = "delete"
    /\ call[r].op \notin {"update", "duplicate"} => call[r].path = call[r].id

\* Before its write statement a request has written nothing and says nothing.
Unwritten ==
  \A r \in Reqs :
    /\ pc[r] \in {"idle", "source", "check", "insert", "load", "update", "flag", "delete"}
         => wrote[r] = 0
    /\ pc[r] \notin {"audit", "done"} => reply[r] = "none"
    /\ pc[r] \notin {"done"} => \A a \in audit : a.req # r

\* Only a row that exists is deleted, and one that was read exists still, at
\* the version read or a later one, undeleted if that version is unchanged.
RowsAreKept ==
  /\ \A i \in Ids : rows[i].deleted => rows[i].version > 0
  /\ \A r \in Reqs : pc[r] \in {"update", "flag", "delete"} =>
       /\ 0 < seen[r]
       /\ seen[r] <= rows[call[r].id].version
       /\ rows[call[r].id].version = seen[r] => ~rows[call[r].id].deleted

\* A PUT that sent a version writes over that version or not at all.
VersionChecked ==
  \A r \in Reqs : call[r].op = "update" /\ call[r].expected > 0 =>
    /\ pc[r] = "update" => seen[r] = call[r].expected
    /\ wrote[r] > 0 => wrote[r] = call[r].expected + 1

\* A create, duplicate or flag change past its write statement has written.
EffectDone ==
  \A r \in Reqs : call[r].op \in {"create", "duplicate"} \cup FlagOps =>
    /\ pc[r] \in {"created", "flagged", "audit"} => wrote[r] > 0
    /\ pc[r] = "done" /\ reply[r] \in Successes
         => wrote[r] > 0 /\ \E a \in audit : a.req = r
    /\ \A a \in audit : a.req = r => wrote[r] > 0 /\ a.id = call[r].id

QSInv ==
  /\ TypeOK
  /\ StepFits
  /\ Unwritten
  /\ RowsAreKept
  /\ VersionChecked
  /\ EffectDone
  /\ WritesGetDistinctVersions

-----------------------------------------------------------------------------
\* The rows a statement writes are rows.
LEMMA RowTypes ==
  ASSUME TypeOK, NEW r \in Reqs, NEW row \in Row, NEW op \in Ops
  PROVE  /\ InsertedRow(r) \in Row
         /\ UpdatedRow(row, r) \in Row
         /\ FlaggedRow(row, op) \in Row
         /\ DeletedRow(row) \in Row
<1>1. call[r].enabled \in BOOLEAN /\ call[r].published \in BOOLEAN /\ r \in Bodies
  BY DEF TypeOK, Calls, Bodies
<1>2. row.version + 1 \in Nat
  BY DEF Row
<1>3. InsertedRow(r) \in Row
  BY <1>1 DEF InsertedRow, Row
<1>4. UpdatedRow(row, r) \in Row
  BY <1>1, <1>2 DEF UpdatedRow, Row
<1>5. FlaggedRow(row, op) \in Row
  BY <1>2 DEF FlaggedRow, Row
<1>6. DeletedRow(row) \in Row
  BY <1>2 DEF DeletedRow, Row
<1> QED
  BY <1>3, <1>4, <1>5, <1>6

LEMMA InitInv == Init => QSInv
<1> SUFFICES ASSUME Init PROVE QSInv
  OBVIOUS
<1>1. PICK i \in Ids : call = [r \in Reqs |-> NoCall(i)]
  BY IdsAssumption, Zenon DEF Init
<1>2. NoCall(i) \in Calls
  BY DEF NoCall, Calls, Ops
<1>3. ASSUME NEW row \in SeedRows PROVE row \in Row /\ ~row.deleted
  <2>1. CASE row = NoRow
    BY <2>1 DEF NoRow, Row, Bodies
  <2>2. CASE row # NoRow
    <3>1. PICK d \in Drafts : row = [version |-> 1, enabled |-> d.enabled,
            published |-> d.published, deleted |-> FALSE, body |-> Seed]
      BY <2>2, Zenon DEF SeedRows
    <3>2. d.enabled \in BOOLEAN /\ d.published \in BOOLEAN
      BY DraftsAssumption
    <3> QED
      BY <3>1, <3>2 DEF Row, Bodies
  <2> QED
    BY <2>1, <2>2
<1>4. \A j \in Ids : rows[j] \in Row /\ ~rows[j].deleted
  BY <1>3 DEF Init
<1>5. TypeOK
  BY <1>1, <1>2, <1>3 DEF Init, TypeOK, Steps, Replies
<1>6. \A r \in Reqs : call[r].op = "create" /\ call[r].path = call[r].id
  BY <1>1 DEF NoCall
<1>7. StepFits
  BY <1>6 DEF Init, StepFits
<1>8. Unwritten
  BY DEF Init, Unwritten
<1>9. RowsAreKept
  BY <1>4 DEF Init, RowsAreKept
<1>10. VersionChecked /\ EffectDone
  BY <1>6 DEF Init, VersionChecked, EffectDone, Successes
<1>11. WritesGetDistinctVersions
  <2>1. \A r \in Reqs : wrote[r] = 0
    BY DEF Init
  <2> QED
    BY <2>1 DEF WritesGetDistinctVersions
<1> QED
  BY <1>5, <1>7, <1>8, <1>9, <1>10, <1>11 DEF QSInv
\* A write that gives the row its next version keeps versions apart, and
\* leaves no other request believing it holds the row's latest version.
LEMMA PutLemma ==
  ASSUME QSInv, NEW r \in Reqs, NEW row \in Row, NEW step \in {"created", "updated", "flagged", "deleted"},
         Put(r, row), Goto(r, step), UNCHANGED <<call, seen, reply, audit>>,
         row.version = rows[call[r].id].version + 1
  PROVE  /\ wrote'[r] = row.version
         /\ row.version > 0
         /\ \A s \in Reqs : s # r => wrote'[s] = wrote[s]
         /\ rows'[call[r].id] = row
         /\ \A i \in Ids : i # call[r].id => rows'[i] = rows[i]
         /\ TypeOK'
         /\ RowsAreKept'
         /\ WritesGetDistinctVersions'
<1>1. /\ rows \in [Ids -> Row] /\ wrote \in [Reqs -> Nat] /\ pc \in [Reqs -> Steps]
      /\ \A s \in Reqs : call[s].id \in Ids /\ seen[s] \in Nat
  BY DEF QSInv, TypeOK, Calls
<1>2. row.version \in Nat /\ row.version > 0 /\ \A i \in Ids : rows[i].version \in Nat
  BY <1>1 DEF Row
<1>3. /\ rows'[call[r].id] = row
      /\ \A i \in Ids : i # call[r].id => rows'[i] = rows[i]
      /\ wrote'[r] = row.version
      /\ \A s \in Reqs : s # r => wrote'[s] = wrote[s]
  BY <1>1 DEF Put
<1>4. rows' \in [Ids -> Row] /\ wrote' \in [Reqs -> Nat]
  BY <1>1, <1>2 DEF Put
<1>5. TypeOK'
  BY <1>1, <1>4 DEF QSInv, TypeOK, Goto, Steps
<1>6. WritesGetDistinctVersions'
  BY <1>1, <1>2, <1>3 DEF QSInv, WritesGetDistinctVersions
<1>7. \A i \in Ids : rows'[i].deleted => rows'[i].version > 0
  BY <1>2, <1>3 DEF QSInv, RowsAreKept
<1>8. ASSUME NEW s \in Reqs, pc'[s] \in {"update", "flag", "delete"}
      PROVE  /\ 0 < seen[s]
             /\ seen[s] <= rows'[call[s].id].version
             /\ rows'[call[s].id].version = seen[s] => ~rows'[call[s].id].deleted
  <2>1. pc[s] \in {"update", "flag", "delete"}
    BY <1>1, <1>8 DEF Goto
  <2>2. CASE call[s].id = call[r].id
    BY <1>1, <1>2, <1>3, <2>1, <2>2 DEF QSInv, RowsAreKept
  <2>3. CASE call[s].id # call[r].id
    BY <1>1, <1>3, <2>1, <2>3 DEF QSInv, RowsAreKept
  <2> QED
    BY <2>2, <2>3
<1>9. RowsAreKept'
  BY <1>7, <1>8 DEF RowsAreKept
<1> QED
  BY <1>2, <1>3, <1>5, <1>6, <1>9

\* What a write needs besides: the row is one, and its version the next.
LEMMA NextVersion ==
  ASSUME QSInv, NEW r \in Reqs
  PROVE  LET row == rows[call[r].id]
         IN  /\ row \in Row
             /\ row.version = 0 => InsertedRow(r).version = row.version + 1
             /\ UpdatedRow(row, r).version = row.version + 1
             /\ FlaggedRow(row, call[r].op).version = row.version + 1
             /\ DeletedRow(row).version = row.version + 1
             /\ InsertedRow(r) \in Row
             /\ UpdatedRow(row, r) \in Row
             /\ FlaggedRow(row, call[r].op) \in Row
             /\ DeletedRow(row) \in Row
<1> DEFINE row == rows[call[r].id]
<1>1. row \in Row /\ call[r].op \in Ops
  BY DEF QSInv, TypeOK, Calls
<1>2. TypeOK
  BY DEF QSInv
<1>3. /\ row.version = 0 => InsertedRow(r).version = row.version + 1
      /\ UpdatedRow(row, r).version = row.version + 1
      /\ FlaggedRow(row, call[r].op).version = row.version + 1
      /\ DeletedRow(row).version = row.version + 1
  BY <1>1 DEF Row, InsertedRow, UpdatedRow, FlaggedRow, DeletedRow
<1> HIDE DEF row
<1>4. /\ InsertedRow(r) \in Row
      /\ UpdatedRow(row, r) \in Row
      /\ FlaggedRow(row, call[r].op) \in Row
      /\ DeletedRow(row) \in Row
  BY <1>1, <1>2, RowTypes
<1> QED
  BY <1>1, <1>3, <1>4 DEF row

LEMMA StepInv == QSInv /\ [Next]_vars => QSInv'
<1> SUFFICES ASSUME QSInv, [Next]_vars PROVE QSInv'
  OBVIOUS
<1>1. ASSUME NEW r \in Reqs, DuplicateSource(r) PROVE QSInv'
  <2>1. TypeOK'
    BY <1>1 DEF QSInv, TypeOK, DuplicateSource, Goto, Answer, Steps, Replies
  <2>2. StepFits'
    BY <1>1 DEF QSInv, TypeOK, StepFits, DuplicateSource, Goto, Answer
  <2>3. Unwritten'
    BY <1>1 DEF QSInv, TypeOK, Unwritten, DuplicateSource, Goto, Answer
  <2>4. RowsAreKept'
    BY <1>1 DEF QSInv, TypeOK, RowsAreKept, Row, DuplicateSource, Goto, Answer
  <2>5. VersionChecked'
    BY <1>1 DEF QSInv, TypeOK, StepFits, Unwritten, VersionChecked, Row, DuplicateSource, Goto, Answer
  <2>6. EffectDone'
    BY <1>1 DEF QSInv, TypeOK, StepFits, Unwritten, EffectDone, FlagOps, Successes, Row, DuplicateSource, Goto, Answer
  <2>7. WritesGetDistinctVersions'
    BY <1>1 DEF QSInv, TypeOK, Unwritten, WritesGetDistinctVersions, Row, DuplicateSource, Goto, Answer
  <2> QED
    BY <2>1, <2>2, <2>3, <2>4, <2>5, <2>6, <2>7 DEF QSInv
<1>2. ASSUME NEW r \in Reqs, CreateCheck(r) PROVE QSInv'
  <2>1. TypeOK'
    BY <1>2 DEF QSInv, TypeOK, CreateCheck, Goto, Answer, Steps, Replies
  <2>2. StepFits'
    BY <1>2 DEF QSInv, TypeOK, StepFits, CreateCheck, Goto, Answer
  <2>3. Unwritten'
    BY <1>2 DEF QSInv, TypeOK, Unwritten, CreateCheck, Goto, Answer
  <2>4. RowsAreKept'
    BY <1>2 DEF QSInv, TypeOK, RowsAreKept, Row, CreateCheck, Goto, Answer
  <2>5. VersionChecked'
    BY <1>2 DEF QSInv, TypeOK, StepFits, Unwritten, VersionChecked, Row, CreateCheck, Goto, Answer
  <2>6. EffectDone'
    BY <1>2 DEF QSInv, TypeOK, StepFits, Unwritten, EffectDone, FlagOps, Successes, Row, CreateCheck, Goto, Answer
  <2>7. WritesGetDistinctVersions'
    BY <1>2 DEF QSInv, TypeOK, Unwritten, WritesGetDistinctVersions, Row, CreateCheck, Goto, Answer
  <2> QED
    BY <2>1, <2>2, <2>3, <2>4, <2>5, <2>6, <2>7 DEF QSInv
<1>3. ASSUME NEW r \in Reqs, CreateInsert(r) PROVE QSInv'
  <2> DEFINE row == InsertedRow(r)
  <2>1. ASSUME ~InsertClashes(rows[call[r].id]) PROVE QSInv'
    <3>1. /\ Put(r, row) /\ Goto(r, "created") /\ UNCHANGED <<call, seen, reply, audit>>
          /\ pc[r] = "insert" /\ row \in Row /\ row.version = rows[call[r].id].version + 1
      BY <1>3, <2>1, NextVersion DEF CreateInsert, InsertClashes, Row
    <3> HIDE DEF row
    <3>2. /\ wrote'[r] = row.version
          /\ row.version > 0
          /\ \A s \in Reqs : s # r => wrote'[s] = wrote[s]
          /\ TypeOK'
          /\ RowsAreKept'
          /\ WritesGetDistinctVersions'
      BY <3>1, PutLemma
    <3>3. StepFits'
      BY <3>1 DEF QSInv, TypeOK, StepFits, Goto
    <3>4. Unwritten'
      BY <3>1, <3>2 DEF QSInv, TypeOK, Unwritten, Goto
    <3>5. VersionChecked'
      BY <2>1, <3>1, <3>2 DEF QSInv, TypeOK, StepFits, VersionChecked, Goto, FlagOps
    <3>6. EffectDone'
      BY <3>1, <3>2 DEF QSInv, TypeOK, StepFits, Unwritten, EffectDone, FlagOps, Successes, Goto
    <3> QED
      BY <3>2, <3>3, <3>4, <3>5, <3>6 DEF QSInv
  <2>2. ASSUME ~(~InsertClashes(rows[call[r].id])) PROVE QSInv'
    <3>1. TypeOK'
      BY <1>3, <2>2 DEF QSInv, TypeOK, CreateInsert, Goto, Answer, InsertClashes, Steps, Replies
    <3>2. StepFits' /\ Unwritten' /\ VersionChecked'
      BY <1>3, <2>2 DEF QSInv, TypeOK, StepFits, Unwritten, VersionChecked, CreateInsert, Goto, Answer, InsertClashes
    <3>3. RowsAreKept'
      BY <1>3, <2>2 DEF QSInv, TypeOK, RowsAreKept, CreateInsert, Goto, Answer, InsertClashes
    <3>4. EffectDone'
      BY <1>3, <2>2 DEF QSInv, TypeOK, StepFits, EffectDone, FlagOps, Unwritten, Successes, CreateInsert, Goto, Answer, InsertClashes
    <3>5. WritesGetDistinctVersions'
      BY <1>3, <2>2 DEF QSInv, TypeOK, WritesGetDistinctVersions, CreateInsert, Goto, Answer, InsertClashes
    <3> QED
      BY <3>1, <3>2, <3>3, <3>4, <3>5 DEF QSInv
  <2> QED
    BY <2>1, <2>2
<1>4. ASSUME NEW r \in Reqs, CreateReadBack(r) PROVE QSInv'
  <2>1. TypeOK'
    BY <1>4 DEF QSInv, TypeOK, CreateReadBack, Goto, Answer, Succeed, Steps, Replies
  <2>2. StepFits'
    BY <1>4 DEF QSInv, TypeOK, StepFits, CreateReadBack, Goto, Answer, Succeed
  <2>3. Unwritten'
    BY <1>4 DEF QSInv, TypeOK, Unwritten, CreateReadBack, Goto, Answer, Succeed
  <2>4. RowsAreKept'
    BY <1>4 DEF QSInv, TypeOK, RowsAreKept, Row, CreateReadBack, Goto, Answer, Succeed
  <2>5. VersionChecked'
    BY <1>4 DEF QSInv, TypeOK, StepFits, Unwritten, VersionChecked, Row, CreateReadBack, Goto, Answer, Succeed
  <2>6. EffectDone'
    BY <1>4 DEF QSInv, TypeOK, StepFits, Unwritten, EffectDone, FlagOps, Successes, Row, CreateReadBack, Goto, Answer, Succeed
  <2>7. WritesGetDistinctVersions'
    BY <1>4 DEF QSInv, TypeOK, Unwritten, WritesGetDistinctVersions, Row, CreateReadBack, Goto, Answer, Succeed
  <2> QED
    BY <2>1, <2>2, <2>3, <2>4, <2>5, <2>6, <2>7 DEF QSInv
<1>5. ASSUME NEW r \in Reqs, Load(r) PROVE QSInv'
  <2> DEFINE row == rows[call[r].id]
  <2>1. row \in Row /\ row.version \in Nat /\ call[r].op \in Ops /\ call[r].id \in Ids
    BY DEF QSInv, TypeOK, Calls, Row
  <2>2. ASSUME Live(row), call[r].expected \in {0, row.version} PROVE QSInv'
    <3>1. /\ pc[r] = "load" /\ pc' = [pc EXCEPT ![r] = WriteStep(call[r].op)]
          /\ seen' = [seen EXCEPT ![r] = row.version]
          /\ UNCHANGED <<rows, call, wrote, reply, audit>>
      BY <1>5, <2>2 DEF Load, Goto
    <3>2. /\ WriteStep(call[r].op) \in {"update", "flag", "delete"}
          /\ WriteStep(call[r].op) = "update" <=> call[r].op = "update"
          /\ WriteStep(call[r].op) = "delete" <=> call[r].op = "delete"
      BY <2>1 DEF WriteStep
    <3>3. call[r].op \in FlagOps \cup {"update", "delete"}
      BY <2>1, <3>1 DEF QSInv, StepFits, Ops, FlagOps
    <3>4. row.version > 0 /\ ~row.deleted
      BY <2>2 DEF Live
    <3> HIDE DEF row
    <3>5. TypeOK'
      BY <2>1, <3>1, <3>2 DEF QSInv, TypeOK, Steps
    <3>6. StepFits'
      BY <3>1, <3>2, <3>3 DEF QSInv, TypeOK, StepFits, FlagOps
    <3>7. Unwritten'
      BY <3>1, <3>2 DEF QSInv, TypeOK, Unwritten
    <3>8. RowsAreKept'
      BY <2>1, <3>1, <3>2, <3>4 DEF QSInv, TypeOK, RowsAreKept, row
    <3>9. VersionChecked'
      BY <2>2, <3>1, <3>2 DEF QSInv, TypeOK, VersionChecked, Unwritten
    <3>10. EffectDone'
      BY <3>1, <3>2 DEF QSInv, TypeOK, EffectDone, Unwritten
    <3>11. WritesGetDistinctVersions'
      BY <3>1 DEF QSInv, TypeOK, WritesGetDistinctVersions
    <3> QED
      BY <3>5, <3>6, <3>7, <3>8, <3>9, <3>10, <3>11 DEF QSInv
  <2>3. ASSUME ~(Live(row) /\ call[r].expected \in {0, row.version}) PROVE QSInv'
    <3>1. PICK outcome \in {"not_found", "conflict"} :
            /\ pc[r] = "load" /\ Answer(r, outcome)
            /\ UNCHANGED <<rows, call, seen, wrote, audit>>
      BY <1>5, <2>3 DEF Load
    <3>2. TypeOK'
      BY <3>1 DEF QSInv, TypeOK, Answer, Goto, Steps, Replies
    <3>3. StepFits' /\ Unwritten' /\ VersionChecked'
      BY <3>1 DEF QSInv, TypeOK, StepFits, Unwritten, VersionChecked, Answer, Goto
    <3>4. RowsAreKept' /\ WritesGetDistinctVersions'
      BY <3>1 DEF QSInv, TypeOK, RowsAreKept, WritesGetDistinctVersions, Answer, Goto
    <3>5. EffectDone'
      BY <3>1 DEF QSInv, TypeOK, EffectDone, Unwritten, Successes, Answer, Goto
    <3> QED
      BY <3>2, <3>3, <3>4, <3>5 DEF QSInv
  <2> QED
    BY <2>2, <2>3
<1>6. ASSUME NEW r \in Reqs, UpdateWrite(r) PROVE QSInv'
  <2> DEFINE row == UpdatedRow(rows[call[r].id], r)
  <2>1. ASSUME UpdateMatches(rows[call[r].id], seen[r]) PROVE QSInv'
    <3>1. /\ Put(r, row) /\ Goto(r, "updated") /\ UNCHANGED <<call, seen, reply, audit>>
          /\ pc[r] = "update" /\ row \in Row /\ row.version = rows[call[r].id].version + 1
      BY <1>6, <2>1, NextVersion DEF UpdateWrite
    <3> HIDE DEF row
    <3>2. /\ wrote'[r] = row.version
          /\ row.version > 0
          /\ \A s \in Reqs : s # r => wrote'[s] = wrote[s]
          /\ TypeOK'
          /\ RowsAreKept'
          /\ WritesGetDistinctVersions'
      BY <3>1, PutLemma
    <3>3. StepFits'
      BY <3>1 DEF QSInv, TypeOK, StepFits, Goto
    <3>4. Unwritten'
      BY <3>1, <3>2 DEF QSInv, TypeOK, Unwritten, Goto
    <3>5. VersionChecked'
      BY <2>1, <3>1, <3>2 DEF QSInv, TypeOK, StepFits, VersionChecked, Goto, FlagOps, UpdateMatches
    <3>6. EffectDone'
      BY <3>1, <3>2 DEF QSInv, TypeOK, StepFits, Unwritten, EffectDone, FlagOps, Successes, Goto
    <3> QED
      BY <3>2, <3>3, <3>4, <3>5, <3>6 DEF QSInv
  <2>2. ASSUME ~(UpdateMatches(rows[call[r].id], seen[r])) PROVE QSInv'
    <3>1. TypeOK'
      BY <1>6, <2>2 DEF QSInv, TypeOK, UpdateWrite, Goto, Steps, Replies
    <3>2. StepFits' /\ Unwritten' /\ VersionChecked'
      BY <1>6, <2>2 DEF QSInv, TypeOK, StepFits, Unwritten, VersionChecked, UpdateWrite, Goto
    <3>3. RowsAreKept'
      BY <1>6, <2>2 DEF QSInv, TypeOK, RowsAreKept, UpdateWrite, Goto
    <3>4. EffectDone'
      BY <1>6, <2>2 DEF QSInv, TypeOK, StepFits, EffectDone, FlagOps, Unwritten, Successes, UpdateWrite, Goto
    <3>5. WritesGetDistinctVersions'
      BY <1>6, <2>2 DEF QSInv, TypeOK, WritesGetDistinctVersions, UpdateWrite, Goto
    <3> QED
      BY <3>1, <3>2, <3>3, <3>4, <3>5 DEF QSInv
  <2> QED
    BY <2>1, <2>2
<1>7. ASSUME NEW r \in Reqs, UpdateReadBack(r) PROVE QSInv'
  <2>1. TypeOK'
    BY <1>7 DEF QSInv, TypeOK, UpdateReadBack, Goto, Succeed, Steps, Replies
  <2>2. StepFits'
    BY <1>7 DEF QSInv, TypeOK, StepFits, UpdateReadBack, Goto, Succeed
  <2>3. Unwritten'
    BY <1>7 DEF QSInv, TypeOK, Unwritten, UpdateReadBack, Goto, Succeed
  <2>4. RowsAreKept'
    BY <1>7 DEF QSInv, TypeOK, RowsAreKept, Row, UpdateReadBack, Goto, Succeed
  <2>5. VersionChecked'
    BY <1>7 DEF QSInv, TypeOK, StepFits, Unwritten, VersionChecked, Row, UpdateReadBack, Goto, Succeed
  <2>6. EffectDone'
    BY <1>7 DEF QSInv, TypeOK, StepFits, Unwritten, EffectDone, FlagOps, Successes, Row, UpdateReadBack, Goto, Succeed
  <2>7. WritesGetDistinctVersions'
    BY <1>7 DEF QSInv, TypeOK, Unwritten, WritesGetDistinctVersions, Row, UpdateReadBack, Goto, Succeed
  <2> QED
    BY <2>1, <2>2, <2>3, <2>4, <2>5, <2>6, <2>7 DEF QSInv
<1>8. ASSUME NEW r \in Reqs, UpdateReload(r) PROVE QSInv'
  <2>1. TypeOK'
    BY <1>8 DEF QSInv, TypeOK, UpdateReload, Goto, Answer, Steps, Replies
  <2>2. StepFits'
    BY <1>8 DEF QSInv, TypeOK, StepFits, UpdateReload, Goto, Answer
  <2>3. Unwritten'
    BY <1>8 DEF QSInv, TypeOK, Unwritten, UpdateReload, Goto, Answer
  <2>4. RowsAreKept'
    BY <1>8 DEF QSInv, TypeOK, RowsAreKept, Row, UpdateReload, Goto, Answer
  <2>5. VersionChecked'
    BY <1>8 DEF QSInv, TypeOK, StepFits, Unwritten, VersionChecked, Row, UpdateReload, Goto, Answer
  <2>6. EffectDone'
    BY <1>8 DEF QSInv, TypeOK, StepFits, Unwritten, EffectDone, FlagOps, Successes, Row, UpdateReload, Goto, Answer
  <2>7. WritesGetDistinctVersions'
    BY <1>8 DEF QSInv, TypeOK, Unwritten, WritesGetDistinctVersions, Row, UpdateReload, Goto, Answer
  <2> QED
    BY <2>1, <2>2, <2>3, <2>4, <2>5, <2>6, <2>7 DEF QSInv
<1>9. ASSUME NEW r \in Reqs, FlagWrite(r) PROVE QSInv'
  <2> DEFINE row == FlaggedRow(rows[call[r].id], call[r].op)
  <2>1. /\ Put(r, row) /\ Goto(r, "flagged") /\ UNCHANGED <<call, seen, reply, audit>>
        /\ pc[r] = "flag" /\ row \in Row /\ row.version = rows[call[r].id].version + 1
    BY <1>9, NextVersion DEF FlagWrite
  <2> HIDE DEF row
  <2>2. /\ wrote'[r] = row.version
        /\ row.version > 0
        /\ \A s \in Reqs : s # r => wrote'[s] = wrote[s]
        /\ TypeOK'
        /\ RowsAreKept'
        /\ WritesGetDistinctVersions'
    BY <2>1, PutLemma
  <2>3. StepFits'
    BY <2>1 DEF QSInv, TypeOK, StepFits, Goto
  <2>4. Unwritten'
    BY <2>1, <2>2 DEF QSInv, TypeOK, Unwritten, Goto
  <2>5. VersionChecked'
    BY <2>1, <2>2 DEF QSInv, TypeOK, StepFits, VersionChecked, Goto, FlagOps
  <2>6. EffectDone'
    BY <2>1, <2>2 DEF QSInv, TypeOK, StepFits, Unwritten, EffectDone, FlagOps, Successes, Goto
  <2> QED
    BY <2>2, <2>3, <2>4, <2>5, <2>6 DEF QSInv
<1>10. ASSUME NEW r \in Reqs, FlagReadBack(r) PROVE QSInv'
  <2>1. TypeOK'
    BY <1>10 DEF QSInv, TypeOK, FlagReadBack, Goto, Answer, Succeed, Steps, Replies
  <2>2. StepFits'
    BY <1>10 DEF QSInv, TypeOK, StepFits, FlagReadBack, Goto, Answer, Succeed
  <2>3. Unwritten'
    BY <1>10 DEF QSInv, TypeOK, Unwritten, FlagReadBack, Goto, Answer, Succeed
  <2>4. RowsAreKept'
    BY <1>10 DEF QSInv, TypeOK, RowsAreKept, Row, FlagReadBack, Goto, Answer, Succeed
  <2>5. VersionChecked'
    BY <1>10 DEF QSInv, TypeOK, StepFits, Unwritten, VersionChecked, Row, FlagReadBack, Goto, Answer, Succeed
  <2>6. EffectDone'
    BY <1>10 DEF QSInv, TypeOK, StepFits, Unwritten, EffectDone, FlagOps, Successes, Row, FlagReadBack, Goto, Answer, Succeed
  <2>7. WritesGetDistinctVersions'
    BY <1>10 DEF QSInv, TypeOK, Unwritten, WritesGetDistinctVersions, Row, FlagReadBack, Goto, Answer, Succeed
  <2> QED
    BY <2>1, <2>2, <2>3, <2>4, <2>5, <2>6, <2>7 DEF QSInv
<1>11. ASSUME NEW r \in Reqs, DeleteWrite(r) PROVE QSInv'
  <2> DEFINE row == DeletedRow(rows[call[r].id])
  <2>1. ASSUME Live(rows[call[r].id]) PROVE QSInv'
    <3>1. /\ Put(r, row) /\ Goto(r, "deleted") /\ UNCHANGED <<call, seen, reply, audit>>
          /\ pc[r] = "delete" /\ row \in Row /\ row.version = rows[call[r].id].version + 1
      BY <1>11, <2>1, NextVersion DEF DeleteWrite
    <3> HIDE DEF row
    <3>2. /\ wrote'[r] = row.version
          /\ row.version > 0
          /\ \A s \in Reqs : s # r => wrote'[s] = wrote[s]
          /\ TypeOK'
          /\ RowsAreKept'
          /\ WritesGetDistinctVersions'
      BY <3>1, PutLemma
    <3>3. StepFits'
      BY <3>1 DEF QSInv, TypeOK, StepFits, Goto
    <3>4. Unwritten'
      BY <3>1, <3>2 DEF QSInv, TypeOK, Unwritten, Goto
    <3>5. VersionChecked'
      BY <2>1, <3>1, <3>2 DEF QSInv, TypeOK, StepFits, VersionChecked, Goto, FlagOps
    <3>6. EffectDone'
      BY <3>1, <3>2 DEF QSInv, TypeOK, StepFits, Unwritten, EffectDone, FlagOps, Successes, Goto
    <3> QED
      BY <3>2, <3>3, <3>4, <3>5, <3>6 DEF QSInv
  <2>2. ASSUME ~(Live(rows[call[r].id])) PROVE QSInv'
    <3>1. TypeOK'
      BY <1>11, <2>2 DEF QSInv, TypeOK, DeleteWrite, Goto, Steps, Replies
    <3>2. StepFits' /\ Unwritten' /\ VersionChecked'
      BY <1>11, <2>2 DEF QSInv, TypeOK, StepFits, Unwritten, VersionChecked, DeleteWrite, Goto
    <3>3. RowsAreKept'
      BY <1>11, <2>2 DEF QSInv, TypeOK, RowsAreKept, DeleteWrite, Goto
    <3>4. EffectDone'
      BY <1>11, <2>2 DEF QSInv, TypeOK, StepFits, EffectDone, FlagOps, Unwritten, Successes, DeleteWrite, Goto
    <3>5. WritesGetDistinctVersions'
      BY <1>11, <2>2 DEF QSInv, TypeOK, WritesGetDistinctVersions, DeleteWrite, Goto
    <3> QED
      BY <3>1, <3>2, <3>3, <3>4, <3>5 DEF QSInv
  <2> QED
    BY <2>1, <2>2
<1>12. ASSUME NEW r \in Reqs, DeleteReadBack(r) PROVE QSInv'
  <2>1. TypeOK'
    BY <1>12 DEF QSInv, TypeOK, DeleteReadBack, Goto, Answer, Succeed, Steps, Replies
  <2>2. StepFits'
    BY <1>12 DEF QSInv, TypeOK, StepFits, DeleteReadBack, Goto, Answer, Succeed
  <2>3. Unwritten'
    BY <1>12 DEF QSInv, TypeOK, Unwritten, DeleteReadBack, Goto, Answer, Succeed
  <2>4. RowsAreKept'
    BY <1>12 DEF QSInv, TypeOK, RowsAreKept, Row, DeleteReadBack, Goto, Answer, Succeed
  <2>5. VersionChecked'
    BY <1>12 DEF QSInv, TypeOK, StepFits, Unwritten, VersionChecked, Row, DeleteReadBack, Goto, Answer, Succeed
  <2>6. EffectDone'
    BY <1>12 DEF QSInv, TypeOK, StepFits, Unwritten, EffectDone, FlagOps, Successes, Row, DeleteReadBack, Goto, Answer, Succeed
  <2>7. WritesGetDistinctVersions'
    BY <1>12 DEF QSInv, TypeOK, Unwritten, WritesGetDistinctVersions, Row, DeleteReadBack, Goto, Answer, Succeed
  <2> QED
    BY <2>1, <2>2, <2>3, <2>4, <2>5, <2>6, <2>7 DEF QSInv
<1>13. ASSUME NEW r \in Reqs, RecordAudit(r) PROVE QSInv'
  <2>a. /\ call[r] \in Calls
        /\ ActionName(call[r].op) \in AuditActions
        /\ AuditedId(call[r]) \in Ids
    BY DEF QSInv, TypeOK, Calls, ActionName, AuditActions, AuditedId
  <2>b. PICK a \in [req : {r}, action : AuditActions, id : {AuditedId(call[r])}] :
          audit' = audit \cup {a}
    BY <1>13, <2>a DEF RecordAudit
  <2>c. call[r].op \in {"create", "duplicate"} \cup FlagOps => a.id = call[r].id
    BY <2>b DEF QSInv, StepFits, AuditedId, FlagOps
  <2>1. TypeOK'
    BY <1>13, <2>a, <2>b DEF QSInv, TypeOK, RecordAudit, Goto, Steps, Replies
  <2>2. StepFits'
    BY <1>13 DEF QSInv, TypeOK, StepFits, RecordAudit, Goto
  <2>3. Unwritten'
    BY <1>13, <2>b DEF QSInv, TypeOK, Unwritten, RecordAudit, Goto
  <2>4. RowsAreKept'
    BY <1>13 DEF QSInv, TypeOK, RowsAreKept, Row, RecordAudit, Goto
  <2>5. VersionChecked'
    BY <1>13 DEF QSInv, TypeOK, StepFits, Unwritten, VersionChecked, Row, RecordAudit, Goto
  <2>6. EffectDone'
    BY <1>13, <2>b, <2>c DEF QSInv, TypeOK, Unwritten, EffectDone, RecordAudit, Goto
  <2>7. WritesGetDistinctVersions'
    BY <1>13 DEF QSInv, TypeOK, Unwritten, WritesGetDistinctVersions, Row, RecordAudit, Goto
  <2> QED
    BY <2>1, <2>2, <2>3, <2>4, <2>5, <2>6, <2>7 DEF QSInv
<1>14. ASSUME NEW r \in Reqs, Fail(r) PROVE QSInv'
  <2>1. TypeOK'
    BY <1>14 DEF QSInv, TypeOK, Fail, Goto, Answer, Steps, Replies
  <2>2. StepFits'
    BY <1>14 DEF QSInv, TypeOK, StepFits, Fail, Goto, Answer
  <2>3. Unwritten'
    BY <1>14 DEF QSInv, TypeOK, Unwritten, Fail, Goto, Answer
  <2>4. RowsAreKept'
    BY <1>14 DEF QSInv, TypeOK, RowsAreKept, Row, Fail, Goto, Answer
  <2>5. VersionChecked'
    BY <1>14 DEF QSInv, TypeOK, StepFits, Unwritten, VersionChecked, Row, Fail, Goto, Answer
  <2>6. EffectDone'
    BY <1>14 DEF QSInv, TypeOK, StepFits, Unwritten, EffectDone, FlagOps, Successes, Row, Fail, Goto, Answer
  <2>7. WritesGetDistinctVersions'
    BY <1>14 DEF QSInv, TypeOK, Unwritten, WritesGetDistinctVersions, Row, Fail, Goto, Answer
  <2> QED
    BY <2>1, <2>2, <2>3, <2>4, <2>5, <2>6, <2>7 DEF QSInv
<1>15. ASSUME NEW r \in Reqs, Arrive(r) PROVE QSInv'
  <2>1. PICK i \in Ids :
          \E c \in [op : Ops, path : Ids, id : {i}, expected : 0..rows[i].version,
                  enabled : BOOLEAN, published : BOOLEAN] :
            /\ c.op \notin {"update", "duplicate"} => c.path = c.id
            /\ call' = [call EXCEPT ![r] = c]
            /\ pc' = [pc EXCEPT ![r] = FirstStep(c.op)]
    BY <1>15 DEF Arrive, Goto
  <2>2. PICK c \in [op : Ops, path : Ids, id : {i}, expected : 0..rows[i].version,
                  enabled : BOOLEAN, published : BOOLEAN] :
            /\ c.op \notin {"update", "duplicate"} => c.path = c.id
            /\ call' = [call EXCEPT ![r] = c]
            /\ pc' = [pc EXCEPT ![r] = FirstStep(c.op)]
    BY <2>1
  <2>3. pc[r] = "idle" /\ UNCHANGED <<rows, seen, wrote, reply, audit>>
    BY <1>15 DEF Arrive
  <2>4. c \in Calls
    BY DEF Calls
  <2>5. /\ FirstStep(c.op) \in {"source", "check", "load"}
        /\ FirstStep(c.op) = "source" => c.op = "duplicate"
        /\ FirstStep(c.op) = "check" => c.op = "create"
        /\ FirstStep(c.op) = "load" => c.op \notin {"create", "duplicate"}
    BY DEF FirstStep
  <2>6. wrote[r] = 0 /\ reply[r] = "none" /\ \A a \in audit : a.req # r
    BY <2>3 DEF QSInv, Unwritten
  <2>7. TypeOK'
    BY <2>2, <2>3, <2>4, <2>5 DEF QSInv, TypeOK, Steps
  <2>8. StepFits'
    BY <2>2, <2>3, <2>5 DEF QSInv, TypeOK, StepFits
  <2>9. Unwritten'
    BY <2>2, <2>3, <2>5, <2>6 DEF QSInv, TypeOK, Unwritten
  <2>10. RowsAreKept'
    BY <2>2, <2>3, <2>5 DEF QSInv, TypeOK, RowsAreKept
  <2>11. VersionChecked'
    BY <2>2, <2>3, <2>5, <2>6 DEF QSInv, TypeOK, VersionChecked
  <2>12. EffectDone'
    BY <2>2, <2>3, <2>5, <2>6 DEF QSInv, TypeOK, EffectDone
  <2>13. WritesGetDistinctVersions'
    BY <2>2, <2>3, <2>6 DEF QSInv, TypeOK, WritesGetDistinctVersions
  <2> QED
    BY <2>7, <2>8, <2>9, <2>10, <2>11, <2>12, <2>13 DEF QSInv
<1>16. CASE UNCHANGED vars
  BY <1>16 DEF vars, QSInv, TypeOK, StepFits, Unwritten, RowsAreKept, VersionChecked,
               EffectDone, WritesGetDistinctVersions
<1> QED
  BY <1>1, <1>2, <1>3, <1>4, <1>5, <1>6, <1>7, <1>8, <1>9, <1>10, <1>11, <1>12, <1>13,
     <1>14, <1>15, <1>16 DEF Next, Create, Update, Flag, Delete

\* The state predicates of QSInv hold in every reachable state.
THEOREM Invariance == Spec => []QSInv
  BY InitInv, StepInv, PTL DEF Spec

-----------------------------------------------------------------------------
\* Every variable of the question store keeps its type.
THEOREM TypeCorrect == Spec => []TypeOK
<1>1. QSInv => TypeOK
  BY DEF QSInv
<1> QED
  BY Invariance, <1>1, PTL

\* However PUT, flag and DELETE statements interleave, no two of them produce
\* the same version of a row: an increment is never lost.
THEOREM DistinctVersions == Spec => []WritesGetDistinctVersions
<1>1. QSInv => WritesGetDistinctVersions
  BY DEF QSInv
<1> QED
  BY Invariance, <1>1, PTL

\* A PUT that sent a version overwrites that version or nothing.
THEOREM OptimisticConcurrency == Spec => []NoStaleOverwrite
<1>1. QSInv => NoStaleOverwrite
  BY DEF QSInv, VersionChecked, NoStaleOverwrite
<1> QED
  BY Invariance, <1>1, PTL

\* A version names one state of its row, to those who write and to those who
\* send it back.
THEOREM VersionNaming == Spec => []VersionsNameStates
<1>1. WritesGetDistinctVersions /\ NoStaleOverwrite => VersionsNameStates
  BY DEF VersionsNameStates
<1> QED BY <1>1, DistinctVersions, OptimisticConcurrency, PTL

\* A create, duplicate or flag change that is acknowledged or audited happened.
THEOREM Acknowledgement == Spec => []AcknowledgedTookEffect
<1>1. QSInv => AcknowledgedTookEffect
  BY DEF QSInv, EffectDone, AcknowledgedTookEffect
<1> QED
  BY Invariance, <1>1, PTL

-----------------------------------------------------------------------------
\* A step that changes the table writes one row, in one of four ways.
LEMMA RowStep ==
  ASSUME QSInv, [Next]_vars, rows' # rows
  PROVE  \E r \in Reqs : LET i == call[r].id
                             row == rows[i] IN
           \/ /\ row.version = 0 /\ ~row.deleted
              /\ rows' = [rows EXCEPT ![i] = InsertedRow(r)]
           \/ /\ row.version > 0 /\ ~row.deleted
              /\ rows' = [rows EXCEPT ![i] = UpdatedRow(row, r)]
           \/ /\ row.version > 0
              /\ rows' = [rows EXCEPT ![i] = FlaggedRow(row, call[r].op)]
           \/ /\ row.version > 0 /\ ~row.deleted
              /\ rows' = [rows EXCEPT ![i] = DeletedRow(row)]
<1>1. PICK r \in Reqs : CreateInsert(r) \/ UpdateWrite(r) \/ FlagWrite(r) \/ DeleteWrite(r)
  BY Zenon DEF Next, vars, Create, Update, Flag, Delete, Arrive, Load, DuplicateSource, CreateCheck,
     CreateReadBack, UpdateReadBack, UpdateReload, FlagReadBack, DeleteReadBack, RecordAudit, Fail
<1> DEFINE i == call[r].id
           row == rows[i]
<1>2. i \in Ids /\ row \in Row /\ row.version \in Nat /\ seen[r] \in Nat
  BY DEF QSInv, TypeOK, Calls, Row
<1>3. CASE CreateInsert(r)
  <2>1. row.version = 0 /\ rows' = [rows EXCEPT ![i] = InsertedRow(r)]
    BY <1>2, <1>3 DEF CreateInsert, InsertClashes, Put
  <2>2. ~row.deleted
    BY <1>2, <2>1 DEF QSInv, RowsAreKept
  <2> QED
    BY <2>1, <2>2
<1>4. CASE UpdateWrite(r)
  <2>1. /\ row.version > 0 /\ row.version = seen[r] /\ pc[r] = "update"
        /\ rows' = [rows EXCEPT ![i] = UpdatedRow(row, r)]
    BY <1>4 DEF UpdateWrite, UpdateMatches, Put
  <2>2. ~row.deleted
    BY <2>1 DEF QSInv, RowsAreKept
  <2> QED
    BY <2>1, <2>2
<1>5. CASE FlagWrite(r)
  <2>1. pc[r] = "flag" /\ rows' = [rows EXCEPT ![i] = FlaggedRow(row, call[r].op)]
    BY <1>5 DEF FlagWrite, Put
  <2>2. row.version > 0
    BY <1>2, <2>1 DEF QSInv, RowsAreKept
  <2> QED
    BY <2>1, <2>2
<1>6. CASE DeleteWrite(r)
  BY <1>6 DEF DeleteWrite, Live, Put
<1> QED
  BY <1>1, <1>3, <1>4, <1>5, <1>6

\* A soft-deleted row stays deleted, stays out of the public catalogue and
\* keeps its content.
THEOREM DeleteFinality == Spec => DeleteIsFinal
<1> DEFINE Final == \A i \in Ids : rows[i].deleted =>
              rows'[i].deleted /\ ~Public(rows'[i]) /\ rows'[i].body = rows[i].body
<1>1. ASSUME QSInv, [Next]_vars PROVE [Final]_rows
  <2> SUFFICES ASSUME rows' # rows, NEW i \in Ids, rows[i].deleted
               PROVE  rows'[i].deleted /\ ~Public(rows'[i]) /\ rows'[i].body = rows[i].body
    OBVIOUS
  <2>1. PICK r \in Reqs : LET j == call[r].id
                              row == rows[j] IN
           \/ ~row.deleted /\ \E new : rows' = [rows EXCEPT ![j] = new]
           \/ rows' = [rows EXCEPT ![j] = FlaggedRow(row, call[r].op)]
    BY <1>1, RowStep, Zenon
  <2>2. call[r].id \in Ids /\ \A j \in Ids : rows[j] \in Row
    BY <1>1 DEF QSInv, TypeOK, Calls
  <2>3. rows \in [Ids -> Row]
    BY <1>1 DEF QSInv, TypeOK
  <2>4. CASE i # call[r].id
    <3>1. rows'[i] = rows[i]
      BY <2>1, <2>3, <2>4
    <3> QED
      BY <3>1 DEF Public, Live
  <2>5. CASE i = call[r].id
    <3>1. rows'[i] = FlaggedRow(rows[i], call[r].op)
      BY <2>1, <2>3, <2>5
    <3>2. rows'[i].deleted /\ rows'[i].body = rows[i].body
      BY <2>2, <3>1 DEF FlaggedRow, Row
    <3> QED
      BY <3>2 DEF Public, Live
  <2> QED
    BY <2>4, <2>5
<1>2. QSInv /\ [Next]_vars => [Final]_rows
  BY <1>1
<1> QED
  BY Invariance, <1>2, PTL DEF Spec, DeleteIsFinal

-----------------------------------------------------------------------------
\* The question store implements the versioned catalogue.
LEMMA RefinesInit == Init => Catalog!CatalogInit
<1> SUFFICES ASSUME Init PROVE Catalog!CatalogInit
  OBVIOUS
<1>1. ASSUME NEW row \in SeedRows
      PROVE  row \in {x \in Catalog!RowsAt({0, 1}) : ~x.deleted}
  <2>1. CASE row = NoRow
    BY <2>1 DEF NoRow, Catalog!RowsAt, Bodies
  <2>2. CASE row # NoRow
    <3>1. PICK d \in Drafts : row = [version |-> 1, enabled |-> d.enabled,
            published |-> d.published, deleted |-> FALSE, body |-> Seed]
      BY <2>2, Zenon DEF SeedRows
    <3>2. d.enabled \in BOOLEAN /\ d.published \in BOOLEAN
      BY DraftsAssumption
    <3> QED
      BY <3>1, <3>2 DEF Catalog!RowsAt, Bodies
  <2> QED
    BY <2>1, <2>2
<1> QED
  BY <1>1 DEF Init, Catalog!CatalogInit

LEMMA RefinesStep == QSInv /\ [Next]_vars => [Catalog!CatalogNext]_rows
<1> SUFFICES ASSUME QSInv, [Next]_vars, rows' # rows PROVE Catalog!CatalogNext
  OBVIOUS
<1>1. PICK r \in Reqs : LET i == call[r].id
                            row == rows[i] IN
           \/ /\ row.version = 0 /\ ~row.deleted
              /\ rows' = [rows EXCEPT ![i] = InsertedRow(r)]
           \/ /\ row.version > 0 /\ ~row.deleted
              /\ rows' = [rows EXCEPT ![i] = UpdatedRow(row, r)]
           \/ /\ row.version > 0
              /\ rows' = [rows EXCEPT ![i] = FlaggedRow(row, call[r].op)]
           \/ /\ row.version > 0 /\ ~row.deleted
              /\ rows' = [rows EXCEPT ![i] = DeletedRow(row)]
  BY RowStep, Zenon
<1> DEFINE i == call[r].id
           row == rows[i]
<1>2. i \in Ids /\ row \in Row
  BY DEF QSInv, TypeOK, Calls
<1>3. CASE row.version = 0 /\ rows' = [rows EXCEPT ![i] = InsertedRow(r)]
  <2>1. InsertedRow(r) \in Catalog!RowsAt({1}) /\ ~InsertedRow(r).deleted
    <3>1. InsertedRow(r) \in Row
      BY NextVersion
    <3> QED
      BY <3>1 DEF InsertedRow, Row, Catalog!RowsAt
  <2>2. Catalog!Insert(i)
    BY <1>3, <2>1 DEF Catalog!Insert
  <2> QED
    BY <1>2, <2>2 DEF Catalog!CatalogNext
<1>4. ASSUME NEW new \in Row, rows' = [rows EXCEPT ![i] = new], row.version > 0,
             new.version = row.version + 1, new.deleted = row.deleted,
             row.deleted => new.body = row.body
      PROVE  Catalog!CatalogNext
  <2>1. new \in Catalog!RowsAt({row.version + 1})
    BY <1>4 DEF Row, Catalog!RowsAt
  <2>2. Catalog!Change(i)
    BY <1>4, <2>1 DEF Catalog!Change
  <2> QED
    BY <1>2, <2>2 DEF Catalog!CatalogNext
<1>5. CASE row.version > 0 /\ ~row.deleted /\ rows' = [rows EXCEPT ![i] = UpdatedRow(row, r)]
  <2>1. UpdatedRow(row, r) \in Row /\ UpdatedRow(row, r).version = row.version + 1
    BY NextVersion
  <2>2. UpdatedRow(row, r).deleted = row.deleted
    BY <1>2 DEF UpdatedRow, Row
  <2> QED
    BY <1>4, <1>5, <2>1, <2>2
<1>6. CASE row.version > 0 /\ rows' = [rows EXCEPT ![i] = FlaggedRow(row, call[r].op)]
  <2>1. /\ FlaggedRow(row, call[r].op) \in Row
        /\ FlaggedRow(row, call[r].op).version = row.version + 1
    BY NextVersion
  <2>2. /\ FlaggedRow(row, call[r].op).deleted = row.deleted
        /\ FlaggedRow(row, call[r].op).body = row.body
    BY <1>2 DEF FlaggedRow, Row
  <2> QED
    BY <1>4, <1>6, <2>1, <2>2
<1>7. CASE row.version > 0 /\ ~row.deleted /\ rows' = [rows EXCEPT ![i] = DeletedRow(row)]
  <2>1. Catalog!SoftDelete(i)
    BY <1>7, Zenon DEF DeletedRow, Catalog!SoftDelete
  <2> QED
    BY <1>2, <2>1 DEF Catalog!CatalogNext
<1> QED
  BY <1>1, <1>3, <1>5, <1>6, <1>7

\* Whatever the interleaving of the requests, their statements move the table
\* as the versioned catalogue promises.
THEOREM Refinement == Spec => CatalogSpec
  BY RefinesInit, RefinesStep, Invariance, PTL DEF Spec, CatalogSpec, Catalog!CatalogSpec

-----------------------------------------------------------------------------
(***************************************************************************)
(* BulkImport: the lists an import works through, the invariant ImportInv  *)
(* that follows it from the lookup to its report, and its two theorems.    *)
(***************************************************************************)

\* A position in a set of positions has a rank there, and later positions
\* have higher ranks.
LEMMA RanksGrow ==
  ASSUME NEW n \in Nat, NEW positions \in SUBSET (1..n)
  PROVE  /\ IsFiniteSet(positions)
         /\ Cardinality(positions) \in 0..n
         /\ \A k \in positions : Rank(positions, k) \in 1..Cardinality(positions)
         /\ \A j, k \in positions : j < k => Rank(positions, j) < Rank(positions, k)
<1>1. IsFiniteSet(1..n) /\ Cardinality(1..n) = n
  BY FS_Interval
<1>2. IsFiniteSet(positions) /\ Cardinality(positions) <= n
  BY <1>1, FS_Subset
<1>3. Cardinality(positions) \in Nat
  BY <1>2, FS_CardinalityType
<1> DEFINE Upto(k) == {j \in positions : j <= k}
<1>4. \A k \in positions : /\ IsFiniteSet(Upto(k))
                           /\ Cardinality(Upto(k)) \in Nat
                           /\ Cardinality(Upto(k)) <= Cardinality(positions)
  BY <1>2, FS_Subset, FS_CardinalityType
<1>5. ASSUME NEW k \in positions PROVE Rank(positions, k) \in 1..Cardinality(positions)
  <2>1. k \in Upto(k)
    OBVIOUS
  <2>2. Cardinality(Upto(k)) # 0
    BY <1>4, <2>1, FS_EmptySet
  <2> QED BY <1>3, <1>4, <2>2 DEF Rank
<1>6. ASSUME NEW j \in positions, NEW k \in positions, j < k
      PROVE  Rank(positions, j) < Rank(positions, k)
  <2>1. Upto(j) \in SUBSET Upto(k)
    <3>1. \A i \in positions : i \in Nat
      OBVIOUS
    <3>2. \A i \in positions : i <= j => i <= k
      BY <1>6, <3>1
    <3> QED BY <3>2
  <2>2. k \in Upto(k) /\ k \notin Upto(j)
    BY <1>6
  <2>3. /\ Cardinality(Upto(j)) <= Cardinality(Upto(k))
        /\ Cardinality(Upto(k)) = Cardinality(Upto(j)) => Upto(k) = Upto(j)
    BY <1>4, <2>1, FS_Subset
  <2> HIDE DEF Upto
  <2>4. Upto(k) # Upto(j)
    BY <2>2
  <2>5. Cardinality(Upto(j)) < Cardinality(Upto(k))
    BY <1>4, <2>3, <2>4
  <2> QED BY <2>5 DEF Rank, Upto
<1> QED BY <1>2, <1>3, <1>5, <1>6

\* Every rank is taken: a set of positions can be listed in order.
LEMMA RanksAreTaken ==
  ASSUME NEW n \in Nat, NEW positions \in SUBSET (1..n),
         NEW m \in 1..Cardinality(positions)
  PROVE  \E k \in positions : Rank(positions, k) = m
<1> DEFINE size == Cardinality(positions)
           rank == [k \in positions |-> Rank(positions, k)]
<1>1. IsFiniteSet(positions) /\ size \in Nat
  BY RanksGrow
<1>2. IsFiniteSet(1..size) /\ Cardinality(1..size) = size
  BY <1>1, FS_Interval
<1>3. rank \in [positions -> 1..size]
  BY RanksGrow
<1>4. ASSUME NEW j \in positions, NEW k \in positions, rank[j] = rank[k]
      PROVE  j = k
  <2>1. j < k \/ k < j \/ j = k
    OBVIOUS
  <2>2. Rank(positions, j) = Rank(positions, k)
    BY <1>4
  <2>3. \A i \in positions : Rank(positions, i) \in 1..size
    BY RanksGrow
  <2>4. /\ j < k => Rank(positions, j) < Rank(positions, k)
        /\ k < j => Rank(positions, k) < Rank(positions, j)
    BY RanksGrow
  <2> QED BY <1>1, <2>1, <2>2, <2>3, <2>4
<1>5. rank \in Injection(positions, 1..size)
  BY <1>3, <1>4 DEF Injection, IsInjective
<1>6. rank \in Surjection(positions, 1..size)
  BY <1>2, <1>5, FS_Injection
<1> QED BY <1>6 DEF Surjection

\* What Pick lists: what s has at the positions, and nothing twice when s has
\* nothing twice there.
LEMMA PickLists ==
  ASSUME NEW S, NEW s \in Seq(S), NEW positions \in SUBSET (1..Len(s))
  PROVE  /\ Pick(s, positions) \in Seq(S)
         /\ Len(Pick(s, positions)) = Cardinality(positions)
         /\ Cardinality(positions) \in 0..Len(s)
         /\ Range(Pick(s, positions)) = {s[k] : k \in positions}
         /\ (\A j, k \in positions : s[j] = s[k] => j = k)
              => IsInjective(Pick(s, positions))
<1> DEFINE size == Cardinality(positions)
           At(m) == CHOOSE k \in positions : Rank(positions, k) = m
<1>1. Len(s) \in Nat /\ \A k \in 1..Len(s) : s[k] \in S
  OBVIOUS
<1>2. size \in 0..Len(s)
  BY <1>1, RanksGrow
<1>3. \A m \in 1..size : At(m) \in positions /\ Rank(positions, At(m)) = m
  BY <1>1, RanksAreTaken
<1>4. Pick(s, positions) = [m \in 1..size |-> s[At(m)]]
  BY DEF Pick
<1>5. \A m \in 1..size : s[At(m)] \in S
  BY <1>1, <1>3
<1>6. \A k \in positions : \E m \in 1..size : At(m) = k
  <2> SUFFICES ASSUME NEW k \in positions PROVE At(Rank(positions, k)) = k
    BY <1>1, RanksGrow
  <2>1. Rank(positions, k) \in 1..size
    BY <1>1, RanksGrow
  <2> DEFINE other == At(Rank(positions, k))
  <2>2. other \in positions /\ Rank(positions, other) = Rank(positions, k)
    BY <1>3, <2>1
  <2> HIDE DEF other
  <2>3. other < k \/ k < other \/ other = k
    BY <2>2
  <2>4. /\ other < k => Rank(positions, other) < Rank(positions, k)
        /\ k < other => Rank(positions, k) < Rank(positions, other)
    BY <1>1, <2>2, RanksGrow
  <2>5. other = k
    BY <1>2, <2>1, <2>2, <2>3, <2>4
  <2> QED BY <2>5 DEF other
<1> HIDE DEF At, size
<1>7. Pick(s, positions) \in [1..size -> S]
  BY <1>4, <1>5
<1>8. Pick(s, positions) \in Seq(S) /\ Len(Pick(s, positions)) = size
  BY <1>2, <1>7, IsASeq, LenProperties
<1>9. Range(Pick(s, positions)) = {s[k] : k \in positions}
  <2>1. Range(Pick(s, positions)) = {s[At(m)] : m \in 1..size}
    BY <1>4 DEF Range
  <2> QED BY <1>3, <1>6, <2>1
<1>10. ASSUME \A j, k \in positions : s[j] = s[k] => j = k
       PROVE  IsInjective(Pick(s, positions))
  <2> SUFFICES ASSUME NEW a \in 1..size, NEW b \in 1..size, s[At(a)] = s[At(b)]
               PROVE  a = b
    BY <1>4 DEF IsInjective
  <2>1. At(a) = At(b)
    BY <1>3, <1>10
  <2> QED BY <1>3, <2>1
<1> QED BY <1>2, <1>8, <1>9, <1>10 DEF size

\* Every element of a list occurs for a first time, and only once so.
LEMMA FirstOccurrencesCover ==
  ASSUME NEW S, NEW s \in Seq(S)
  PROVE  /\ FirstOccurrences(s) \in SUBSET (1..Len(s))
         /\ {s[k] : k \in FirstOccurrences(s)} = Range(s)
         /\ \A j, k \in FirstOccurrences(s) : s[j] = s[k] => j = k
<1>1. DOMAIN s = 1..Len(s) /\ Len(s) \in Nat
  OBVIOUS
<1>2. FirstOccurrences(s) \in SUBSET (1..Len(s))
  BY <1>1 DEF FirstOccurrences
<1>3. ASSUME NEW x \in Range(s) PROVE \E k \in FirstOccurrences(s) : s[k] = x
  <2> DEFINE places == {k \in 1..Len(s) : s[k] = x}
  <2>1. places \subseteq Nat /\ places # {}
    BY <1>1 DEF Range
  <2>2. PICK k \in places : \A j \in places : ~ (<<j, k>> \in OpToRel(<, Nat))
    BY <2>1, NatLessThanWellFounded, WFMin
  <2>3. \A j \in places : ~ (j < k)
    BY <2>1, <2>2 DEF OpToRel
  <2>4. \A j \in 1..k - 1 : s[j] # s[k]
    BY <1>1, <2>3
  <2> QED BY <1>1, <2>4 DEF FirstOccurrences
<1>4. \A k \in FirstOccurrences(s) : s[k] \in Range(s)
  BY <1>1, <1>2 DEF Range
<1>5. ASSUME NEW j \in FirstOccurrences(s), NEW k \in FirstOccurrences(s), s[j] = s[k]
      PROVE  j = k
  <2>1. j \in 1..Len(s) /\ k \in 1..Len(s)
    BY <1>2
  <2>2. ~ (j \in 1..k - 1) /\ ~ (k \in 1..j - 1)
    BY <1>5 DEF FirstOccurrences
  <2> QED BY <1>1, <2>1, <2>2
<1> QED BY <1>2, <1>3, <1>4, <1>5

\* The ids of a list once each, and those of them that were not found.
LEMMA DistinctAndPlan ==
  ASSUME NEW S, NEW s \in Seq(S), NEW found
  PROVE  /\ Distinct(s) \in Seq(S)
         /\ Range(Distinct(s)) = Range(s)
         /\ Plan(s, found) \in Seq(S)
         /\ Len(Plan(s, found)) \in 0..Len(s)
         /\ Range(Plan(s, found)) = Range(s) \ found
         /\ IsInjective(Plan(s, found))
<1> DEFINE firsts == FirstOccurrences(s)
           missing == {k \in firsts : s[k] \notin found}
<1>1. /\ firsts \in SUBSET (1..Len(s))
      /\ {s[k] : k \in firsts} = Range(s)
      /\ \A j, k \in firsts : s[j] = s[k] => j = k
  BY FirstOccurrencesCover
<1> HIDE DEF firsts
<1>2. missing \in SUBSET (1..Len(s))
  BY <1>1
<1>3. {s[k] : k \in missing} = Range(s) \ found
  BY <1>1
<1>4. \A j, k \in missing : s[j] = s[k] => j = k
  BY <1>1
<1> HIDE DEF missing
<1>5. Distinct(s) \in Seq(S) /\ Range(Distinct(s)) = Range(s)
  BY <1>1, PickLists DEF Distinct, firsts
<1>6. Plan(s, found) = Pick(s, missing)
  BY DEF Plan, missing, firsts
<1>7. /\ Pick(s, missing) \in Seq(S)
      /\ Len(Pick(s, missing)) = Cardinality(missing)
      /\ Cardinality(missing) \in 0..Len(s)
      /\ Range(Pick(s, missing)) = Range(s) \ found
      /\ IsInjective(Pick(s, missing))
  BY <1>2, <1>3, <1>4, PickLists
<1> QED BY <1>5, <1>6, <1>7

\* What a slice lists.
LEMMA SliceLists ==
  ASSUME NEW S, NEW s \in Seq(S), NEW from \in Nat, NEW n \in Nat
  PROVE  /\ Slice(s, from, n) \in Seq(S)
         /\ Len(Slice(s, from, n)) \in 0..Len(s)
         /\ Range(Slice(s, from, n)) = {s[k] : k \in {j \in 1..Len(s) : from < j /\ j <= from + n}}
         /\ \A j \in 1..Len(s) : from < j => (j <= from + n <=> j <= from + Len(Slice(s, from, n)))
<1> DEFINE to == IF from + n < Len(s) THEN from + n ELSE Len(s)
           slice == Slice(s, from, n)
<1>1. Len(s) \in Nat /\ \A k \in 1..Len(s) : s[k] \in S
  OBVIOUS
<1>2. to \in Nat /\ to <= Len(s) /\ from + 1 \in Nat \ {0}
  BY <1>1
<1>3. slice = SubSeq(s, from + 1, to)
  BY DEF Slice
<1>4. \A k \in 1..Len(s) : from < k /\ k <= from + n <=> k \in from + 1..to
  BY <1>1
<1> HIDE DEF to
<1>5. \A k \in from + 1..to : k \in 1..Len(s)
  BY <1>1, <1>2
<1>6. /\ slice \in Seq(S)
      /\ Len(slice) = IF from + 1 <= to THEN to - (from + 1) + 1 ELSE 0
      /\ \A i \in 1..to - (from + 1) + 1 : slice[i] = s[from + 1 + i - 1]
  BY <1>1, <1>2, <1>3, <1>5, SubSeqProperties
<1> HIDE DEF slice
<1>7. Len(slice) = IF from < to THEN to - from ELSE 0
  BY <1>2, <1>6
<1>8. \A i \in 1..Len(slice) : slice[i] = s[from + i] /\ from + i \in from + 1..to
  BY <1>2, <1>6, <1>7
<1>9. \A k \in from + 1..to : k - from \in 1..Len(slice) /\ slice[k - from] = s[k]
  <2> SUFFICES ASSUME NEW k \in from + 1..to
               PROVE  k - from \in 1..Len(slice) /\ slice[k - from] = s[k]
    OBVIOUS
  <2>1. k - from \in 1..Len(slice)
    BY <1>2, <1>7
  <2>2. from + (k - from) = k
    BY <1>2
  <2> QED BY <1>8, <2>1, <2>2
<1>10. Range(slice) = {slice[i] : i \in 1..Len(slice)}
  BY <1>6, RangeEquality
<1>11. Range(slice) = {s[k] : k \in from + 1..to}
  BY <1>8, <1>9, <1>10
<1>12. Range(slice) = {s[k] : k \in {j \in 1..Len(s) : from < j /\ j <= from + n}}
  BY <1>4, <1>5, <1>11
<1>13. /\ Len(slice) \in 0..Len(s)
       /\ \A j \in 1..Len(s) : from < j => (j <= from + n <=> j <= from + Len(slice))
  BY <1>1, <1>2, <1>7 DEF to
<1> QED BY <1>6, <1>12, <1>13 DEF slice

\* A list without repetitions is as long as the set of its elements.
LEMMA InjectiveListsCount ==
  ASSUME NEW S, NEW s \in Seq(S)
  PROVE  /\ IsFiniteSet(Range(s))
         /\ IsInjective(s) => Cardinality(Range(s)) = Len(s)
<1>1. Len(s) \in Nat /\ DOMAIN s = 1..Len(s)
  OBVIOUS
<1>2. IsFiniteSet(1..Len(s)) /\ Cardinality(1..Len(s)) = Len(s)
  BY <1>1, FS_Interval
<1>3. s \in Surjection(1..Len(s), Range(s))
  BY <1>1 DEF Surjection, Range
<1>4. /\ IsFiniteSet(Range(s))
      /\ Cardinality(Range(s)) = Cardinality(1..Len(s)) <=> s \in Injection(1..Len(s), Range(s))
  BY <1>2, <1>3, FS_Surjection
<1>5. IsInjective(s) => s \in Injection(1..Len(s), Range(s))
  BY <1>1 DEF Injection, Range
<1> QED BY <1>2, <1>4, <1>5

-----------------------------------------------------------------------------
\* The rows of toInsert that the statements before the one at next insert.
Inserted == {toInsert[k] : k \in {j \in 1..Len(toInsert) : j <= next * RowsPerStatement}}

\* The ids whose rows are looked up already.
LookedUp == {Distinct(inputs)[k] : k \in {j \in 1..Len(Distinct(inputs)) : j <= probed}}

\* While the ids are looked up, nothing is written; what was found is there
\* and what was not found is not.
LookupIsExact ==
  stage = "exists" /\ quiet =>
    /\ Mine = {}
    /\ next = 0
    /\ existing = {i \in LookedUp : table[i] # "none"}
    /\ report = NoReport

\* While the batches run, the rows of this import are those of the statements
\* that ran, the others to insert are free still, and the counters agree.
BatchesAreExact ==
  stage = "batch" /\ quiet =>
    /\ Mine = Inserted
    /\ \A i \in Range(toInsert) \ Inserted : table[i] = "none"
    /\ \A i \in Range(inputs) \ Range(toInsert) : table[i] # "none"
    /\ Range(toInsert) \subseteq Range(inputs)
    /\ IsInjective(toInsert)
    /\ report.imported = Cardinality(Mine)
    /\ report.skipped = Len(inputs) - Len(toInsert)
    /\ report.failed = 0

\* Once the rows are through, the report is exact and nothing is missing.
OutcomeIsExact ==
  stage \in {"audit", "done"} /\ quiet =>
    /\ report.imported + report.skipped = Len(inputs)
    /\ report.imported = Cardinality(Mine)
    /\ report.failed = 0
    /\ \A i \in Range(inputs) : table[i] # "none"

ImportInv ==
  /\ ImportTypeOK
  /\ stage = "single" => group # <<>> /\ ~quiet
  /\ stage = "idle" => inputs = <<>>
  /\ audited # "none" => stage = "done"
  /\ LookupIsExact
  /\ BatchesAreExact
  /\ OutcomeIsExact

-----------------------------------------------------------------------------
\* Lists that fit are sequences, and the shorter ones of the same ids fit too.
LEMMA ListsFit ==
  /\ \A s \in Lists : s \in Seq(QuestionIds) /\ Len(s) \in 0..MaxItems
  /\ \A s \in Seq(QuestionIds) : Len(s) <= MaxItems => s \in Lists
  /\ << >> \in Lists
<1>1. ASSUME NEW s \in Lists PROVE s \in Seq(QuestionIds) /\ Len(s) \in 0..MaxItems
  <2>1. PICK n \in 0..MaxItems : s \in [1..n -> QuestionIds]
    BY DEF Lists
  <2>2. n \in Nat
    BY ImportBoundsAssumption
  <2> QED BY <2>1, <2>2, IsASeq, LenProperties
<1>2. ASSUME NEW s \in Seq(QuestionIds), Len(s) <= MaxItems PROVE s \in Lists
  <2>1. Len(s) \in 0..MaxItems /\ s \in [1..Len(s) -> QuestionIds]
    BY <1>2, LenProperties, ImportBoundsAssumption
  <2> QED BY <2>1 DEF Lists
<1>3. << >> \in Seq(QuestionIds) /\ Len(<< >>) <= MaxItems
  BY ImportBoundsAssumption
<1> QED BY <1>1, <1>2, <1>3

\* The rows of a batch and of its fallback.
LEMMA BatchFits ==
  ASSUME ImportTypeOK
  PROVE  /\ next * RowsPerStatement \in Nat
         /\ StatementsPerBatch * RowsPerStatement \in Nat
         /\ (next + StatementsPerBatch) * RowsPerStatement
              = next * RowsPerStatement + StatementsPerBatch * RowsPerStatement
         /\ BatchRows = {toInsert[k] : k \in {j \in 1..Len(toInsert) :
                           /\ next * RowsPerStatement < j
                           /\ j <= (next + StatementsPerBatch) * RowsPerStatement}}
         /\ BatchRows \subseteq QuestionIds
         /\ IsFiniteSet(BatchRows)
         /\ FallbackRows \in Lists
<1>1. next \in Nat /\ RowsPerStatement \in Nat /\ StatementsPerBatch \in Nat
  BY SizeAssumption DEF ImportTypeOK
<1>2. toInsert \in Seq(QuestionIds) /\ Len(toInsert) \in 0..MaxItems
  BY ListsFit DEF ImportTypeOK
<1>3. \A a, b, c \in Nat : a * c \in Nat /\ (a + b) * c = a * c + b * c
  OBVIOUS
<1>4. /\ next * RowsPerStatement \in Nat
      /\ StatementsPerBatch * RowsPerStatement \in Nat
      /\ (next + StatementsPerBatch) * RowsPerStatement
           = next * RowsPerStatement + StatementsPerBatch * RowsPerStatement
  BY <1>1, <1>3
<1> DEFINE from == next * RowsPerStatement
           size == StatementsPerBatch * RowsPerStatement
<1>5. from \in Nat /\ size \in Nat
  BY <1>4
<1>6. BatchRows = Range(Slice(toInsert, from, size))
  BY DEF BatchRows
<1> HIDE DEF from, size
<1>7. /\ Slice(toInsert, from, size) \in Seq(QuestionIds)
      /\ Range(Slice(toInsert, from, size))
           = {toInsert[k] : k \in {j \in 1..Len(toInsert) : from < j /\ j <= from + size}}
  BY <1>2, <1>5, SliceLists
<1>8. BatchRows = {toInsert[k] : k \in {j \in 1..Len(toInsert) :
                     /\ next * RowsPerStatement < j
                     /\ j <= (next + StatementsPerBatch) * RowsPerStatement}}
  BY <1>4, <1>6, <1>7 DEF from, size
<1>9. BatchRows \subseteq QuestionIds /\ IsFiniteSet(BatchRows)
  BY <1>6, <1>7, RangeOfSeq, InjectiveListsCount
<1>10. /\ FallbackRows \in Seq(QuestionIds)
       /\ Len(FallbackRows) \in 0..Len(toInsert)
  BY <1>1, <1>2, SliceLists DEF FallbackRows
<1>11. FallbackRows \in Lists
  BY <1>2, <1>10, ListsFit, ImportBoundsAssumption
<1> QED BY <1>4, <1>8, <1>9, <1>11

\* What the import has looked up so far, and what the next SELECT adds.
LEMMA LookupFits ==
  ASSUME ImportTypeOK
  PROVE  LET slice == Slice(Distinct(inputs), probed, RowsPerStatement)
             more  == probed + Len(slice)
             now   == {Distinct(inputs)[k] : k \in {j \in 1..Len(Distinct(inputs)) : j <= more}}
         IN /\ more \in Nat /\ Len(Distinct(inputs)) \in Nat
            /\ Range(slice) \subseteq QuestionIds
            /\ now = LookedUp \cup Range(slice)
            /\ now \subseteq Range(inputs)
            /\ ~ (more < Len(Distinct(inputs))) => now = Range(inputs)
<1> DEFINE ids == Distinct(inputs)
           slice == Slice(ids, probed, RowsPerStatement)
           more == probed + Len(slice)
           now == {ids[k] : k \in {j \in 1..Len(ids) : j <= more}}
<1>1. inputs \in Seq(QuestionIds) /\ probed \in Nat /\ RowsPerStatement \in Nat
  BY ListsFit, SizeAssumption DEF ImportTypeOK
<1>2. ids \in Seq(QuestionIds) /\ Range(ids) = Range(inputs)
  BY <1>1, DistinctAndPlan
<1>3. LookedUp = {ids[k] : k \in {j \in 1..Len(ids) : j <= probed}}
  BY DEF LookedUp
<1> HIDE DEF ids
<1>4. Len(ids) \in Nat /\ Range(ids) = {ids[k] : k \in 1..Len(ids)}
  BY <1>2, RangeEquality
<1>5. /\ slice \in Seq(QuestionIds)
      /\ Len(slice) \in 0..Len(ids)
      /\ Range(slice) = {ids[k] : k \in {j \in 1..Len(ids) :
                                           probed < j /\ j <= probed + RowsPerStatement}}
      /\ \A j \in 1..Len(ids) :
           probed < j => (j <= probed + RowsPerStatement <=> j <= probed + Len(slice))
  BY <1>1, <1>2, SliceLists
<1>6. Range(slice) \subseteq QuestionIds
  BY <1>5, RangeOfSeq
<1> HIDE DEF slice
<1>7. more \in Nat
  BY <1>1, <1>4, <1>5
<1>8. \A j \in 1..Len(ids) :
        j <= more <=> j <= probed \/ (probed < j /\ j <= probed + RowsPerStatement)
  BY <1>1, <1>4, <1>5
<1>9. now = LookedUp \cup Range(slice)
  BY <1>3, <1>5, <1>8
<1>10. now \subseteq Range(inputs)
  BY <1>2, <1>4
<1>11. ASSUME ~ (more < Len(ids)) PROVE now = Range(inputs)
  <2>1. \A j \in 1..Len(ids) : j <= more
    BY <1>4, <1>7, <1>11
  <2> QED BY <1>2, <1>4, <2>1
<1> QED BY <1>4, <1>6, <1>7, <1>9, <1>10, <1>11 DEF ids, slice

\* The sizes the counters add are natural numbers.
LEMMA CountersFit ==
  ASSUME ImportTypeOK, NEW ids \in SUBSET QuestionIds, IsFiniteSet(ids)
  PROVE  /\ InsertedRows(ids) \subseteq ids
         /\ IsFiniteSet(InsertedRows(ids))
         /\ Cardinality(InsertedRows(ids)) \in Nat
<1>1. InsertedRows(ids) \subseteq ids
  BY DEF InsertedRows
<1>2. IsFiniteSet(InsertedRows(ids))
  BY <1>1, FS_Subset
<1> QED BY <1>1, <1>2, FS_CardinalityType

\* Every step leaves the variables in their types.
LEMMA ImportTypes ==
  ASSUME ImportTypeOK, stage = "single" => group # << >>, [ImportNext]_importVars
  PROVE  ImportTypeOK' /\ (stage = "single" => group # << >>)'
<1> USE DEF ImportTypeOK
<1>1. CASE Submit
  <2> USE <1>1 DEF Submit, NoReport
  <2>1. inputs' \in Lists
    OBVIOUS
  <2>2. table' \in [QuestionIds -> {"none", "other", "earlier", "import"}]
    OBVIOUS
  <2>3. imports' \in 0..MaxImports
    BY ImportBoundsAssumption
  <2>4. report' \in [imported : Nat, skipped : 0..MaxItems, failed : Nat]
    BY ImportBoundsAssumption
  <2>5. stage' \in {"audit", "exists"}
    OBVIOUS
  <2> QED BY <2>1, <2>2, <2>3, <2>4, <2>5, ListsFit
<1>2. CASE FindExisting
  <2> DEFINE slice == Slice(Distinct(inputs), probed, RowsPerStatement)
             found == existing \cup {i \in Range(slice) : table[i] # "none"}
             plan == Plan(inputs, found)
  <2>1. probed' \in Nat /\ existing' \subseteq QuestionIds
    BY <1>2, LookupFits DEF FindExisting
  <2>2. inputs \in Seq(QuestionIds) /\ Len(inputs) \in 0..MaxItems
    BY ListsFit
  <2> HIDE DEF found
  <2>3. plan \in Seq(QuestionIds) /\ Len(plan) \in 0..Len(inputs)
    BY <2>2, DistinctAndPlan
  <2>4. plan \in Lists /\ Len(inputs) - Len(plan) \in 0..MaxItems
    BY <2>2, <2>3, ListsFit, ImportBoundsAssumption
  <2>5. \/ UNCHANGED <<stage, toInsert, report>>
        \/ /\ toInsert' = plan
           /\ report' = [report EXCEPT !.skipped = Len(inputs) - Len(plan)]
           /\ stage' = IF plan = <<>> THEN "audit" ELSE "batch"
    BY <1>2 DEF FindExisting, found
  <2> HIDE DEF plan
  <2>6. /\ toInsert' \in Lists
        /\ report' \in [imported : Nat, skipped : 0..MaxItems, failed : Nat]
        /\ stage' \in {"exists", "audit", "batch"}
    BY <1>2, <2>4, <2>5 DEF FindExisting
  <2>7. UNCHANGED <<table, inputs, next, group, audited, imports, quiet>>
    BY <1>2 DEF FindExisting
  <2> QED BY <2>1, <2>6, <2>7
<1>3. CASE RunBatch
  <2>1. BatchRows \in SUBSET QuestionIds /\ IsFiniteSet(BatchRows)
    BY BatchFits
  <2>2. Cardinality(InsertedRows(BatchRows)) \in Nat
    BY <2>1, CountersFit
  <2>3. report' \in [imported : Nat, skipped : 0..MaxItems, failed : Nat]
    BY <1>3, <2>2 DEF RunBatch
  <2>4. table' \in [QuestionIds -> {"none", "other", "earlier", "import"}]
    BY <1>3 DEF RunBatch, InsertRows
  <2>5. next' \in Nat /\ stage' \in {"batch", "audit"}
    BY <1>3, SizeAssumption DEF RunBatch, AfterBatch
  <2> QED BY <1>3, <2>3, <2>4, <2>5 DEF RunBatch
<1>4. CASE BatchThrows
  <2>1. group' \in Lists
    BY <1>4, BatchFits DEF BatchThrows
  <2>2. table' \in [QuestionIds -> {"none", "other", "earlier", "import"}]
    BY <1>4 DEF BatchThrows, InsertRows
  <2>3. next' \in Nat /\ stage' \in {"batch", "audit", "single"}
    BY <1>4, SizeAssumption DEF BatchThrows, AfterBatch
  <2>4. stage' = "single" => group' # << >>
    BY <1>4 DEF BatchThrows, AfterBatch
  <2> QED BY <1>4, <2>1, <2>2, <2>3, <2>4 DEF BatchThrows
<1>5. CASE ImportSingleRow
  <2>1. group # << >> /\ group \in Seq(QuestionIds) /\ Len(group) \in 0..MaxItems
    BY <1>5, ListsFit DEF ImportSingleRow
  <2>2. Tail(group) \in Seq(QuestionIds) /\ Len(Tail(group)) = Len(group) - 1
    BY <2>1, HeadTailProperties
  <2> DEFINE rest == Tail(group)
  <2>3. group' = rest
    BY <1>5 DEF ImportSingleRow
  <2> HIDE DEF rest
  <2>4. rest \in Seq(QuestionIds) /\ Len(rest) = Len(group) - 1
    BY <2>2 DEF rest
  <2>5. group' \in Lists
    <3>1. Len(rest) <= MaxItems
      BY <2>1, <2>4, ImportBoundsAssumption
    <3> QED BY <2>3, <2>4, <3>1, ListsFit
  <2>6. Len(group) # 1 => group' # << >>
    BY <2>1, <2>3, <2>4, EmptySeq
  <2>7. table' \in [QuestionIds -> {"none", "other", "earlier", "import"}]
    BY <1>5 DEF ImportSingleRow, InsertRows
  <2>8. report' \in [imported : Nat, skipped : 0..MaxItems, failed : Nat]
    BY <1>5 DEF ImportSingleRow
  <2>9. next' \in Nat /\ stage' \in {"batch", "audit", "single"}
    BY <1>5, SizeAssumption DEF ImportSingleRow, AfterBatch
  <2>10. stage' = "single" => group' # << >>
    BY <1>5, <2>6 DEF ImportSingleRow, AfterBatch
  <2> QED BY <1>5, <2>5, <2>7, <2>8, <2>9, <2>10 DEF ImportSingleRow
<1>6. CASE RecordImport
  BY <1>6 DEF RecordImport
<1>7. CASE Abort
  BY <1>7 DEF Abort
<1>8. CASE OtherCreate
  BY <1>8 DEF OtherCreate
<1>9. CASE UNCHANGED importVars
  BY <1>9 DEF importVars
<1> QED BY <1>1, <1>2, <1>3, <1>4, <1>5, <1>6, <1>7, <1>8, <1>9 DEF ImportNext

-----------------------------------------------------------------------------
\* The SELECTs: what they add to the lookup, and the plan after the last one.
LEMMA LookupStaysExact ==
  ASSUME ImportInv, FindExisting, quiet
  PROVE  LookupIsExact' /\ BatchesAreExact' /\ OutcomeIsExact'
<1> DEFINE slice == Slice(Distinct(inputs), probed, RowsPerStatement)
           found == existing \cup {i \in Range(slice) : table[i] # "none"}
           plan == Plan(inputs, found)
<1>1. ImportTypeOK /\ stage = "exists"
  BY DEF ImportInv, FindExisting
<1>2. /\ Mine = {} /\ next = 0 /\ report = NoReport
      /\ existing = {i \in LookedUp : table[i] # "none"}
  BY <1>1 DEF ImportInv, LookupIsExact
<1>3. /\ existing' = found
      /\ probed' = probed + Len(slice)
      /\ UNCHANGED <<table, inputs, next, group, audited, imports, quiet>>
      /\ \/ probed' < Len(Distinct(inputs)) /\ UNCHANGED <<stage, toInsert, report>>
         \/ /\ ~ (probed' < Len(Distinct(inputs)))
            /\ toInsert' = plan
            /\ report' = [report EXCEPT !.skipped = Len(inputs) - Len(plan)]
            /\ stage' = IF plan = <<>> THEN "audit" ELSE "batch"
  BY DEF FindExisting
<1>4. /\ LookedUp' = LookedUp \cup Range(slice)
      /\ LookedUp' \subseteq Range(inputs)
      /\ ~ (probed' < Len(Distinct(inputs))) => LookedUp' = Range(inputs)
  BY <1>1, <1>3, LookupFits DEF LookedUp
<1>5. found = {i \in LookedUp' : table[i] # "none"}
  BY <1>2, <1>4
<1>6. Mine' = {}
  BY <1>2, <1>3 DEF Mine
<1> HIDE DEF slice, found
<1>7. CASE UNCHANGED <<stage, toInsert, report>>
  <2>1. LookupIsExact'
    BY <1>2, <1>3, <1>5, <1>6, <1>7 DEF LookupIsExact
  <2> QED BY <1>1, <1>7, <2>1 DEF BatchesAreExact, OutcomeIsExact
<1>8. CASE /\ ~ (probed' < Len(Distinct(inputs)))
           /\ toInsert' = plan
           /\ report' = [report EXCEPT !.skipped = Len(inputs) - Len(plan)]
           /\ stage' = IF plan = <<>> THEN "audit" ELSE "batch"
  <2>1. found = {i \in Range(inputs) : table[i] # "none"}
    BY <1>4, <1>5, <1>8
  <2>2. inputs \in Seq(QuestionIds) /\ Len(inputs) \in Nat
    BY <1>1, ListsFit DEF ImportTypeOK
  <2>3. /\ plan \in Seq(QuestionIds)
        /\ Len(plan) \in 0..Len(inputs)
        /\ Range(plan) = Range(inputs) \ found
        /\ IsInjective(plan)
    BY <2>2, DistinctAndPlan
  <2> HIDE DEF plan
  <2>4. Range(plan) = {i \in Range(inputs) : table[i] = "none"}
    BY <2>1, <2>3
  <2>5. report' = [imported |-> 0, skipped |-> Len(inputs) - Len(plan), failed |-> 0]
    BY <1>2, <1>8 DEF NoReport
  <2>6. Cardinality(Mine') = 0
    BY <1>6, FS_EmptySet
  <2>7. CASE plan = << >>
    <3>1. Len(plan) = 0 /\ Range(plan) = {}
      <4>1. Len(plan) = 0
        BY <2>7
      <4>2. Range(plan) = {plan[k] : k \in 1..Len(plan)}
        BY <2>3, RangeEquality
      <4>3. 1..Len(plan) = {}
        BY <4>1
      <4> QED BY <4>1, <4>2, <4>3
    <3>2. \A i \in Range(inputs) : table'[i] # "none"
      BY <1>3, <2>4, <3>1
    <3>3. OutcomeIsExact'
      BY <1>3, <2>2, <2>5, <2>6, <3>1, <3>2 DEF OutcomeIsExact
    <3> QED BY <1>8, <2>7, <3>3 DEF LookupIsExact, BatchesAreExact
  <2>8. CASE plan # << >>
    <3>1. 0 * RowsPerStatement = 0
      BY SizeAssumption
    <3>2. Inserted' = {}
      <4>1. \A j \in 1..Len(plan) : ~ (j <= next' * RowsPerStatement)
        BY <1>2, <1>3, <2>3, <3>1
      <4> QED BY <1>8, <4>1 DEF Inserted
    <3>3. BatchesAreExact'
      BY <1>3, <1>6, <1>8, <2>3, <2>4, <2>5, <2>6, <3>2 DEF BatchesAreExact
    <3> QED BY <1>8, <2>8, <3>3 DEF LookupIsExact, OutcomeIsExact
  <2> QED BY <2>7, <2>8
<1> QED BY <1>3, <1>7, <1>8

\* A batch: it inserts its own rows and no others.
LEMMA BatchStaysExact ==
  ASSUME ImportInv, RunBatch, quiet
  PROVE  LookupIsExact' /\ BatchesAreExact' /\ OutcomeIsExact'
<1> DEFINE before == next * RowsPerStatement
           after == (next + StatementsPerBatch) * RowsPerStatement
<1>1. ImportTypeOK /\ stage = "batch" /\ toInsert \in Seq(QuestionIds)
  BY ListsFit DEF ImportInv, RunBatch, ImportTypeOK
<1>2. /\ Mine = Inserted
      /\ \A i \in Range(toInsert) \ Inserted : table[i] = "none"
      /\ \A i \in Range(inputs) \ Range(toInsert) : table[i] # "none"
      /\ Range(toInsert) \subseteq Range(inputs)
      /\ IsInjective(toInsert)
      /\ report.imported = Cardinality(Mine)
      /\ report.skipped = Len(inputs) - Len(toInsert)
      /\ report.failed = 0
  BY <1>1 DEF ImportInv, BatchesAreExact
<1>3. /\ before \in Nat /\ after \in Nat /\ before <= after
      /\ BatchRows = {toInsert[k] : k \in {j \in 1..Len(toInsert) : before < j /\ j <= after}}
      /\ BatchRows \subseteq QuestionIds
      /\ IsFiniteSet(BatchRows)
  <2>1. \A a, b \in Nat : a + b \in Nat /\ a <= a + b
    OBVIOUS
  <2> QED BY <1>1, <2>1, BatchFits
<1>4. /\ table' = [i \in QuestionIds |->
                    IF i \in InsertedRows(BatchRows) THEN "import" ELSE table[i]]
      /\ report' = [report EXCEPT !.imported = @ + Cardinality(InsertedRows(BatchRows))]
      /\ next' = next + StatementsPerBatch
      /\ stage' = IF IsStatement(next') THEN "batch" ELSE "audit"
      /\ UNCHANGED <<inputs, toInsert, quiet>>
  BY DEF RunBatch, AfterBatch, InsertRows
<1>5. /\ Len(toInsert) \in Nat /\ Len(inputs) \in Nat
      /\ Range(toInsert) = {toInsert[k] : k \in 1..Len(toInsert)}
      /\ \A j, k \in 1..Len(toInsert) : toInsert[j] = toInsert[k] => j = k
  <2>1. inputs \in Seq(QuestionIds)
    BY <1>1, ListsFit DEF ImportTypeOK
  <2>2. Len(toInsert) \in Nat /\ Len(inputs) \in Nat /\ DOMAIN toInsert = 1..Len(toInsert)
    BY <1>1, <2>1
  <2> QED BY <1>1, <1>2, <2>2, RangeEquality DEF IsInjective
<1>6. Inserted = {toInsert[k] : k \in {j \in 1..Len(toInsert) : j <= before}}
  BY DEF Inserted
<1>7. Inserted' = {toInsert[k] : k \in {j \in 1..Len(toInsert) : j <= after}}
  BY <1>4 DEF Inserted
<1>8. next' * RowsPerStatement = after
  BY <1>4
<1> HIDE DEF before, after
<1>9. \A j \in 1..Len(toInsert) : j <= after <=> j <= before \/ (before < j /\ j <= after)
  BY <1>3, <1>5
<1>10. Inserted' = Inserted \cup BatchRows
  BY <1>3, <1>6, <1>7, <1>9
<1>11. BatchRows \cap Inserted = {}
  <2> SUFFICES ASSUME NEW j \in 1..Len(toInsert), NEW k \in 1..Len(toInsert),
                      toInsert[j] = toInsert[k], j <= before, before < k
               PROVE  FALSE
    BY <1>3, <1>6
  <2>1. j = k
    BY <1>5
  <2> QED BY <1>3, <1>5, <2>1
<1>12. BatchRows \subseteq Range(toInsert) /\ Inserted \subseteq Range(toInsert)
  BY <1>3, <1>5, <1>6
<1>13. InsertedRows(BatchRows) = BatchRows
  BY <1>2, <1>11, <1>12 DEF InsertedRows
<1>14. table' = [i \in QuestionIds |-> IF i \in BatchRows THEN "import" ELSE table[i]]
  BY <1>4, <1>13
<1>15. Mine' = Inserted'
  BY <1>2, <1>3, <1>10, <1>14 DEF Mine
<1>16. /\ \A i \in Range(toInsert) \ Inserted' : table'[i] = "none"
       /\ \A i \in Range(inputs) \ Range(toInsert) : table'[i] # "none"
  <2>1. Range(toInsert) \subseteq QuestionIds /\ Range(inputs) \subseteq QuestionIds
    BY <1>1, ListsFit, RangeOfSeq DEF ImportTypeOK
  <2> QED BY <1>2, <1>10, <1>14, <2>1
<1>17. report'.imported = Cardinality(Mine')
  <2>1. IsFiniteSet(Inserted)
    BY <1>1, <1>12, InjectiveListsCount, FS_Subset
  <2>2. /\ Cardinality(Inserted \cup BatchRows)
             = Cardinality(Inserted) + Cardinality(BatchRows) - Cardinality(Inserted \cap BatchRows)
    BY <1>3, <2>1, FS_Union
  <2>3. Cardinality(Inserted \cap BatchRows) = 0
    BY <1>11, FS_EmptySet
  <2>4. Cardinality(Inserted) \in Nat /\ Cardinality(BatchRows) \in Nat
    BY <1>3, <2>1, FS_CardinalityType
  <2>5. Cardinality(Mine') = Cardinality(Inserted) + Cardinality(BatchRows)
    BY <1>10, <1>15, <2>2, <2>3, <2>4
  <2>6. report'.imported = report.imported + Cardinality(BatchRows)
    BY <1>1, <1>4, <1>13 DEF ImportTypeOK
  <2> QED BY <1>2, <2>5, <2>6
<1>18. report'.skipped = Len(inputs) - Len(toInsert) /\ report'.failed = 0
  BY <1>1, <1>2, <1>4 DEF ImportTypeOK
<1>19. CASE IsStatement(next')
  <2>1. BatchesAreExact'
    BY <1>2, <1>4, <1>15, <1>16, <1>17, <1>18 DEF BatchesAreExact
  <2> QED BY <1>4, <1>19, <2>1 DEF LookupIsExact, OutcomeIsExact
<1>20. CASE ~ IsStatement(next')
  <2>1. ~ (after < Len(toInsert))
    BY <1>4, <1>8, <1>20 DEF IsStatement
  <2>2. \A j \in 1..Len(toInsert) : j <= after
    BY <1>3, <1>5, <2>1
  <2>3. Inserted' = Range(toInsert)
    BY <1>5, <1>7, <2>2
  <2>4. Cardinality(Mine') = Len(toInsert)
    BY <1>1, <1>2, <1>15, <2>3, InjectiveListsCount
  <2>5. report'.imported + report'.skipped = Len(inputs)
    BY <1>5, <1>17, <1>18, <2>4
  <2>6. \A i \in Range(inputs) : table'[i] # "none"
    <3>1. \A i \in Mine' : table'[i] = "import"
      BY DEF Mine
    <3> QED BY <1>15, <1>16, <2>3, <3>1
  <2>7. OutcomeIsExact'
    BY <1>4, <1>17, <1>18, <2>5, <2>6 DEF OutcomeIsExact
  <2> QED BY <1>4, <1>20, <2>7 DEF LookupIsExact, BatchesAreExact
<1> QED BY <1>19, <1>20

\* A question somebody else creates is none of those submitted, or the import
\* is not quiet any more.
LEMMA OthersLeaveItExact ==
  ASSUME ImportInv, OtherCreate, quiet'
  PROVE  LookupIsExact' /\ BatchesAreExact' /\ OutcomeIsExact'
<1>1. PICK q \in QuestionIds : /\ table[q] = "none"
                               /\ table' = [table EXCEPT ![q] = "other"]
                               /\ quiet' = (quiet /\ q \notin Range(inputs))
  BY DEF OtherCreate
<1>2. quiet /\ q \notin Range(inputs)
  BY <1>1
<1>3. UNCHANGED <<inputs, stage, probed, existing, toInsert, next, group, report,
                  audited, imports>>
  BY DEF OtherCreate
<1>4. ImportTypeOK
  BY DEF ImportInv
<1>5. table \in [QuestionIds -> {"none", "other", "earlier", "import"}]
  BY <1>4 DEF ImportTypeOK
<1>6. \A i \in QuestionIds : i # q => table'[i] = table[i]
  BY <1>1, <1>5
<1>7. Mine' = Mine
  BY <1>1, <1>5 DEF Mine
<1>8. Inserted' = Inserted /\ LookedUp' = LookedUp
  BY <1>3 DEF Inserted, LookedUp
<1>9. Range(inputs) \subseteq QuestionIds
  BY <1>4, ListsFit, RangeOfSeq DEF ImportTypeOK
<1>10. \A i \in Range(inputs) : table'[i] = table[i]
  BY <1>2, <1>6, <1>9
<1>11. LookedUp \subseteq Range(inputs)
  BY <1>4, LookupFits
<1>12. LookupIsExact'
  <2> SUFFICES ASSUME stage = "exists" PROVE LookupIsExact'
    BY <1>3 DEF LookupIsExact
  <2>1. /\ existing = {i \in LookedUp : table[i] # "none"}
        /\ Mine = {} /\ next = 0 /\ report = NoReport
    BY <1>2 DEF ImportInv, LookupIsExact
  <2>2. existing = {i \in LookedUp : table'[i] # "none"}
    BY <1>10, <1>11, <2>1
  <2> QED BY <1>3, <1>7, <1>8, <2>1, <2>2 DEF LookupIsExact
<1>13. BatchesAreExact'
  <2> SUFFICES ASSUME stage = "batch" PROVE BatchesAreExact'
    BY <1>3 DEF BatchesAreExact
  <2>1. /\ Mine = Inserted
        /\ \A i \in Range(toInsert) \ Inserted : table[i] = "none"
        /\ \A i \in Range(inputs) \ Range(toInsert) : table[i] # "none"
        /\ Range(toInsert) \subseteq Range(inputs)
        /\ IsInjective(toInsert)
        /\ report.imported = Cardinality(Mine)
        /\ report.skipped = Len(inputs) - Len(toInsert)
        /\ report.failed = 0
    BY <1>2 DEF ImportInv, BatchesAreExact
  <2>2. /\ \A i \in Range(toInsert) \ Inserted : table'[i] = "none"
        /\ \A i \in Range(inputs) \ Range(toInsert) : table'[i] # "none"
    BY <1>10, <2>1
  <2> QED BY <1>3, <1>7, <1>8, <2>1, <2>2 DEF BatchesAreExact
<1>14. OutcomeIsExact'
  BY <1>2, <1>3, <1>7, <1>10 DEF ImportInv, OutcomeIsExact
<1> QED BY <1>12, <1>13, <1>14

\* ImportInv is inductive.
LEMMA ImportInvIsInductive == ImportInv /\ [ImportNext]_importVars => ImportInv'
<1> SUFFICES ASSUME ImportInv, [ImportNext]_importVars PROVE ImportInv'
  OBVIOUS
<1> DEFINE Exact == LookupIsExact /\ BatchesAreExact /\ OutcomeIsExact
<1>1. ImportTypeOK' /\ (stage = "single" => group # << >>)'
  BY ImportTypes DEF ImportInv
<1>2. SUFFICES /\ Exact'
               /\ (stage = "single" => ~quiet)'
               /\ (stage = "idle" => inputs = << >>)'
               /\ (audited # "none" => stage = "done")'
  BY <1>1 DEF ImportInv
<1>3. CASE Submit
  <2>1. PICK list \in Lists : /\ inputs' = list
                              /\ stage' = IF list = << >> THEN "audit" ELSE "exists"
    BY <1>3 DEF Submit, ImportInv, ImportTypeOK
  <2>2. /\ table' = [i \in QuestionIds |-> IF table[i] = "import" THEN "earlier" ELSE table[i]]
        /\ report' = NoReport /\ audited' = "none"
        /\ probed' = 0 /\ next' = 0 /\ existing' = {}
    BY <1>3 DEF Submit
  <2>3. Mine' = {}
    BY <2>2 DEF Mine
  <2>4. CASE list = << >>
    <3>1. Len(inputs') = 0 /\ Range(inputs') = {}
      BY <2>1, <2>4 DEF Range
    <3>2. Cardinality(Mine') = 0
      BY <2>3, FS_EmptySet
    <3>3. OutcomeIsExact'
      BY <2>2, <3>1, <3>2 DEF OutcomeIsExact, NoReport
    <3> QED BY <2>1, <2>2, <2>4, <3>3 DEF LookupIsExact, BatchesAreExact
  <2>5. CASE list # << >>
    <3>1. LookedUp' = {}
      BY <2>2 DEF LookedUp
    <3>2. LookupIsExact'
      BY <2>2, <2>3, <3>1 DEF LookupIsExact
    <3> QED BY <2>1, <2>2, <2>5, <3>2 DEF BatchesAreExact, OutcomeIsExact
  <2> QED BY <2>4, <2>5
<1>4. CASE FindExisting
  <2>1. /\ quiet' = quiet /\ audited' = audited
        /\ stage = "exists" /\ stage' \in {"exists", "audit", "batch"}
    BY <1>4 DEF FindExisting
  <2>2. quiet => Exact'
    BY <1>4, LookupStaysExact
  <2>3. ~quiet => Exact'
    BY <2>1 DEF LookupIsExact, BatchesAreExact, OutcomeIsExact
  <2> QED BY <2>1, <2>2, <2>3 DEF ImportInv
<1>5. CASE RunBatch
  <2>1. /\ quiet' = quiet /\ audited' = audited
        /\ stage = "batch" /\ stage' \in {"audit", "batch"}
    BY <1>5 DEF RunBatch, AfterBatch
  <2>2. quiet => Exact'
    BY <1>5, BatchStaysExact
  <2>3. ~quiet => Exact'
    BY <2>1 DEF LookupIsExact, BatchesAreExact, OutcomeIsExact
  <2> QED BY <2>1, <2>2, <2>3 DEF ImportInv
<1>6. CASE BatchThrows
  <2>1. /\ ~quiet' /\ audited' = audited
        /\ stage = "batch" /\ stage' \in {"audit", "batch", "single"}
    BY <1>6 DEF BatchThrows, AfterBatch
  <2> QED BY <2>1 DEF ImportInv, LookupIsExact, BatchesAreExact, OutcomeIsExact
<1>7. CASE ImportSingleRow
  <2>1. /\ ~quiet' /\ audited' = audited
        /\ stage = "single" /\ stage' \in {"audit", "batch", "single"}
    BY <1>7 DEF ImportSingleRow, AfterBatch, ImportInv
  <2> QED BY <2>1 DEF ImportInv, LookupIsExact, BatchesAreExact, OutcomeIsExact
<1>8. CASE RecordImport
  <2>1. /\ stage = "audit" /\ stage' = "done"
        /\ UNCHANGED <<table, inputs, report, quiet>>
    BY <1>8 DEF RecordImport
  <2>2. OutcomeIsExact'
    BY <2>1 DEF ImportInv, OutcomeIsExact, Mine
  <2> QED BY <2>1, <2>2 DEF LookupIsExact, BatchesAreExact
<1>9. CASE Abort
  <2>1. ~quiet' /\ stage' = "done"
    BY <1>9 DEF Abort
  <2> QED BY <2>1 DEF LookupIsExact, BatchesAreExact, OutcomeIsExact
<1>10. CASE OtherCreate
  <2>1. /\ quiet' => quiet
        /\ UNCHANGED <<inputs, stage, audited>>
    BY <1>10 DEF OtherCreate
  <2>2. quiet' => Exact'
    BY <1>10, OthersLeaveItExact
  <2>3. ~quiet' => Exact'
    BY DEF LookupIsExact, BatchesAreExact, OutcomeIsExact
  <2> QED BY <2>1, <2>2, <2>3 DEF ImportInv
<1>11. CASE UNCHANGED importVars
  BY <1>11 DEF importVars, ImportInv, LookupIsExact, BatchesAreExact, OutcomeIsExact,
               Mine, Inserted, LookedUp
<1> QED BY <1>3, <1>4, <1>5, <1>6, <1>7, <1>8, <1>9, <1>10, <1>11 DEF ImportNext

\* ImportInv holds in every state.
LEMMA ImportInvHolds == ImportSpec => []ImportInv
<1>1. ImportInit => ImportInv
  BY ListsFit, ImportBoundsAssumption
     DEF ImportInit, ImportInv, ImportTypeOK, NoReport,
         LookupIsExact, BatchesAreExact, OutcomeIsExact
<1> QED BY <1>1, ImportInvIsInductive, PTL DEF ImportSpec

\* Whatever list is imported, in statements and batches of whatever size: as
\* long as nothing interferes, the report says what happened to every submitted
\* row, and no submitted id is missing afterwards (importQuestions).
THEOREM ExactQuietImports == ImportSpec => []QuietImportsAreExact
<1>1. ImportInv => QuietImportsAreExact
  <2> SUFFICES ASSUME ImportInv PROVE QuietImportsAreExact
    OBVIOUS
  <2>1. QuietReportIsExact
    BY DEF ImportInv, OutcomeIsExact, QuietReportIsExact
  <2>2. QuietImportIsComplete
    BY DEF ImportInv, OutcomeIsExact, QuietImportIsComplete
  <2> QED BY <2>1, <2>2 DEF ImportInv, QuietImportsAreExact
<1> QED BY <1>1, ImportInvHolds, PTL

\* "Existing ids are skipped, never overwritten": INSERT ... DO NOTHING leaves a
\* row alone that is there, whenever it was created (importQuestions,
\* importSingleRow).
THEOREM ImportsNeverOverwrite == ImportSpec => NeverOverwritten
<1> DEFINE Kept == \A i \in QuestionIds : table[i] \in {"other", "earlier"} => table'[i] # "import"
<1>1. ASSUME ImportTypeOK, [ImportNext]_importVars PROVE Kept
  <2>1. \A ids : InsertRows(ids) => Kept
    BY DEF InsertRows, InsertedRows
  <2>2. table' = table => Kept
    OBVIOUS
  <2>3. CASE Submit
    BY <2>3 DEF Submit
  <2>4. CASE FindExisting
    BY <2>2, <2>4 DEF FindExisting
  <2>5. CASE RunBatch
    BY <2>1, <2>5 DEF RunBatch
  <2>6. CASE BatchThrows
    BY <2>1, <2>2, <2>6 DEF BatchThrows
  <2>7. CASE ImportSingleRow
    BY <2>1, <2>2, <2>7 DEF ImportSingleRow
  <2>8. CASE RecordImport \/ Abort \/ UNCHANGED importVars
    BY <2>2, <2>8 DEF RecordImport, Abort, importVars
  <2>9. CASE OtherCreate
    BY <1>1, <2>9 DEF OtherCreate, ImportTypeOK
  <2> QED BY <1>1, <2>3, <2>4, <2>5, <2>6, <2>7, <2>8, <2>9 DEF ImportNext
<1>2. ImportInv => ImportTypeOK
  BY DEF ImportInv
<1> QED BY <1>1, <1>2, ImportInvHolds, PTL DEF ImportSpec, NeverOverwritten
=============================================================================
