---------------------------- MODULE QuestionStore ----------------------------
(***************************************************************************)
(* The administrator's question table: server/store.ts under the handlers  *)
(* of /api/admin/questions in server/index.ts.  Every D1 statement is one  *)
(* atomic step and everything between two of them is an await, so requests *)
(* interleave at each statement.  A statement may also throw, or the       *)
(* isolate may be evicted: the request then ends where it stands.          *)
(* Requests here have passed requireAdmin, the origin and the CSRF checks. *)
(***************************************************************************)
EXTENDS Naturals

CONSTANTS Ids,      \* question ids
          Reqs,     \* requests; also the identity of the content each one carries
          Seed,     \* the content of the rows that were there before
          Drafts    \* [enabled, published] pairs the request bodies may carry

ASSUME IdsAssumption == Ids # {}
ASSUME SeedAssumption == Seed \notin Reqs
ASSUME DraftsAssumption == Drafts \subseteq [enabled : BOOLEAN, published : BOOLEAN]

VARIABLES rows,     \* the questions table; version 0 says there is no row
          pc,       \* pc[r]: the next D1 statement of request r
          call,     \* call[r]: what request r asks for
          seen,     \* seen[r]: the version r read before it writes (0: none)
          wrote,    \* history: the version r's own write produced (0: none)
          reply,    \* reply[r]: the outcome r is about to report, or reported
          audit     \* the admin_audit_log rows

vars == <<rows, pc, call, seen, wrote, reply, audit>>

-----------------------------------------------------------------------------
Bodies == Reqs \cup {Seed}

Row == [version : Nat, enabled : BOOLEAN, published : BOOLEAN,
        deleted : BOOLEAN, body : Bodies]

\* The routes that write.  "restore" is the enable route under another name.
Ops == {"create", "duplicate", "update", "publish", "unpublish", "enable",
        "disable", "restore", "delete"}

FlagOps == {"publish", "unpublish", "enable", "disable", "restore"}

\* path is the id in the URL, id the one the statements use; they differ only
\* for PUT, whose id comes from the body, and for duplicate, which reads path
\* and inserts id.  expected is the version field of a PUT body, 0 if absent.
Calls == [op : Ops, path : Ids, id : Ids, expected : Nat,
          enabled : BOOLEAN, published : BOOLEAN]

AuditActions == {"question_create", "question_duplicate", "question_update",
                 "question_publish", "question_unpublish", "question_enable",
                 "question_disable", "question_delete"}

Replies == {"none", "created", "updated", "flagged", "deleted",
            "conflict", "not_found", "error"}

Successes == {"created", "updated", "flagged", "deleted"}

Steps == {"idle", "source", "check", "insert", "created", "load", "update",
          "updated", "reload", "flag", "flagged", "delete", "deleted",
          "audit", "done"}

NoRow == [version |-> 0, enabled |-> FALSE, published |-> FALSE,
          deleted |-> FALSE, body |-> Seed]

NoCall(i) == [op |-> "create", path |-> i, id |-> i, expected |-> 0,
              enabled |-> FALSE, published |-> FALSE]

TypeOK ==
  /\ rows \in [Ids -> Row]
  /\ pc \in [Reqs -> Steps]
  /\ call \in [Reqs -> Calls]
  /\ seen \in [Reqs -> Nat]
  /\ wrote \in [Reqs -> Nat]
  /\ reply \in [Reqs -> Replies]
  /\ audit \subseteq [req : Reqs, action : AuditActions, id : Ids]

-----------------------------------------------------------------------------
\* The SQL the statements are made of.

\* getAdminQuestion: "WHERE id = ? AND deleted_at IS NULL" finds the row.
Live(row) == row.version > 0 /\ ~row.deleted

\* getAdminQuestion with includeDeleted.
Stored(row) == row.version > 0

\* PUBLIC_PREDICATE.
Public(row) == Live(row) /\ row.enabled /\ row.published

\* INSERT INTO questions ... VALUES (..., 1, ...): the primary key refuses it.
InsertClashes(row) == row.version > 0

InsertedRow(r) == [version |-> 1, enabled |-> call[r].enabled,
                   published |-> call[r].published, deleted |-> FALSE, body |-> r]

\* UPDATE ... WHERE id = ? AND version = ?
UpdateMatchesById(row, v) == row.version > 0
UpdateMatches(row, v) == row.version > 0 /\ row.version = v

UpdatedRow(row, r) == [row EXCEPT !.version = @ + 1, !.body = r,
                                  !.enabled = call[r].enabled,
                                  !.published = call[r].published]

\* UPDATE ... SET enabled/published = ? WHERE id = ?
FlaggedRowUndeletes(row, op) ==
  [row EXCEPT !.version = @ + 1, !.deleted = FALSE, !.enabled = TRUE]
FlaggedRow(row, op) ==
  IF op \in {"publish", "unpublish"}
  THEN [row EXCEPT !.version = @ + 1, !.published = (op = "publish")]
  ELSE [row EXCEPT !.version = @ + 1, !.enabled = (op # "disable")]

\* UPDATE ... SET deleted_at = ?, enabled = 0, published = 0 WHERE deleted_at IS NULL
DeletedRow(row) == [row EXCEPT !.version = @ + 1, !.deleted = TRUE,
                               !.enabled = FALSE, !.published = FALSE]

\* The action an audit row is filed under; restore is filed as enable.
ActionNameVerbatim(op) ==
  CASE op = "restore" -> "question_restore" [] OTHER -> "question_enable"
ActionName(op) ==
  CASE op = "create"    -> "question_create"
    [] op = "duplicate" -> "question_duplicate"
    [] op = "update"    -> "question_update"
    [] op = "publish"   -> "question_publish"
    [] op = "unpublish" -> "question_unpublish"
    [] op = "disable"   -> "question_disable"
    [] op = "delete"    -> "question_delete"
    [] OTHER            -> "question_enable"

\* The audited question_id: the URL's id, except where a row was inserted.
AuditedId(c) == IF c.op \in {"create", "duplicate"} THEN c.id ELSE c.path

-----------------------------------------------------------------------------
SeedRows == {NoRow} \cup
  {[version |-> 1, enabled |-> d.enabled, published |-> d.published,
    deleted |-> FALSE, body |-> Seed] : d \in Drafts}

Init ==
  /\ rows \in [Ids -> SeedRows]
  /\ pc = [r \in Reqs |-> "idle"]
  /\ call = [r \in Reqs |-> NoCall(CHOOSE i \in Ids : TRUE)]
  /\ seen = [r \in Reqs |-> 0]
  /\ wrote = [r \in Reqs |-> 0]
  /\ reply = [r \in Reqs |-> "none"]
  /\ audit = {}

-----------------------------------------------------------------------------
\* Moves and ends of a request.

Goto(r, step) == pc' = [pc EXCEPT ![r] = step]

Answer(r, outcome) == /\ Goto(r, "done")
                      /\ reply' = [reply EXCEPT ![r] = outcome]

\* The handler holds a success: it writes the audit row before it responds.
Succeed(r, outcome) == /\ Goto(r, "audit")
                       /\ reply' = [reply EXCEPT ![r] = outcome]

FirstStep(op) == CASE op = "create" -> "check"
                   [] op = "duplicate" -> "source"
                   [] OTHER -> "load"

\* A request arrives.  A client that sends a version has read it: it is one
\* the row has had.  A duplicate always carries enabled, unpublished.
Arrive(r) ==
  /\ pc[r] = "idle"
  /\ \E i \in Ids :
       \E c \in [op : Ops, path : Ids, id : {i}, expected : 0..rows[i].version,
               enabled : BOOLEAN, published : BOOLEAN] :
       /\ c.op # "update" => c.expected = 0
       /\ c.op \notin {"update", "duplicate"} => c.path = c.id
       /\ CASE c.op \in {"create", "update"} ->
                 [enabled |-> c.enabled, published |-> c.published] \in Drafts
            [] OTHER -> c.enabled /\ ~c.published
       /\ call' = [call EXCEPT ![r] = c]
       /\ Goto(r, FirstStep(c.op))
  /\ UNCHANGED <<rows, seen, wrote, reply, audit>>

-----------------------------------------------------------------------------
\* Writes newRow over r's row, and remembers that r did.
Put(r, newRow) ==
  /\ rows' = [rows EXCEPT ![call[r].id] = newRow]
  /\ wrote' = [wrote EXCEPT ![r] = newRow.version]

\* createQuestion, and duplicateQuestion in front of it.

DuplicateSource(r) ==
  /\ pc[r] = "source"
  /\ IF Stored(rows[call[r].path])
     THEN Goto(r, "check") /\ UNCHANGED reply
     ELSE Answer(r, "conflict")
  /\ UNCHANGED <<rows, call, seen, wrote, audit>>

CreateCheck(r) ==
  /\ pc[r] = "check"
  /\ IF Stored(rows[call[r].id])
     THEN Answer(r, "conflict")
     ELSE Goto(r, "insert") /\ UNCHANGED reply
  /\ UNCHANGED <<rows, call, seen, wrote, audit>>

CreateInsert(r) ==
  /\ pc[r] = "insert"
  /\ IF InsertClashes(rows[call[r].id])
     THEN /\ Answer(r, "error")
          /\ UNCHANGED <<rows, wrote>>
     ELSE /\ Put(r, InsertedRow(r))
          /\ Goto(r, "created")
          /\ UNCHANGED reply
  /\ UNCHANGED <<call, seen, audit>>

CreateReadBack(r) ==
  /\ pc[r] = "created"
  /\ IF Live(rows[call[r].id]) THEN Succeed(r, "created") ELSE Answer(r, "conflict")
  /\ UNCHANGED <<rows, call, seen, wrote, audit>>

-----------------------------------------------------------------------------
\* The read that opens updateQuestion, setQuestionFlag and deleteQuestion.

WriteStep(op) == CASE op = "update" -> "update"
                   [] op = "delete" -> "delete"
                   [] OTHER -> "flag"

Load(r) ==
  /\ pc[r] = "load"
  /\ LET row == rows[call[r].id]
     IN IF ~Live(row)
        THEN Answer(r, "not_found") /\ UNCHANGED seen
        ELSE IF call[r].expected \notin {0, row.version}
        THEN Answer(r, "conflict") /\ UNCHANGED seen
        ELSE /\ Goto(r, WriteStep(call[r].op))
             /\ seen' = [seen EXCEPT ![r] = row.version]
             /\ UNCHANGED reply
  /\ UNCHANGED <<rows, call, wrote, audit>>

UpdateWrite(r) ==
  /\ pc[r] = "update"
  /\ LET row == rows[call[r].id]
     IN IF UpdateMatches(row, seen[r])
        THEN Put(r, UpdatedRow(row, r))
        ELSE UNCHANGED <<rows, wrote>>
  /\ Goto(r, "updated")
  /\ UNCHANGED <<call, seen, reply, audit>>

\* The row is read back, and taken for r's own write when its version is the
\* next one.
UpdateReadBack(r) ==
  /\ pc[r] = "updated"
  /\ LET row == rows[call[r].id]
     IN IF Live(row) /\ row.version = seen[r] + 1
        THEN Succeed(r, "updated")
        ELSE Goto(r, "reload") /\ UNCHANGED reply
  /\ UNCHANGED <<rows, call, seen, wrote, audit>>

UpdateReload(r) ==
  /\ pc[r] = "reload"
  /\ Answer(r, IF Live(rows[call[r].id]) THEN "conflict" ELSE "not_found")
  /\ UNCHANGED <<rows, call, seen, wrote, audit>>

FlagWriteIfUnchanged(r) ==
  /\ pc[r] = "flag"
  /\ LET row == rows[call[r].id]
     IN IF UpdateMatches(row, seen[r])
        THEN Put(r, FlaggedRow(row, call[r].op))
        ELSE UNCHANGED <<rows, wrote>>
  /\ Goto(r, "flagged")
  /\ UNCHANGED <<call, seen, reply, audit>>
FlagWrite(r) ==
  /\ pc[r] = "flag"
  /\ Put(r, FlaggedRow(rows[call[r].id], call[r].op))
  /\ Goto(r, "flagged")
  /\ UNCHANGED <<call, seen, reply, audit>>

FlagReadBack(r) ==
  /\ pc[r] = "flagged"
  /\ IF Live(rows[call[r].id]) THEN Succeed(r, "flagged") ELSE Answer(r, "not_found")
  /\ UNCHANGED <<rows, call, seen, wrote, audit>>

DeleteWrite(r) ==
  /\ pc[r] = "delete"
  /\ LET row == rows[call[r].id]
     IN IF Live(row) THEN Put(r, DeletedRow(row)) ELSE UNCHANGED <<rows, wrote>>
  /\ Goto(r, "deleted")
  /\ UNCHANGED <<call, seen, reply, audit>>

DeleteReadBack(r) ==
  /\ pc[r] = "deleted"
  /\ IF Stored(rows[call[r].id]) THEN Succeed(r, "deleted") ELSE Answer(r, "not_found")
  /\ UNCHANGED <<rows, call, seen, wrote, audit>>

-----------------------------------------------------------------------------
\* recordAudit, then the response.
RecordAudit(r) ==
  /\ pc[r] = "audit"
  /\ audit' = audit \cup {[req |-> r, action |-> ActionName(call[r].op),
                           id |-> AuditedId(call[r])]}
  /\ Goto(r, "done")
  /\ UNCHANGED <<rows, call, seen, wrote, reply>>

\* The next statement throws (the router answers 500) or the isolate dies.
Fail(r) ==
  /\ pc[r] \notin {"idle", "done"}
  /\ Answer(r, "error")
  /\ UNCHANGED <<rows, call, seen, wrote, audit>>

Create(r) == DuplicateSource(r) \/ CreateCheck(r) \/ CreateInsert(r) \/ CreateReadBack(r)
Update(r) == UpdateWrite(r) \/ UpdateReadBack(r) \/ UpdateReload(r)
Flag(r)   == FlagWrite(r) \/ FlagReadBack(r)
Delete(r) == DeleteWrite(r) \/ DeleteReadBack(r)

Next == \E r \in Reqs : \/ Arrive(r) \/ Load(r) \/ Create(r) \/ Update(r)
                        \/ Flag(r) \/ Delete(r) \/ RecordAudit(r) \/ Fail(r)

Spec == Init /\ [][Next]_vars

-----------------------------------------------------------------------------
\* Properties.

\* Two writes to one row never produce the same version, and none produces a
\* version the row has not reached: the increments of racing PUT, flag and
\* DELETE statements are never lost, so a version names one state of the row.
WritesGetDistinctVersions ==
  \A r, s \in Reqs :
    wrote[r] > 0 =>
      /\ wrote[r] <= rows[call[r].id].version
      /\ r # s /\ call[r].id = call[s].id => wrote[r] # wrote[s]

\* A PUT that sent a version and took effect overwrote exactly the version its
\* client had read, however many other requests wrote between its two
\* statements: store.ts promises it "cannot silently clobber a newer
\* server-side edit".
NoStaleOverwrite ==
  \A r \in Reqs :
    call[r].op = "update" /\ call[r].expected > 0 /\ wrote[r] > 0
      => wrote[r] = call[r].expected + 1

\* A version names one state of its row, to those who write and to those who
\* send it back.
VersionsNameStates == WritesGetDistinctVersions /\ NoStaleOverwrite

\* A create, duplicate or flag change that the audit log records did change
\* the row it names, and one that was acknowledged is in the audit log:
\* neither a racing insert of the same id nor a racing delete makes the
\* handler report or log something it did not do.
AcknowledgedTookEffect ==
  \A r \in Reqs : call[r].op \in {"create", "duplicate"} \cup FlagOps =>
    /\ \A a \in audit : a.req = r => wrote[r] > 0 /\ a.id = call[r].id
    /\ pc[r] = "done" /\ reply[r] \in Successes
         => wrote[r] > 0 /\ \E a \in audit : a.req = r

\* Once a row is soft deleted no later statement brings it back, shows it to
\* the public, or replaces its content, not even one of a request that read
\* the row before it was deleted.
DeleteIsFinal ==
  [][\A i \in Ids : rows[i].deleted =>
       rows'[i].deleted /\ ~Public(rows'[i]) /\ rows'[i].body = rows[i].body]_rows

\* The table under these requests is a versioned catalogue.
Catalog == INSTANCE VersionedCatalog WITH Ids <- Ids, Bodies <- Bodies, rows <- rows
CatalogSpec == Catalog!CatalogSpec
===============================================================================
