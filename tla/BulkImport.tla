------------------------------ MODULE BulkImport ------------------------------
(***************************************************************************)
(* importQuestions (server/store.ts) under POST /api/admin/questions: one  *)
(* request inserts a list of questions, other requests create questions    *)
(* meanwhile, and any D1 call may throw.  D1 runs a batch as a             *)
(* transaction; when the call throws, the transaction was rolled back or,  *)
(* if only the answer was lost, committed.                                 *)
(***************************************************************************)
EXTENDS Naturals, FiniteSets, Sequences, Functions

CONSTANTS QuestionIds,          \* question ids
          MaxItems,             \* bound: length of the submitted list (500 in the code)
          MaxImports,           \* bound: how often the administrator submits a list
          RowsPerStatement,     \* IMPORT_ROWS_PER_STATEMENT
          StatementsPerBatch,   \* IMPORT_STATEMENTS_PER_BATCH
          OthersCreate,         \* other requests create questions meanwhile
          CallsThrow            \* D1 calls may throw

ASSUME SizeAssumption == RowsPerStatement \in Nat \ {0} /\ StatementsPerBatch \in Nat \ {0}
ASSUME ImportBoundsAssumption == MaxItems \in Nat /\ MaxImports \in Nat

VARIABLES table,      \* table[i]: who wrote row i: "none", "other", "earlier" or this "import"
          inputs,     \* the submitted ids, in order
          stage,      \* "idle", "exists", "batch", "single", "audit", "done"
          probed,     \* how many distinct submitted ids were looked up
          existing,   \* the ids findExistingIds has found
          toInsert,   \* the rows to insert
          next,       \* index of the next statement
          group,      \* rows a failed batch still has to insert one by one
          report,     \* the counters of ImportOutcome
          audited,    \* the outcome in the audit row of this import, or "none"
          imports,    \* imports submitted so far
          quiet       \* history: no call threw and no other request wrote, this import

importVars == <<table, inputs, stage, probed, existing, toInsert, next, group, report,
                audited, imports, quiet>>

NoReport == [imported |-> 0, skipped |-> 0, failed |-> 0]

Lists == UNION {[1..n -> QuestionIds] : n \in 0..MaxItems}

ImportTypeOK ==
  /\ table \in [QuestionIds -> {"none", "other", "earlier", "import"}]
  /\ inputs \in Lists /\ toInsert \in Lists /\ group \in Lists
  /\ stage \in {"idle", "exists", "batch", "single", "audit", "done"}
  /\ probed \in Nat /\ next \in Nat /\ existing \subseteq QuestionIds
  /\ report \in [imported : Nat, skipped : 0..MaxItems, failed : Nat]
  /\ audited \in {"none", "success", "failure"}
  /\ imports \in 0..MaxImports
  /\ quiet \in BOOLEAN

-----------------------------------------------------------------------------
\* s.slice(from, from + n)
Slice(s, from, n) == SubSeq(s, from + 1, IF from + n < Len(s) THEN from + n ELSE Len(s))

\* The positions at which a list has an id for the first time.
FirstOccurrences(s) == {k \in DOMAIN s : \A j \in 1..k - 1 : s[j] # s[k]}

\* How many of the positions lie at or before k.
Rank(positions, k) == Cardinality({j \in positions : j <= k})

\* What a list has at the given positions, in order.
Pick(s, positions) == [n \in 1..Cardinality(positions) |->
                         s[CHOOSE k \in positions : Rank(positions, k) = n]]

\* The ids of a list in order, each of them once.
Distinct(s) == Pick(s, FirstOccurrences(s))

\* The rows to insert: those not found, once each.
Plan(list, found) == Pick(list, {k \in FirstOccurrences(list) : list[k] \notin found})

\* INSERT ... ON CONFLICT(id) DO NOTHING, and the rows it changes.
UpsertedRows(ids) == ids
InsertedRows(ids) == {i \in ids : table[i] = "none"}

InsertRows(ids) ==
  table' = [i \in QuestionIds |-> IF i \in InsertedRows(ids) THEN "import" ELSE table[i]]

\* There is a statement at index n.
IsStatement(n) == n * RowsPerStatement < Len(toInsert)

\* The rows of the statements of the batch at next.
BatchRows == Range(Slice(toInsert, next * RowsPerStatement,
                         StatementsPerBatch * RowsPerStatement))

\* The rows the fallback for that batch goes through.
FallbackRows == Slice(toInsert, next, StatementsPerBatch)

Mine == {i \in QuestionIds : table[i] = "import"}

-----------------------------------------------------------------------------
ImportInit ==
  /\ table \in [QuestionIds -> {"none", "other"}]
  /\ inputs = <<>> /\ toInsert = <<>> /\ group = <<>>
  /\ stage = "idle"
  /\ probed = 0 /\ next = 0 /\ existing = {}
  /\ report = NoReport
  /\ audited = "none"
  /\ imports = 0
  /\ quiet = TRUE

\* A list of valid questions is posted, and the same list again.
Submit ==
  /\ stage \in {"idle", "done"}
  /\ imports < MaxImports
  /\ \E list \in IF imports = 0 THEN Lists ELSE {inputs} :
       /\ inputs' = list
       /\ stage' = IF list = <<>> THEN "audit" ELSE "exists"
  /\ table' = [i \in QuestionIds |-> IF table[i] = "import" THEN "earlier" ELSE table[i]]
  /\ imports' = imports + 1
  /\ report' = NoReport
  /\ toInsert' = <<>> /\ group' = <<>>
  /\ probed' = 0 /\ next' = 0 /\ existing' = {}
  /\ audited' = "none"
  /\ quiet' = TRUE

\* findExistingIds: one SELECT per RowsPerStatement distinct ids.  After the
\* last one the fate of every row is decided.
FindExisting ==
  /\ stage = "exists"
  /\ LET slice == Slice(Distinct(inputs), probed, RowsPerStatement)
         found == existing \cup {i \in Range(slice) : table[i] # "none"}
         plan  == Plan(inputs, found)
     IN /\ existing' = found
        /\ probed' = probed + Len(slice)
        /\ IF probed' < Len(Distinct(inputs))
           THEN UNCHANGED <<stage, toInsert, report>>
           ELSE /\ toInsert' = plan
                /\ report' = [report EXCEPT !.skipped = Len(inputs) - Len(plan)]
                /\ stage' = IF plan = <<>> THEN "audit" ELSE "batch"
  /\ UNCHANGED <<table, inputs, next, group, audited, imports, quiet>>

AfterBatchByRows ==
  /\ next' = next + StatementsPerBatch * RowsPerStatement
  /\ stage' = IF IsStatement(next') THEN "batch" ELSE "audit"
AfterBatch ==
  /\ next' = next + StatementsPerBatch
  /\ stage' = IF IsStatement(next') THEN "batch" ELSE "audit"

\* db.batch: all the statements or none, and the changes they made.
RunBatch ==
  /\ stage = "batch"
  /\ InsertRows(BatchRows)
  /\ report' = [report EXCEPT !.imported = @ + Cardinality(InsertedRows(BatchRows))]
  /\ AfterBatch
  /\ UNCHANGED <<inputs, probed, existing, toInsert, group, audited, imports, quiet>>

\* db.batch throws, rolled back or not: row by row from here.
BatchThrows ==
  /\ stage = "batch"
  /\ CallsThrow
  /\ InsertRows(BatchRows) \/ UNCHANGED table
  /\ group' = FallbackRows
  /\ IF FallbackRows = <<>> THEN AfterBatch ELSE stage' = "single" /\ UNCHANGED next
  /\ quiet' = FALSE
  /\ UNCHANGED <<inputs, probed, existing, toInsert, report, audited, imports>>

\* importSingleRow: a conflict with an existing row is no failure.
ImportSingleRow ==
  /\ stage = "single"
  /\ \/ /\ InsertRows({Head(group)})
        /\ report' = [report EXCEPT !.imported = @ + 1]
     \/ /\ UNCHANGED table
        /\ report' = [report EXCEPT !.failed = @ + 1]
  /\ group' = Tail(group)
  /\ IF Len(group) = 1 THEN AfterBatch ELSE UNCHANGED <<stage, next>>
  /\ UNCHANGED <<inputs, probed, existing, toInsert, audited, imports, quiet>>

RecordImport ==
  /\ stage = "audit"
  /\ audited' = IF report.failed > 0 THEN "failure" ELSE "success"
  /\ stage' = "done"
  /\ UNCHANGED <<table, inputs, probed, existing, toInsert, next, group, report,
                 imports, quiet>>

\* A SELECT or the audit INSERT throws, or the isolate dies: the request ends.
Abort ==
  /\ CallsThrow
  /\ stage \notin {"idle", "done"}
  /\ stage' = "done"
  /\ quiet' = FALSE
  /\ UNCHANGED <<table, inputs, probed, existing, toInsert, next, group, report,
                 audited, imports>>

\* Another request creates a question.
OtherCreate ==
  /\ OthersCreate
  /\ stage \notin {"idle", "done"}
  /\ \E i \in QuestionIds :
       /\ table[i] = "none"
       /\ table' = [table EXCEPT ![i] = "other"]
       /\ quiet' = (quiet /\ i \notin Range(inputs))
  /\ UNCHANGED <<inputs, stage, probed, existing, toInsert, next, group, report,
                 audited, imports>>

ImportNext ==
  \/ Submit \/ FindExisting \/ RunBatch \/ BatchThrows \/ ImportSingleRow
  \/ RecordImport \/ Abort \/ OtherCreate

ImportSpec == ImportInit /\ [][ImportNext]_importVars

-----------------------------------------------------------------------------
\* Properties.

\* "Existing ids are skipped, never overwritten": no step of an import, of a
\* batch or of its fallback, replaces a row of somebody else or of an earlier
\* import, even one created after the existence query looked for it.
NeverOverwritten ==
  [][\A i \in QuestionIds : table[i] \in {"other", "earlier"} => table'[i] # "import"]_importVars

\* As long as no call threw and nobody else created a submitted id, the report
\* is exact: every submitted row is counted once, as imported or as skipped,
\* and the imported ones are the rows this import wrote.
QuietReportIsExact ==
  stage \in {"audit", "done"} /\ quiet =>
    /\ report.imported + report.skipped = Len(inputs)
    /\ report.imported = Cardinality(Mine)
    /\ report.failed = 0

\* An import that is retried after a crash or a failure adds what is missing
\* and nothing else: a completed quiet import leaves every submitted id in the
\* table, whoever wrote it.
QuietImportIsComplete ==
  audited = "success" /\ quiet => \A i \in Range(inputs) : table[i] # "none"

\* The report of an import that nothing disturbed can be trusted, and the
\* import that follows a disturbed one makes up for it.
QuietImportsAreExact == ImportTypeOK /\ QuietReportIsExact /\ QuietImportIsComplete
===============================================================================
