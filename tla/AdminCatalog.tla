----------------------------- MODULE AdminCatalog -----------------------------
(***************************************************************************)
(* The question administration page (src/pages/AdminPage.tsx) with its     *)
(* browser's localStorage record of questions (src/lib/adminQuestions.ts,  *)
(* src/lib/adminServerSync.ts) against the shared question table.  A page  *)
(* writes its record first, then calls the server, then loads the whole    *)
(* catalogue and replaces its record by the public part.  Calls of one     *)
(* page overlap, and calls and answers may be lost.                        *)
(* A server request is one step here: QuestionStore and BulkImport take    *)
(* its statements apart.  Bundled questions, which nobody changes, are     *)
(* left out.                                                               *)
(***************************************************************************)
EXTENDS Naturals, FiniteSets

CONSTANTS Pages,         \* administrators' pages, each in a browser of its own
          Ids,           \* ids of questions that are not bundled
          Jobs,          \* asynchronous operations one page may have under way
          MaxOps,        \* bound: operations a page starts
          CallsFail      \* calls and answers may be lost

ASSUME MaxOpsAssumption == MaxOps \in Nat

VARIABLES rows,      \* the server's table
          local,     \* local[p]: the queryvanta-admin-questions record
          backed,    \* backed[p]: the page knows it has a server session
          entries,   \* entries[p]: the catalogue the page loaded last
          loaded,    \* loaded[p]: it has loaded one
          form,      \* form[p]: the question being edited, as the page listed it
          jobs,      \* jobs[p][j]: an operation under way
          notice,    \* notice[p]: what the sync panel says
          ops        \* ops[p]: operations started

pageVars == <<rows, local, backed, entries, loaded, form, jobs, notice, ops>>

-----------------------------------------------------------------------------
Bodies == Pages \cup {"seed"}

Row == [state : {"none", "live", "deleted"}, enabled : BOOLEAN, published : BOOLEAN,
        body : Bodies]

NoRow == [state |-> "none", enabled |-> FALSE, published |-> FALSE, body |-> "seed"]

\* A question in the browser's record: has it one, is it enabled, whose text.
Item == [here : BOOLEAN, enabled : BOOLEAN, body : Bodies]

NoItem == [here |-> FALSE, enabled |-> FALSE, body |-> "seed"]

Kinds == {"load", "create", "update", "delete", "enable", "publish", "duplicate", "import"}

NoJob == [step |-> "idle", kind |-> "load", ids |-> {}, from |-> "seed", flag |-> FALSE,
          rows |-> [i \in Ids |-> NoRow]]

PageTypeOK ==
  /\ rows \in [Ids -> Row]
  /\ local \in [Pages -> [Ids -> Item]]
  /\ backed \in [Pages -> BOOLEAN] /\ loaded \in [Pages -> BOOLEAN]
  /\ entries \in [Pages -> [Ids -> Row]]
  /\ form \in [Pages -> [id : Ids, body : Bodies] \cup {<<>>}]
  /\ jobs \in [Pages -> [Jobs -> [step : {"idle", "call", "answer", "get", "list"}, kind : Kinds,
                                  ids : SUBSET Ids, from : Bodies, flag : BOOLEAN,
                                  rows : [Ids -> Row]]]]
  /\ notice \in [Pages -> {"none", "loading", "loaded", "migrated", "error"}]
  /\ ops \in [Pages -> 0..MaxOps]

-----------------------------------------------------------------------------
\* listAdminQuestions: every row that is not deleted.
AdminList == [i \in Ids |-> IF rows[i].state = "live" THEN rows[i] ELSE NoRow]

IsPublic(row) == row.state = "live" /\ row.enabled /\ row.published

\* applyPublicMirror: the record a loaded catalogue is replaced by.
Mirror(list) ==
  [i \in Ids |-> IF IsPublic(list[i])
                 THEN [here |-> TRUE, enabled |-> TRUE, body |-> list[i].body]
                 ELSE NoItem]

\* mergeAdminCatalog: the loaded catalogue, or the record until there is one.
UsesServer(p) == backed[p] /\ loaded[p]
Listed(p, i) == IF UsesServer(p) THEN entries[p][i].state = "live" ELSE local[p][i].here
ListedEnabled(p, i) == IF UsesServer(p) THEN entries[p][i].enabled ELSE local[p][i].enabled
ListedPublished(p, i) == UsesServer(p) /\ entries[p][i].published
ListedBody(p, i) == IF UsesServer(p) THEN entries[p][i].body ELSE local[p][i].body

LocalIds(p) == {i \in Ids : local[p][i].here}

\* The questions this browser's learner pages offer: getActiveQuestions.
Offered(p) == {i \in Ids : local[p][i].here /\ local[p][i].enabled}

-----------------------------------------------------------------------------
PageInit ==
  /\ rows \in [Ids -> {NoRow} \cup
        {[state |-> "live", enabled |-> TRUE, published |-> b, body |-> "seed"] : b \in BOOLEAN}]
  /\ local \in [Pages -> [Ids -> {NoItem, [here |-> TRUE, enabled |-> TRUE, body |-> "seed"]}]]
  /\ \A p \in Pages, i \in Ids : local[p][i].here => rows[i].state = "none" \/ IsPublic(rows[i])
  /\ backed = [p \in Pages |-> FALSE] /\ loaded = [p \in Pages |-> FALSE]
  /\ entries = [p \in Pages |-> [i \in Ids |-> NoRow]]
  /\ form = [p \in Pages |-> <<>>]
  /\ jobs = [p \in Pages |-> [j \in Jobs |-> NoJob]]
  /\ notice = [p \in Pages |-> "none"]
  /\ ops = [p \in Pages |-> 0]

-----------------------------------------------------------------------------
\* What a page does at once, and the call it sends if it has a session.

SetJob(p, j, job) == jobs' = [jobs EXCEPT ![p][j] = job]

\* The operation counts against the bound; with a session it sends its call.
Carry(p, j, kind, ids, from, flag, payload) ==
  /\ ops[p] < MaxOps
  /\ ops' = [ops EXCEPT ![p] = @ + 1]
  /\ jobs[p][j].step = "idle"
  /\ IF backed[p]
     THEN /\ SetJob(p, j, [NoJob EXCEPT !.step = "call", !.kind = kind, !.ids = ids,
                                        !.from = from, !.flag = flag, !.rows = payload])
          /\ notice' = [notice EXCEPT ![p] = "loading"]
     ELSE UNCHANGED <<jobs, notice>>
  /\ UNCHANGED <<rows, backed, entries, loaded>>

Send(p, j, kind, ids, from, flag) == Carry(p, j, kind, ids, from, flag, [i \in Ids |-> NoRow])

\* serverImport: the rows a list of questions becomes, drafts all of them.
Import(p, j, ids, body) ==
  Carry(p, j, "import", ids, "seed", FALSE,
        [i \in Ids |-> IF i \in ids THEN [state |-> "live", enabled |-> TRUE, published |-> FALSE,
                                         body |-> body[i]]
                       ELSE NoRow])

Keep(p, ids, item) == local' = [local EXCEPT ![p] = [i \in Ids |-> IF i \in ids THEN item ELSE @[i]]]

\* The session check on mount, then the first load.
DetectSession(p, j) ==
  /\ ~backed[p] /\ jobs[p][j].step = "idle"
  /\ backed' = [backed EXCEPT ![p] = TRUE]
  /\ notice' = [notice EXCEPT ![p] = "loading"]
  /\ SetJob(p, j, [NoJob EXCEPT !.step = "get"])
  /\ UNCHANGED <<rows, local, entries, loaded, form, ops>>

\* "Sync now".
SyncNow(p, j) ==
  /\ backed[p] /\ jobs[p][j].step = "idle" /\ ops[p] < MaxOps
  /\ ops' = [ops EXCEPT ![p] = @ + 1]
  /\ SetJob(p, j, [NoJob EXCEPT !.step = "get"])
  /\ UNCHANGED <<rows, local, backed, entries, loaded, form, notice>>

\* handleSubmit on a new question: its id is checked against the record only.
Create(p, j) ==
  \E i \in Ids \ LocalIds(p), e \in BOOLEAN :
    /\ form[p] = <<>>
    /\ Keep(p, {i}, [here |-> TRUE, enabled |-> e, body |-> p])
    /\ Send(p, j, "create", {i}, "seed", e)
    /\ UNCHANGED form

\* handleEdit fills the form; handleSubmit saves it, with no version.
StartEdit(p) ==
  /\ form[p] = <<>> /\ ops[p] < MaxOps
  /\ \E i \in Ids : /\ Listed(p, i)
                    /\ form' = [form EXCEPT ![p] = [id |-> i, body |-> ListedBody(p, i)]]
  /\ UNCHANGED <<rows, local, backed, entries, loaded, jobs, notice, ops>>

SaveEdit(p, j) ==
  /\ form[p] # <<>>
  /\ \E e \in BOOLEAN :
       /\ Keep(p, {form[p].id} \cap LocalIds(p), [here |-> TRUE, enabled |-> e, body |-> p])
       /\ Send(p, j, "update", {form[p].id}, form[p].body, e)
  /\ form' = [form EXCEPT ![p] = <<>>]

\* A deleted question leaves the form that edits it.
ResetForm(p, ids) == form' = [form EXCEPT ![p] = IF @ # <<>> /\ @.id \in ids THEN <<>> ELSE @]

Delete(p, j) ==
  \E i \in Ids : /\ Listed(p, i)
                 /\ Keep(p, {i}, NoItem)
                 /\ ResetForm(p, {i})
                 /\ Send(p, j, "delete", {i}, "seed", FALSE)

ToggleEnabled(p, j) ==
  \E i \in Ids :
    LET e == ~ListedEnabled(p, i)
    IN /\ Listed(p, i)
       /\ local' = [local EXCEPT ![p][i].enabled = IF local[p][i].here THEN e ELSE @]
       /\ Send(p, j, "enable", {i}, "seed", e)
       /\ UNCHANGED form

TogglePublished(p, j) ==
  \E i \in Ids : /\ backed[p] /\ Listed(p, i)
                 /\ Send(p, j, "publish", {i}, "seed", ~ListedPublished(p, i))
                 /\ UNCHANGED <<local, form>>

\* handleDuplicate copies the record's question, then edits the copy.  The
\* copy's id is generated, so it is new.
CanDuplicate(p, i) == local[p][i].here

Duplicate(p, j) ==
  \E i \in Ids, copy \in Ids :
    /\ Listed(p, i) /\ CanDuplicate(p, i)
    /\ ~local[p][copy].here /\ rows[copy].state = "none"
    /\ Keep(p, {copy}, [here |-> TRUE, enabled |-> TRUE, body |-> local[p][i].body])
    /\ form' = [form EXCEPT ![p] = [id |-> copy, body |-> local[p][i].body]]
    /\ Send(p, j, "duplicate", {copy}, local[p][i].body, TRUE)

\* handleImportFile: a file of questions into the record and to the server.
ImportFile(p, j) ==
  \E ids \in SUBSET Ids \ {{}} :
    /\ Keep(p, ids \ LocalIds(p), [here |-> TRUE, enabled |-> TRUE, body |-> p])
    /\ Import(p, j, ids, [i \in Ids |-> p])
    /\ UNCHANGED form

\* handleMigrateLocal: whatever the record holds now.
MigrateLocal(p, j) ==
  /\ backed[p] /\ LocalIds(p) # {}
  /\ Import(p, j, LocalIds(p), [i \in Ids |-> local[p][i].body])
  /\ UNCHANGED <<local, form>>

\* handleBulkDelete and handleClearAll change the record only.
DeleteLocal(p) ==
  /\ ops[p] < MaxOps
  /\ \E ids \in SUBSET Ids \ {{}} :
       /\ \A i \in ids : Listed(p, i) \/ local[p][i].here
       /\ Keep(p, ids, NoItem)
       /\ ResetForm(p, ids)
  /\ ops' = [ops EXCEPT ![p] = @ + 1]
  /\ UNCHANGED <<rows, backed, entries, loaded, jobs, notice>>

\* The browser leaves the page and opens it again: only the record survives.
Reload(p) ==
  /\ ops[p] < MaxOps
  /\ ops' = [ops EXCEPT ![p] = @ + 1]
  /\ backed' = [backed EXCEPT ![p] = FALSE] /\ loaded' = [loaded EXCEPT ![p] = FALSE]
  /\ entries' = [entries EXCEPT ![p] = [i \in Ids |-> NoRow]]
  /\ form' = [form EXCEPT ![p] = <<>>]
  /\ jobs' = [jobs EXCEPT ![p] = [j \in Jobs |-> NoJob]]
  /\ notice' = [notice EXCEPT ![p] = "none"]
  /\ UNCHANGED <<rows, local>>

-----------------------------------------------------------------------------
\* The server handles a call.  An update carries no published field and no
\* version: it unpublishes, and it overwrites whatever is there.

Accepts(job, i) ==
  IF job.kind \in {"create", "duplicate"} THEN rows[i].state = "none" ELSE rows[i].state = "live"

AfterKeepingPublished(p, job, row) ==
  IF job.kind = "update" THEN [row EXCEPT !.enabled = job.flag, !.body = p]
  ELSE IF job.kind = "delete" THEN [row EXCEPT !.state = "deleted", !.enabled = FALSE, !.published = FALSE]
  ELSE IF job.kind = "enable" THEN [row EXCEPT !.enabled = job.flag]
  ELSE IF job.kind = "publish" THEN [row EXCEPT !.published = job.flag]
  ELSE [state |-> "live", enabled |-> TRUE, published |-> FALSE, body |-> p]
After(p, job, row) ==
  CASE job.kind = "create"    -> [state |-> "live", enabled |-> job.flag, published |-> FALSE, body |-> p]
    [] job.kind = "duplicate" -> [state |-> "live", enabled |-> TRUE, published |-> FALSE, body |-> job.from]
    [] job.kind = "update"    -> [row EXCEPT !.enabled = job.flag, !.published = FALSE, !.body = p]
    [] job.kind = "delete"    -> [row EXCEPT !.state = "deleted", !.enabled = FALSE, !.published = FALSE]
    [] job.kind = "enable"    -> [row EXCEPT !.enabled = job.flag]
    [] OTHER                  -> [row EXCEPT !.published = job.flag]

Handle(p, j) ==
  LET job == jobs[p][j]
      ok == job.kind = "import" \/ \A i \in job.ids : Accepts(job, i)
      written == {i \in job.ids : ok /\ (job.kind = "import" => rows[i].state = "none")}
  IN /\ job.step = "call"
     /\ rows' = [i \in Ids |-> IF i \notin written THEN rows[i]
                               ELSE IF job.kind = "import" THEN job.rows[i]
                               ELSE After(p, job, rows[i])]
     /\ SetJob(p, j, [job EXCEPT !.step = "answer", !.flag = ok, !.rows = [i \in Ids |-> NoRow]])
     /\ UNCHANGED <<local, backed, entries, loaded, form, notice, ops>>

\* A call that succeeded is followed by a load of the catalogue.
ReceiveAnswerNoReload(p, j) ==
  LET job == jobs[p][j]
  IN /\ job.step = "answer"
     /\ SetJob(p, j, NoJob)
     /\ notice' = [notice EXCEPT ![p] = IF job.flag THEN "loaded" ELSE "error"]
     /\ UNCHANGED <<rows, local, backed, entries, loaded, form, ops>>
ReceiveAnswer(p, j) ==
  LET job == jobs[p][j]
  IN /\ job.step = "answer"
     /\ IF job.flag
        THEN SetJob(p, j, [job EXCEPT !.step = "get"]) /\ UNCHANGED notice
        ELSE SetJob(p, j, NoJob) /\ notice' = [notice EXCEPT ![p] = "error"]
     /\ UNCHANGED <<rows, local, backed, entries, loaded, form, ops>>

HandleGet(p, j) ==
  /\ jobs[p][j].step = "get"
  /\ SetJob(p, j, [jobs[p][j] EXCEPT !.step = "list", !.rows = AdminList])
  /\ UNCHANGED <<rows, local, backed, entries, loaded, form, notice, ops>>

\* An import reports its own outcome after the load, however that went.
Report(kind, outcome) == IF kind = "import" THEN "migrated" ELSE outcome

ReceiveList(p, j) ==
  LET job == jobs[p][j]
  IN /\ job.step = "list"
     /\ local' = [local EXCEPT ![p] = Mirror(job.rows)]
     /\ entries' = [entries EXCEPT ![p] = job.rows]
     /\ loaded' = [loaded EXCEPT ![p] = TRUE]
     /\ notice' = [notice EXCEPT ![p] = Report(job.kind, "loaded")]
     /\ SetJob(p, j, NoJob)
     /\ UNCHANGED <<rows, backed, form, ops>>

\* A request or its answer is lost: before or after the server handled it.
LoseUnreported(p, j) ==
  /\ CallsFail /\ jobs[p][j].step # "idle"
  /\ SetJob(p, j, NoJob)
  /\ UNCHANGED <<rows, local, backed, entries, loaded, form, notice, ops>>
Lose(p, j) ==
  LET job == jobs[p][j]
  IN /\ CallsFail /\ job.step # "idle"
     /\ notice' = [notice EXCEPT ![p] = IF job.step \in {"get", "list"}
                                        THEN Report(job.kind, "error") ELSE "error"]
     /\ SetJob(p, j, NoJob)
     /\ UNCHANGED <<rows, local, backed, entries, loaded, form, ops>>

Operate(p, j) == \/ DetectSession(p, j) \/ SyncNow(p, j) \/ Create(p, j) \/ SaveEdit(p, j)
                 \/ Delete(p, j) \/ ToggleEnabled(p, j) \/ TogglePublished(p, j)
                 \/ Duplicate(p, j) \/ ImportFile(p, j) \/ MigrateLocal(p, j)

Network(p, j) == Handle(p, j) \/ ReceiveAnswer(p, j) \/ HandleGet(p, j) \/ ReceiveList(p, j)

PageNext == \E p \in Pages : \/ StartEdit(p) \/ DeleteLocal(p) \/ Reload(p)
                             \/ \E j \in Jobs : Operate(p, j) \/ Network(p, j) \/ Lose(p, j)

PageSpec == PageInit /\ [][PageNext]_pageVars
FairPageSpec == PageSpec /\ \A p \in Pages, j \in Jobs : WF_pageVars(Network(p, j) \/ Lose(p, j))

-----------------------------------------------------------------------------
\* Properties.

Quiet(p) == \A j \in Jobs : jobs[p][j].step = "idle"

\* A page whose panel says that the shared catalogue is loaded, with nothing
\* under way, shows what the server holds, and its browser offers learners
\* nothing but published questions in their stored text: true of a single
\* administrator who never overlaps two operations, whatever is lost.  With
\* overlapping operations the later of two lists may be the older one, although
\* each mutation says it reloads "so the list reflects the server".
SettledPageIsCurrent ==
  \A p \in Pages : Quiet(p) /\ notice[p] = "loaded" =>
    /\ entries[p] = AdminList
    /\ \A i \in LocalIds(p) : IsPublic(rows[i]) /\ local[p][i].body = rows[i].body

\* What a page may hold, and what it holds once it has settled.
PagesAreCurrent == PageTypeOK /\ SettledPageIsCurrent

\* A load adds nothing to what the browser offers learners that the server did
\* not publish: a question that appears without an operation of this page was
\* public in the list just applied.
LoadsOfferPublishedOnly ==
  [][\A p \in Pages, i \in Ids :
        i \in Offered(p)' \ Offered(p) /\ ops'[p] = ops[p] =>
          /\ IsPublic(entries'[p][i])
          /\ \E j \in Jobs : jobs[p][j].step = "list"]_pageVars

\* "A draft until an administrator explicitly publishes it": a text becomes
\* public by a publish or an enable that is handled after the text was stored,
\* never by an edit, an import, a duplicate or a lost answer.
TextIsPublishedSeparately ==
  [][\A i \in Ids :
        IsPublic(rows'[i]) /\ ~(IsPublic(rows[i]) /\ rows'[i].body = rows[i].body) =>
          /\ rows'[i].body = rows[i].body
          /\ \E p \in Pages, j \in Jobs : jobs[p][j].kind \in {"publish", "enable"}
                                       /\ i \in jobs[p][j].ids /\ jobs[p][j].step = "call"]_pageVars

\* Nothing becomes public by the way: neither on the server nor in a browser.
PublishingIsDeliberate == LoadsOfferPublishedOnly /\ TextIsPublishedSeparately

\* Whatever is lost on the way, an operation comes to an end: the panel does
\* not say "loading" for ever.
PanelSettles == \A p \in Pages : notice[p] = "loading" ~> notice[p] # "loading"
===============================================================================
