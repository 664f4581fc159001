--------------------------- MODULE PublicCatalogue ---------------------------
(***************************************************************************)
(* The public catalogue: GET /api/questions and GET /api/questions/:id of  *)
(* server/index.ts over server/store.ts, read through an HTTP cache that   *)
(* obeys the Cache-Control and the ETag of server/http.ts.  The page of    *)
(* rows and the total are two D1 statements; an editor may change the      *)
(* table between them.  Time is counted in ticks; Ttl ticks stand for the  *)
(* sixty seconds of max-age.  Ages stop counting at Ttl + 1: too old.      *)
(***************************************************************************)
EXTENDS Naturals, Sequences, FiniteSets

CONSTANTS Ids,           \* question ids
          Contents,      \* what a row may say: [engine, category, difficulty, rank]
          RowsOf,        \* RowsOf[i]: the rows an editor may store under id i
          Engines, Difficulties,  \* the values the two closed filters accept
          RefusedCategories,      \* categories too long, or with refused characters
          Urls,          \* the addresses a reader may ask for
          Limit,         \* PUBLIC_LIST_LIMIT
          Ttl,           \* max-age, in ticks
          Absent         \* no such query parameter; also no such row

ASSUME IdsAssumption == IsFiniteSet(Ids)
ASSUME LimitAssumption == Limit \in Nat \ {0}
ASSUME TtlAssumption == Ttl \in Nat \ {0}

VARIABLES rows,     \* the questions table
          url,      \* what the reader asks for
          req,      \* the reader's request, and its answer
          held,     \* the answer the cache holds for url
          recent    \* history: recent[i][v], how long ago i was last seen as v

vars == <<rows, url, req, held, recent>>

-----------------------------------------------------------------------------
Old == Ttl + 1
Ages == 0..Old
Older(a) == IF a < Old THEN a + 1 ELSE a

Rows == [enabled : BOOLEAN, published : BOOLEAN, deleted : BOOLEAN, content : Contents]
ASSUME RowsAssumption == RowsOf \in [Ids -> SUBSET Rows]

\* PUBLIC_PREDICATE.
IsPublic(r) == r # Absent /\ r.enabled /\ r.published /\ ~r.deleted
PublicIds == {i \in Ids : IsPublic(rows[i])}

\* What the public sees of a row: its content, or nothing.
View(r) == IF IsPublic(r) THEN r.content ELSE Absent

\* readFilter and requireAllowListed: an absent or a blank parameter is no
\* filter, and so is the word "All".
Blank(f) == f \in {Absent, ""}
IsRefused(u) ==
  IF u.kind = "one" THEN u.id \notin Ids
  ELSE \/ ~Blank(u.engine) /\ u.engine # "All" /\ u.engine \notin Engines
       \/ ~Blank(u.difficulty) /\ u.difficulty # "All" /\ u.difficulty \notin Difficulties
       \/ ~Blank(u.category) /\ u.category \in RefusedCategories

\* The conditions both statements of a listing are built from.
Narrows(f) == ~Blank(f) /\ f # "All"
Matching(u) ==
  {i \in PublicIds :
     /\ Narrows(u.engine) => rows[i].content.engine = u.engine
     /\ Narrows(u.category) => rows[i].content.category = u.category
     /\ Narrows(u.difficulty) => rows[i].content.difficulty = u.difficulty}

Least(a, b) == IF a < b THEN a ELSE b
RankOf(i) == rows[i].content.rank

\* The pages ORDER BY category, title LIMIT may return: rows of one category
\* and title come in any order.
PageSizes(u) == Least(Limit, Cardinality(Matching(u)))
Pages(u) ==
  {p \in [1..PageSizes(u) -> Matching(u)] :
     /\ \A j, k \in DOMAIN p : j < k => p[j] # p[k] /\ RankOf(p[j]) <= RankOf(p[k])
     /\ \A i \in Matching(u), j \in DOMAIN p :
          (\A k \in DOMAIN p : p[k] # i) => RankOf(p[j]) <= RankOf(i)}

Shown(p) == [j \in DOMAIN p |-> [id |-> p[j], content |-> rows[p[j]].content]]

\* The body of an answer.  count and truncated follow from page and total.
Payload(page, total) == [page |-> page, total |-> total]
Truncated(b) == b.total > Len(b.page)

\* computeEtag hashes the very bytes that are sent: equal tags, equal bodies.
TagOfIds(b) == [total |-> b.total, page |-> [j \in DOMAIN b.page |-> b.page[j].id]]
Tag(b) == b

-----------------------------------------------------------------------------
NoBody == Payload(<<>>, 0)

\* status is 0 while there is no answer.  sent holds the bodies whose tags
\* If-None-Match carries; quiet says that no row has changed since the first
\* statement; age counts from the moment of asking.
Idle == [phase |-> "idle", status |-> 0, sent |-> {}, body |-> NoBody,
         age |-> 0, quiet |-> FALSE]
NothingHeld == [status |-> 0, body |-> NoBody, age |-> Old]

Items == [id : Ids, content : Contents]
Payloads == [page : UNION {[1..n -> Items] : n \in 0..Limit}, total : 0..Cardinality(Ids)]

TypeOK ==
  /\ rows \in [Ids -> Rows \cup {Absent}]
  /\ url \in Urls
  /\ req \in [phase : {"idle", "asked", "selected", "sending", "done"},
              status : {0, 200, 304, 400, 404, 500}, sent : SUBSET Payloads,
              body : Payloads, age : Ages, quiet : BOOLEAN]
  /\ held \in [status : {0, 200}, body : Payloads, age : Ages]
  /\ recent \in [Ids -> [Contents \cup {Absent} -> Ages]]

Init ==
  /\ rows = [i \in Ids |-> Absent]
  /\ url \in Urls
  /\ req = Idle
  /\ held = NothingHeld
  /\ recent = [i \in Ids |-> [v \in Contents \cup {Absent} |-> IF v = Absent THEN 0 ELSE Old]]

-----------------------------------------------------------------------------
\* The reader's side: a fresh answer is used again without asking.
MayAsk == req.phase \in {"idle", "done"}

ReadHeld ==
  /\ MayAsk /\ held.status # 0 /\ held.age <= Ttl
  /\ req' = [Idle EXCEPT !.phase = "done", !.status = held.status, !.body = held.body]
  /\ UNCHANGED <<rows, url, held, recent>>

\* A stale answer, or one the reader reloads, is asked for again, with or
\* without its tag.
Ask ==
  /\ MayAsk
  /\ \E tags \in SUBSET (IF held.status = 0 THEN {} ELSE {held.body}) :
       req' = [Idle EXCEPT !.phase = "asked", !.sent = tags]
  /\ UNCHANGED <<rows, url, held, recent>>

\* parsePublicFilters and parseQuestionId throw before any statement runs.
Refuse ==
  /\ req.phase = "asked" /\ IsRefused(url)
  /\ req' = [Idle EXCEPT !.phase = "sending", !.status = 400]
  /\ UNCHANGED <<rows, url, held, recent>>

\* The first statement of a listing: the page.
SelectPage ==
  /\ req.phase = "asked" /\ url.kind = "list" /\ ~IsRefused(url)
  /\ \E p \in Pages(url) :
       req' = [req EXCEPT !.phase = "selected", !.body = Payload(Shown(p), 0), !.quiet = TRUE]
  /\ UNCHANGED <<rows, url, held, recent>>

\* matchesIfNoneMatch decides between a 200 and a 304.
WithStatus(b) == IF \E t \in req.sent : Tag(t) = Tag(b) THEN 304 ELSE 200

\* publicJson.
Sending(b) == [req EXCEPT !.phase = "sending", !.status = WithStatus(b), !.body = b]

\* The second statement: the total.
CountedOnPage(b) == [b EXCEPT !.total = Len(b.page)]
Counted(b) == [b EXCEPT !.total = Cardinality(Matching(url))]

Count ==
  /\ req.phase = "selected"
  /\ req' = Sending(Counted(req.body))
  /\ UNCHANGED <<rows, url, held, recent>>

\* A single question is one statement, whose miss is a 404.
Found(i) == [Sending(Payload(Shown(<<i>>), 1)) EXCEPT !.quiet = TRUE]
Missed == [req EXCEPT !.phase = "sending", !.status = 404, !.quiet = TRUE]

SelectOne ==
  /\ req.phase = "asked" /\ url.kind = "one" /\ ~IsRefused(url)
  /\ req' = IF url.id \in PublicIds THEN Found(url.id) ELSE Missed
  /\ UNCHANGED <<rows, url, held, recent>>

\* A statement throws, or the isolate goes: a 500.
Fail ==
  /\ req.phase \in {"asked", "selected"}
  /\ req' = [Idle EXCEPT !.phase = "sending", !.status = 500]
  /\ UNCHANGED <<rows, url, held, recent>>

\* Only the answers of publicJson may be kept: fail() says no-store.  A 304
\* carries the policy too, so what is held is as fresh as the answer is.
KeptForever(status) ==
  CASE status = 200 -> [status |-> 200, body |-> req.body, age |-> req.age]
    [] status # 200 -> [held EXCEPT !.age = req.age]
Kept(status) ==
  CASE status = 200 -> [status |-> 200, body |-> req.body, age |-> req.age]
    [] status = 304 -> [held EXCEPT !.age = req.age]
    [] OTHER -> held

\* The answer arrives; a reader that is told 304 shows what is held.
Arrive ==
  /\ req.phase = "sending"
  /\ held' = Kept(req.status)
  /\ req' = [req EXCEPT !.phase = "done", !.sent = {},
                        !.body = IF req.status = 304 THEN held.body ELSE @]
  /\ UNCHANGED <<rows, url, recent>>

\* The reader goes to another address, or the cache makes room: what was
\* held is not there when the reader comes back.
Forget ==
  /\ MayAsk
  /\ held' = NothingHeld
  /\ req' = Idle
  /\ UNCHANGED <<rows, url, recent>>

\* An editor stores a row: QuestionStore has the statements.  A deleted row
\* is never written again.
Edit ==
  /\ \E i \in Ids : \E r \in RowsOf[i] :
       /\ r # rows[i]
       /\ rows[i] # Absent => ~rows[i].deleted
       /\ rows' = [rows EXCEPT ![i] = r]
       /\ recent' = [recent EXCEPT ![i][View(r)] = 0]
  /\ req' = [req EXCEPT !.quiet = FALSE]
  /\ UNCHANGED <<url, held>>

\* Time passes.
Tick ==
  /\ recent' = [i \in Ids |-> [v \in Contents \cup {Absent} |->
                  IF v = View(rows[i]) THEN 0 ELSE Older(recent[i][v])]]
  /\ held' = [held EXCEPT !.age = Older(@)]
  /\ req' = IF req.phase = "idle" THEN req ELSE [req EXCEPT !.age = Older(@)]
  /\ UNCHANGED <<rows, url>>

Next ==
  \/ ReadHeld \/ Ask \/ Refuse \/ SelectPage \/ Count \/ SelectOne \/ Fail \/ Arrive
  \/ Forget \/ Edit \/ Tick

\* Time does not stop, and a reader keeps reading: what is held while it is
\* fresh, so that only time can make it ask the server again.
Fairness ==
  /\ WF_vars(Tick)
  /\ WF_vars(ReadHeld \/ Ask)

Spec == Init /\ [][Next]_vars /\ Fairness

-----------------------------------------------------------------------------
\* Whatever a cache may still show was shown to the public at most Ttl ago,
\* with that very content: unpublishing, disabling, deleting or rewriting a
\* question reaches every cached reader in the sixty seconds http.ts names,
\* whichever answers, 304s among them, the cache was refreshed by.
HeldWasPublicRecently ==
  held.status = 200 /\ held.age <= Ttl =>
    \A j \in DOMAIN held.body.page :
      recent[held.body.page[j].id][held.body.page[j].content] <= held.age

\* A reader that is told a question does not exist asked no earlier than the
\* question was last hidden: no cache pins a miss after it is published.
MissesAreTimely ==
  req.phase = "done" /\ req.status = 404 => recent[url.id][Absent] <= req.age

\* What a cache may still say is at most a minute out of date.
CacheIsTimely == TypeOK /\ HeldWasPublicRecently /\ MissesAreTimely

\* What a listing was asked for, by the words of the interface.
Wanted(u) ==
  {i \in Ids : /\ rows[i] # Absent
               /\ rows[i].enabled /\ rows[i].published /\ ~rows[i].deleted
               /\ u.engine \in {Absent, "", "All", rows[i].content.engine}
               /\ u.category \in {Absent, "", "All", rows[i].content.category}
               /\ u.difficulty \in {Absent, "", "All", rows[i].content.difficulty}}

\* A listing no edit interfered with shows wanted rows with their content,
\* leaves no row out that comes before one it shows, and says it is truncated
\* exactly when it leaves one out: its page and its total are two statements,
\* and a 304 stands for what the reader already has.
QuietListingIsHonest ==
  url.kind = "list" /\ req.phase = "done" /\ req.status \in {200, 304} /\ req.quiet =>
    LET page  == req.body.page
        shown == {page[j].id : j \in DOMAIN page} IN
    /\ shown \subseteq Wanted(url)
    /\ \A j \in DOMAIN page : page[j].content = rows[page[j].id].content
    /\ Truncated(req.body) <=> Wanted(url) \ shown # {}
    /\ \A i \in Wanted(url) \ shown, j \in DOMAIN page : RankOf(page[j].id) <= RankOf(i)

\* When the table no longer changes, every reader ends up being shown the
\* table as it is, whatever the caches held: a published question appears and
\* an unpublished one goes.
IsCurrent(b) ==
  \A i \in Ids :
    LET shown == {j \in DOMAIN b.page : b.page[j].id = i} IN
    /\ \A j \in shown : b.page[j].content = View(rows[i])
    /\ url.kind = "one" /\ url.id = i => IsPublic(rows[i]) /\ shown # {}
ReadersCatchUp ==
  <>[][FALSE]_rows =>
    <>[](req.phase = "done" /\ req.status \in {200, 304} => IsCurrent(req.body))
===============================================================================
