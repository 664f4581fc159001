------------------------ MODULE PublicCatalogueProofs ------------------------
(***************************************************************************)
(* Proofs about PublicCatalogue: whatever a cache may still show was public *)
(* no longer ago than the answer is old, through any number of 304s.        *)
(***************************************************************************)
EXTENDS PublicCatalogue, FiniteSetTheorems, TLAPS

\* The history follows the table: what is public now was seen just now.
NowIsRecent == \A i \in Ids : recent[i][View(rows[i])] = 0

\* The rows of a body were public at most age ticks ago, by the history h.
WasPublic(b, age, h) == \A j \in DOMAIN b.page : h[b.page[j].id][b.page[j].content] <= age

\* An answer that is on its way was public since it was asked for.
AnswerIsRecent ==
  \/ req.phase = "selected"
  \/ req.phase = "sending" /\ req.status \in {200, 304}
  => WasPublic(req.body, req.age, recent)

\* A request carries the tag of what is held and of nothing else, so that a
\* 304 stands for it.
TagIsOfHeld ==
  /\ req.phase \in {"asked", "selected", "sending"} => req.sent \subseteq {held.body}
  /\ req.phase = "sending" /\ req.status = 304 => req.body = held.body

HeldIsRecent == held.status = 200 => WasPublic(held.body, held.age, recent)

MissIsRecent ==
  req.phase \in {"sending", "done"} /\ req.status = 404 =>
    url.id \in Ids /\ recent[url.id][Absent] <= req.age

CacheInv ==
  TypeOK /\ NowIsRecent /\ AnswerIsRecent /\ TagIsOfHeld /\ HeldIsRecent /\ MissIsRecent

-------------------------------------------------------------------------------
LEMMA AgeFacts ==
  /\ Old \in Nat /\ Ttl \in Nat /\ 0 \in Ages /\ Ages \subseteq Nat
  /\ \A a \in Ages : Older(a) \in Ages
  /\ \A a, b \in Ages : a <= b => Older(a) <= Older(b)
  BY TtlAssumption DEF Ages, Old, Older

LEMMA AgesAreNumbers == \A a \in Ages : a \in Nat
  BY AgeFacts

LEMMA AgeingIsMonotone ==
  \A a, b \in Ages : a <= b => Older(a) <= Older(b) /\ Older(b) \in Nat
  BY AgeFacts

LEMMA ViewType == ASSUME NEW r \in Rows \cup {Absent} PROVE View(r) \in Contents \cup {Absent}
  BY DEF View, IsPublic, Rows

LEMMA EmptyBody == NoBody \in Payloads
<1>1. <<>> \in [1 .. 0 -> Items]
  OBVIOUS
<1>2. 0 \in 0 .. Limit
  BY LimitAssumption
<1>3. 0 \in 0 .. Cardinality(Ids)
  BY IdsAssumption, FS_CardinalityType
<1> QED
  BY <1>1, <1>2, <1>3 DEF NoBody, Payload, Payloads

LEMMA PageItems ==
  ASSUME NEW b \in Payloads, NEW j \in DOMAIN b.page
  PROVE  b.page[j].id \in Ids /\ b.page[j].content \in Contents
  BY DEF Payloads, Items

\* A history that only grows younger, or ages as the answer does, keeps an
\* answer recent.
LEMMA YoungerKeeps ==
  ASSUME NEW b \in Payloads, NEW age \in Ages, TypeOK, TypeOK', WasPublic(b, age, recent),
         \A i \in Ids, v \in Contents : recent'[i][v] <= recent[i][v]
  PROVE  WasPublic(b, age, recent')
<1> SUFFICES ASSUME NEW j \in DOMAIN b.page
             PROVE  recent'[b.page[j].id][b.page[j].content] <= age
  BY DEF WasPublic
<1> DEFINE i == b.page[j].id
           v == b.page[j].content
<1>1. i \in Ids /\ v \in Contents
  BY PageItems
<1>2. recent[i][v] \in Nat /\ recent'[i][v] \in Nat /\ age \in Nat
  <2>1. recent[i][v] \in Ages /\ recent'[i][v] \in Ages
    BY <1>1 DEF TypeOK
  <2> QED
    BY <2>1, AgeFacts
<1>3. recent[i][v] <= age /\ recent'[i][v] <= recent[i][v]
  BY <1>1 DEF WasPublic
<1> HIDE DEF i, v
<1> QED
  BY <1>2, <1>3 DEF i, v

LEMMA AgeingKeeps ==
  ASSUME NEW b \in Payloads, NEW age \in Ages, TypeOK, WasPublic(b, age, recent), Tick
  PROVE  WasPublic(b, Older(age), recent')
<1> SUFFICES ASSUME NEW j \in DOMAIN b.page
             PROVE  recent'[b.page[j].id][b.page[j].content] <= Older(age)
  BY DEF WasPublic
<1> DEFINE i == b.page[j].id
           v == b.page[j].content
<1>1. i \in Ids /\ v \in Contents
  BY PageItems
<1>2. recent[i][v] \in Ages /\ recent[i][v] <= age
  BY <1>1 DEF TypeOK, WasPublic
<1>3. recent'[i][v] = 0 \/ recent'[i][v] = Older(recent[i][v])
  BY <1>1 DEF Tick
<1>4. Older(recent[i][v]) <= Older(age) /\ Older(age) \in Nat
  BY <1>2, AgeFacts
<1> HIDE DEF i, v
<1> QED
  BY <1>3, <1>4 DEF i, v

-------------------------------------------------------------------------------
LEMMA CacheInit == Init => CacheInv
<1> SUFFICES ASSUME Init PROVE CacheInv
  OBVIOUS
<1> USE DEF Init
<1>1. TypeOK
  <2>1. rows \in [Ids -> Rows \cup {Absent}] /\ url \in Urls
    OBVIOUS
  <2>2. req \in [phase : {"idle", "asked", "selected", "sending", "done"},
                 status : {0, 200, 304, 400, 404, 500}, sent : SUBSET Payloads,
                 body : Payloads, age : Ages, quiet : BOOLEAN]
    BY EmptyBody, AgeFacts DEF Idle
  <2>3. held \in [status : {0, 200}, body : Payloads, age : Ages]
    BY EmptyBody, AgeFacts DEF NothingHeld, Ages
  <2>4. recent \in [Ids -> [Contents \cup {Absent} -> Ages]]
    BY AgeFacts DEF Ages
  <2> QED
    BY <2>1, <2>2, <2>3, <2>4 DEF TypeOK
<1>2. NowIsRecent
  BY DEF NowIsRecent, View, IsPublic
<1> QED
  BY <1>1, <1>2 DEF CacheInv, AnswerIsRecent, TagIsOfHeld, HeldIsRecent, MissIsRecent,
                    Idle, NothingHeld

\* The body of a page is public as it is shown.
LEMMA ShownPage ==
  ASSUME TypeOK, NowIsRecent, NEW p \in Pages(url)
  PROVE  /\ Payload(Shown(p), 0) \in Payloads
         /\ \A age \in Ages : WasPublic(Payload(Shown(p), 0), age, recent)
<1> DEFINE n == PageSizes(url)
<1>1. Matching(url) \subseteq PublicIds /\ PublicIds \subseteq Ids
  BY DEF Matching, PublicIds
<1>2. Cardinality(Matching(url)) \in Nat /\ Cardinality(Ids) \in Nat
  BY <1>1, IdsAssumption, FS_Subset, FS_CardinalityType
<1>3. n \in 0 .. Limit
  BY <1>2, LimitAssumption DEF PageSizes, Least
<1>4. p \in [1 .. n -> Matching(url)]
  BY DEF Pages
<1>5. \A j \in 1 .. n : /\ p[j] \in Ids /\ IsPublic(rows[p[j]])
                        /\ rows[p[j]].content \in Contents
                        /\ recent[p[j]][rows[p[j]].content] = 0
  BY <1>1, <1>4 DEF PublicIds, NowIsRecent, View, TypeOK, IsPublic, Rows
<1> HIDE DEF n
<1>6. Shown(p) \in [1 .. n -> Items]
  BY <1>4, <1>5 DEF Shown, Items
<1>7. Payload(Shown(p), 0) \in Payloads
  BY <1>2, <1>3, <1>6 DEF Payload, Payloads
<1>8. ASSUME NEW age \in Ages, NEW j \in DOMAIN Payload(Shown(p), 0).page
      PROVE  LET b == Payload(Shown(p), 0)
             IN recent[b.page[j].id][b.page[j].content] <= age
  <2>1. j \in 1 .. n
    BY <1>4, <1>8 DEF Payload, Shown
  <2>2. Shown(p)[j] = [id |-> p[j], content |-> rows[p[j]].content]
    BY <2>1, <1>4 DEF Shown
  <2>3. age \in Nat
    BY AgeFacts
  <2> QED
    BY <2>1, <2>2, <2>3, <1>5 DEF Payload
<1> QED
  BY <1>7, <1>8 DEF WasPublic

LEMMA ShownQuestion ==
  ASSUME TypeOK, NowIsRecent, url.id \in PublicIds
  PROVE  /\ Payload(Shown(<<url.id>>), 1) \in Payloads
         /\ \A age \in Ages : WasPublic(Payload(Shown(<<url.id>>), 1), age, recent)
<1> DEFINE i == url.id
<1>1. /\ i \in Ids /\ IsPublic(rows[i]) /\ rows[i].content \in Contents
      /\ recent[i][rows[i].content] = 0
  BY DEF PublicIds, NowIsRecent, View, TypeOK, IsPublic, Rows
<1>2. Cardinality(Ids) \in Nat \ {0}
  BY <1>1, IdsAssumption, FS_CardinalityType, FS_EmptySet
<1>3. Shown(<<i>>) = [j \in 1 .. 1 |-> [id |-> i, content |-> rows[i].content]]
  BY DEF Shown
<1> HIDE DEF i
<1>4. Shown(<<i>>) \in [1 .. 1 -> Items]
  BY <1>1, <1>3 DEF Items
<1>5. 1 \in 0 .. Limit /\ 1 \in 0 .. Cardinality(Ids)
  BY <1>2, LimitAssumption
<1>6. Payload(Shown(<<i>>), 1) \in Payloads
  BY <1>4, <1>5 DEF Payload, Payloads
<1>7. \A age \in Ages : WasPublic(Payload(Shown(<<i>>), 1), age, recent)
  BY <1>1, <1>3, AgeFacts DEF WasPublic, Payload
<1> QED
  BY <1>6, <1>7 DEF i

-------------------------------------------------------------------------------
Phases == {"idle", "asked", "selected", "sending", "done"}
Statuses == {0, 200, 304, 400, 404, 500}
Requests == [phase : Phases, status : Statuses, sent : SUBSET Payloads,
             body : Payloads, age : Ages, quiet : BOOLEAN]
Answers == [status : {0, 200}, body : Payloads, age : Ages]

LEMMA Shapes ==
  TypeOK <=> /\ rows \in [Ids -> Rows \cup {Absent}] /\ url \in Urls
             /\ req \in Requests /\ held \in Answers
             /\ recent \in [Ids -> [Contents \cup {Absent} -> Ages]]
  BY DEF TypeOK, Requests, Answers, Phases, Statuses

LEMMA RequestShape ==
  ASSUME NEW q \in Requests
  PROVE  /\ q.body \in Payloads /\ q.age \in Ages /\ q.sent \subseteq Payloads
         /\ \A p \in Phases, c \in Statuses : [q EXCEPT !.phase = p, !.status = c] \in Requests
         /\ \A p \in Phases, c \in Statuses :
              [q EXCEPT !.phase = p, !.status = c, !.quiet = TRUE] \in Requests
         /\ \A p \in Phases, c \in Statuses, b \in Payloads :
              [q EXCEPT !.phase = p, !.status = c, !.body = b] \in Requests
         /\ \A p \in Phases, b \in Payloads :
              [q EXCEPT !.phase = p, !.sent = {}, !.body = b] \in Requests
         /\ \A p \in Phases, b \in Payloads :
              [q EXCEPT !.phase = p, !.body = b, !.quiet = TRUE] \in Requests
         /\ \A t \in BOOLEAN : [q EXCEPT !.quiet = t] \in Requests
         /\ \A a \in Ages : [q EXCEPT !.age = a] \in Requests
         /\ \A p \in Phases, s \in SUBSET Payloads :
              [q EXCEPT !.phase = p, !.sent = s] \in Requests
  BY DEF Requests

LEMMA IdleShape == Idle \in Requests
  BY EmptyBody, AgeFacts DEF Idle, Requests, Phases, Statuses

LEMMA CacheTypes == CacheInv /\ [Next]_vars => TypeOK'
<1> SUFFICES ASSUME CacheInv, [Next]_vars PROVE TypeOK'
  OBVIOUS
<1>0. /\ rows \in [Ids -> Rows \cup {Absent}] /\ url \in Urls
      /\ req \in Requests /\ held \in Answers
      /\ recent \in [Ids -> [Contents \cup {Absent} -> Ages]]
  BY Shapes DEF CacheInv
<1> SUFFICES /\ rows' \in [Ids -> Rows \cup {Absent}] /\ url' \in Urls
             /\ req' \in Requests /\ held' \in Answers
             /\ recent' \in [Ids -> [Contents \cup {Absent} -> Ages]]
  BY DEF TypeOK, Requests, Answers, Phases, Statuses
<1>t. {"idle", "asked", "selected", "sending", "done"} \subseteq Phases
  BY DEF Phases
<1>u. {0, 200, 304, 400, 404, 500} \subseteq Statuses
  BY DEF Statuses
<1>i. /\ \A p \in Phases, c \in Statuses : [Idle EXCEPT !.phase = p, !.status = c] \in Requests
      /\ \A p \in Phases, s \in SUBSET Payloads :
           [Idle EXCEPT !.phase = p, !.sent = s] \in Requests
  BY IdleShape, RequestShape
<1>p. \A p \in Phases, b \in Payloads :
        /\ [req EXCEPT !.phase = p, !.sent = {}, !.body = b] \in Requests
        /\ [req EXCEPT !.phase = p, !.body = b, !.quiet = TRUE] \in Requests
  BY <1>0, RequestShape
<1>m. \A p \in Phases, c \in Statuses :
        [req EXCEPT !.phase = p, !.status = c, !.quiet = TRUE] \in Requests
  BY <1>0, RequestShape
<1>a. \A a \in Ages : [req EXCEPT !.age = a] \in Requests
  BY <1>0, RequestShape
<1>1. CASE UNCHANGED vars
  BY <1>0, <1>1 DEF vars
<1>2. CASE ReadHeld
  <2>1. held.status \in Statuses /\ held.body \in Payloads
    BY <1>0, <1>u DEF Answers
  <2>2. req' \in Requests
    BY <1>2, <1>t, <2>1, IdleShape, RequestShape DEF ReadHeld
  <2> QED
    BY <1>0, <1>2, <2>2 DEF ReadHeld
<1>3. CASE Ask
  <2>1. held.body \in Payloads
    BY <1>0 DEF Answers
  <2>2. \E tags \in SUBSET Payloads : req' = [Idle EXCEPT !.phase = "asked", !.sent = tags]
    BY <1>3, <2>1 DEF Ask
  <2>3. req' \in Requests
    BY <1>i, <1>t, <2>2
  <2> QED
    BY <1>0, <1>3, <2>3 DEF Ask
<1>4. CASE Refuse
  <2>1. req' \in Requests
    BY <1>4, <1>i, <1>t, <1>u DEF Refuse
  <2> QED
    BY <1>0, <1>4, <2>1 DEF Refuse
<1>5. CASE SelectPage
  <2>1. req' \in Requests
    <3>1. PICK p \in Pages(url) :
            req' = [req EXCEPT !.phase = "selected", !.body = Payload(Shown(p), 0), !.quiet = TRUE]
      BY <1>5 DEF SelectPage
    <3>2. Payload(Shown(p), 0) \in Payloads
      BY ShownPage DEF CacheInv
    <3> QED
      BY <1>p, <1>t, <3>1, <3>2
  <2> QED
    BY <1>0, <1>5, <2>1 DEF SelectPage
<1>6. CASE Count
  <2>1. Cardinality(Matching(url)) \in 0 .. Cardinality(Ids)
    <3>1. Matching(url) \subseteq Ids
      BY DEF Matching, PublicIds
    <3> QED
      BY <3>1, IdsAssumption, FS_Subset, FS_CardinalityType
  <2>2. Counted(req.body) \in Payloads
    BY <1>0, <2>1, RequestShape DEF Counted, Payloads, Requests
  <2>3. WithStatus(Counted(req.body)) \in Statuses
    BY <1>u DEF WithStatus
  <2>4. req' \in Requests
    BY <1>0, <1>6, <1>t, <2>2, <2>3, RequestShape DEF Count, Sending
  <2> QED
    BY <1>0, <1>6, <2>4 DEF Count
<1>7. CASE SelectOne
  <2>1. CASE url.id \in PublicIds
    <3> DEFINE b == Payload(Shown(<<url.id>>), 1)
    <3>1. b \in Payloads
      BY <2>1, ShownQuestion DEF CacheInv
    <3>2. WithStatus(b) \in Statuses
      BY <1>u DEF WithStatus
    <3> HIDE DEF b
    <3>3. Sending(b) \in Requests
      BY <1>0, <1>t, <3>1, <3>2, RequestShape DEF Sending
    <3>4. [Sending(b) EXCEPT !.quiet = TRUE] \in Requests
      BY <1>t, <3>3, RequestShape
    <3>5. req' \in Requests
      BY <1>7, <2>1, <3>4 DEF SelectOne, Found, b
    <3> QED
      BY <1>0, <1>7, <3>5 DEF SelectOne
  <2>2. CASE url.id \notin PublicIds
    <3>1. req' \in Requests
      BY <1>7, <1>m, <1>t, <1>u, <2>2 DEF SelectOne, Missed
    <3> QED
      BY <1>0, <1>7, <3>1 DEF SelectOne
  <2> QED
    BY <2>1, <2>2
<1>8. CASE Fail
  <2>1. req' \in Requests
    <3>1. req' = [Idle EXCEPT !.phase = "sending", !.status = 500]
      BY <1>8 DEF Fail
    <3> QED
      BY <1>i, <1>t, <1>u, <3>1
  <2> QED
    BY <1>0, <1>8, <2>1 DEF Fail
<1>9. CASE Arrive
  <2>1. req.body \in Payloads /\ req.age \in Ages /\ held.body \in Payloads
    BY <1>0 DEF Requests, Answers
  <2>2. held' \in Answers
    BY <1>0, <1>9, <2>1 DEF Arrive, Kept, Answers
  <2>3. req' \in Requests
    <3>1. CASE req.status = 304
      <4>1. req' = [req EXCEPT !.phase = "done", !.sent = {}, !.body = held.body]
        BY <1>9, <3>1 DEF Arrive
      <4> QED
        BY <1>p, <1>t, <2>1, <4>1
    <3>2. CASE req.status # 304
      <4>1. req' = [req EXCEPT !.phase = "done", !.sent = {}, !.body = req.body]
        BY <1>9, <3>2 DEF Arrive
      <4> QED
        BY <1>p, <1>t, <2>1, <4>1
    <3> QED
      BY <3>1, <3>2
  <2> QED
    BY <1>0, <1>9, <2>2, <2>3 DEF Arrive
<1>10. CASE Forget
  <2>1. held' \in Answers
    <3>1. Old \in Ages
      BY AgeFacts DEF Ages
    <3> QED
      BY <1>10, <3>1, EmptyBody DEF Forget, NothingHeld, Answers
  <2> QED
    BY <1>0, <1>10, <2>1, IdleShape DEF Forget
<1>11. CASE Edit
  <2>1. req' \in Requests
    BY <1>0, <1>11, <1>t, RequestShape DEF Edit
  <2> PICK i \in Ids : \E r \in RowsOf[i] :
           /\ rows' = [rows EXCEPT ![i] = r]
           /\ recent' = [recent EXCEPT ![i][View(r)] = 0]
    BY <1>11 DEF Edit
  <2>2. PICK r \in RowsOf[i] :
           /\ rows' = [rows EXCEPT ![i] = r]
           /\ recent' = [recent EXCEPT ![i][View(r)] = 0]
    OBVIOUS
  <2>3. r \in Rows
    BY RowsAssumption
  <2>4. View(r) \in Contents \cup {Absent}
    BY <2>3, ViewType
  <2>5. rows' \in [Ids -> Rows \cup {Absent}]
    BY <1>0, <2>2, <2>3
  <2>6. recent' \in [Ids -> [Contents \cup {Absent} -> Ages]]
    BY <1>0, <2>2, <2>4, AgeFacts
  <2> QED
    BY <1>0, <1>11, <2>1, <2>5, <2>6 DEF Edit
<1>12. CASE Tick
  <2>1. req' \in Requests /\ held' \in Answers
    <3>1. Older(req.age) \in Ages /\ Older(held.age) \in Ages
      BY <1>0, AgeFacts DEF Requests, Answers
    <3>2. held' \in Answers
      BY <1>0, <1>12, <3>1 DEF Tick, Answers
    <3>3. req' \in {req, [req EXCEPT !.age = Older(req.age)]}
      BY <1>12 DEF Tick
    <3> QED
      BY <1>0, <1>a, <3>1, <3>2, <3>3
  <2>2. recent' \in [Ids -> [Contents \cup {Absent} -> Ages]]
    BY <1>0, <1>12, AgeFacts DEF Tick
  <2> QED
    BY <1>0, <1>12, <2>1, <2>2 DEF Tick
<1> QED
  BY <1>1, <1>2, <1>3, <1>4, <1>5, <1>6, <1>7, <1>8, <1>9, <1>10, <1>11, <1>12 DEF Next

-------------------------------------------------------------------------------
\* What a step does to the history: an edit makes it younger, and time older.
LEMMA Younger ==
  ASSUME TypeOK, Edit
  PROVE  \A i \in Ids, v \in Contents \cup {Absent} : recent'[i][v] <= recent[i][v]
<1> PICK i \in Ids : \E r \in RowsOf[i] : recent' = [recent EXCEPT ![i][View(r)] = 0]
  BY DEF Edit
<1>1. PICK r \in RowsOf[i] : recent' = [recent EXCEPT ![i][View(r)] = 0]
  OBVIOUS
<1>2. View(r) \in Contents \cup {Absent}
  BY RowsAssumption, ViewType
<1>3. \A j \in Ids, v \in Contents \cup {Absent} : recent[j][v] \in Nat
  <2>1. \A j \in Ids, v \in Contents \cup {Absent} : recent[j][v] \in Ages
    BY DEF TypeOK
  <2> QED
    BY <2>1, AgeFacts
<1> QED
  BY <1>1, <1>2, <1>3 DEF TypeOK

LEMMA NowStep == CacheInv /\ TypeOK' /\ [Next]_vars => NowIsRecent'
<1> SUFFICES ASSUME CacheInv, TypeOK', [Next]_vars, NEW j \in Ids
             PROVE  recent'[j][View(rows[j])'] = 0
  BY DEF NowIsRecent
<1>0. TypeOK /\ recent[j][View(rows[j])] = 0
  BY DEF CacheInv, NowIsRecent
<1>1. View(rows[j]) \in Contents \cup {Absent} /\ View(rows'[j]) \in Contents \cup {Absent}
  BY ViewType DEF TypeOK, CacheInv
<1>2. CASE Edit
  <2> PICK i \in Ids : \E r \in RowsOf[i] : /\ rows' = [rows EXCEPT ![i] = r]
                                            /\ recent' = [recent EXCEPT ![i][View(r)] = 0]
    BY <1>2 DEF Edit
  <2>1. PICK r \in RowsOf[i] : /\ rows' = [rows EXCEPT ![i] = r]
                               /\ recent' = [recent EXCEPT ![i][View(r)] = 0]
    OBVIOUS
  <2>2. View(r) \in Contents \cup {Absent}
    BY RowsAssumption, ViewType
  <2>3. CASE i = j
    <3>1. rows'[j] = r
      BY <1>0, <2>1, <2>3 DEF TypeOK
    <3> QED
      BY <1>0, <2>1, <2>2, <2>3, <3>1 DEF TypeOK
  <2>4. CASE i # j
    <3>1. rows'[j] = rows[j] /\ recent'[j] = recent[j]
      BY <1>0, <2>1, <2>4 DEF TypeOK
    <3> QED
      BY <1>0, <3>1
  <2> QED
    BY <2>3, <2>4
<1>3. CASE Tick
  BY <1>1, <1>3 DEF Tick
<1>4. CASE rows' = rows /\ recent' = recent
  BY <1>0, <1>4
<1> QED
  BY <1>2, <1>3, <1>4 DEF Next, vars, ReadHeld, Ask, Refuse, SelectPage, Count, SelectOne,
                          Fail, Arrive, Forget

LEMMA AnswerStep == CacheInv /\ TypeOK' /\ [Next]_vars => AnswerIsRecent'
<1> SUFFICES ASSUME CacheInv, TypeOK', [Next]_vars,
                    \/ req'.phase = "selected"
                    \/ req'.phase = "sending" /\ req'.status \in {200, 304}
             PROVE  WasPublic(req'.body, req'.age, recent')
  BY DEF AnswerIsRecent
<1>0. /\ TypeOK /\ NowIsRecent /\ AnswerIsRecent
      /\ req \in Requests /\ held \in Answers /\ req.body \in Payloads /\ req.age \in Ages
  BY Shapes DEF CacheInv, Requests
<1>1. CASE SelectPage
  <2>1. PICK p \in Pages(url) :
          req' = [req EXCEPT !.phase = "selected", !.body = Payload(Shown(p), 0), !.quiet = TRUE]
    BY <1>1 DEF SelectPage
  <2>2. req'.body = Payload(Shown(p), 0) /\ req'.age = req.age /\ recent' = recent
    BY <1>0, <1>1, <2>1 DEF SelectPage, Requests
  <2> QED
    BY <1>0, <2>2, ShownPage
<1>2. CASE Count
  <2>1. req' = [req EXCEPT !.phase = "sending", !.status = WithStatus(Counted(req.body)),
                           !.body = Counted(req.body)]
    BY <1>2 DEF Count, Sending
  <2>2. req'.body = Counted(req.body) /\ req'.age = req.age /\ recent' = recent
    BY <1>0, <1>2, <2>1 DEF Count, Requests
  <2>3. Counted(req.body).page = req.body.page
    BY <1>0 DEF Counted, Payloads
  <2>4. WasPublic(req.body, req.age, recent)
    BY <1>0, <1>2 DEF AnswerIsRecent, Count
  <2> QED
    BY <2>2, <2>3, <2>4 DEF WasPublic
<1>3. CASE SelectOne
  <2>1. CASE url.id \in PublicIds
    <3> DEFINE b == Payload(Shown(<<url.id>>), 1)
    <3>1. req' = [[req EXCEPT !.phase = "sending", !.status = WithStatus(b), !.body = b]
                    EXCEPT !.quiet = TRUE]
      BY <1>3, <2>1 DEF SelectOne, Found, Sending
    <3>2. WasPublic(b, req.age, recent)
      BY <1>0, <2>1, ShownQuestion
    <3>3. recent' = recent
      BY <1>3 DEF SelectOne
    <3> HIDE DEF b
    <3>4. req'.body = b /\ req'.age = req.age
      BY <1>0, <3>1 DEF Requests
    <3> QED
      BY <3>2, <3>3, <3>4
  <2>2. CASE url.id \notin PublicIds
    <3>1. req' = [req EXCEPT !.phase = "sending", !.status = 404, !.quiet = TRUE]
      BY <1>3, <2>2 DEF SelectOne, Missed
    <3>2. req'.phase = "sending" /\ req'.status = 404
      BY <1>0, <3>1 DEF Requests
    <3> QED
      BY <3>2
  <2> QED
    BY <2>1, <2>2
<1>4. CASE Edit
  <2>1. req' = [req EXCEPT !.quiet = FALSE]
    BY <1>4 DEF Edit
  <2>2. /\ req'.phase = req.phase /\ req'.status = req.status
        /\ req'.body = req.body /\ req'.age = req.age
    BY <1>0, <2>1 DEF Requests
  <2>3. WasPublic(req.body, req.age, recent)
    BY <1>0, <2>2 DEF AnswerIsRecent
  <2>4. WasPublic(req.body, req.age, recent')
    BY <1>0, <1>4, <2>3, Younger, YoungerKeeps
  <2> QED
    BY <2>2, <2>4
<1>5. CASE Tick
  <2>1. req.phase # "idle"
    BY <1>5 DEF Tick
  <2>2. req' = [req EXCEPT !.age = Older(req.age)]
    BY <1>5, <2>1 DEF Tick
  <2>3. /\ req'.phase = req.phase /\ req'.status = req.status
        /\ req'.body = req.body /\ req'.age = Older(req.age)
    BY <1>0, <2>2 DEF Requests
  <2>4. WasPublic(req.body, req.age, recent)
    BY <1>0, <2>3 DEF AnswerIsRecent
  <2>5. WasPublic(req.body, Older(req.age), recent')
    BY <1>0, <1>5, <2>4, AgeingKeeps
  <2> QED
    BY <2>3, <2>5
<1>6. CASE Refuse
  BY <1>6 DEF Refuse, Idle
<1>7. CASE Fail
  BY <1>7 DEF Fail, Idle
<1>8. CASE ReadHeld \/ Ask \/ Forget
  <2>1. req'.phase \notin {"selected", "sending"}
    <3>1. CASE ReadHeld
      BY <3>1 DEF ReadHeld, Idle
    <3>2. CASE Ask
      BY <3>2 DEF Ask, Idle
    <3>3. CASE Forget
      BY <3>3 DEF Forget, Idle
    <3> QED
      BY <1>8, <3>1, <3>2, <3>3
  <2> QED
    BY <2>1
<1>9. CASE Arrive
  BY <1>0, <1>9 DEF Arrive, Requests
<1>10. CASE UNCHANGED vars
  BY <1>0, <1>10 DEF AnswerIsRecent, vars
<1> QED
  BY <1>1, <1>2, <1>3, <1>4, <1>5, <1>6, <1>7, <1>8, <1>9, <1>10 DEF Next

LEMMA TagStep == CacheInv /\ [Next]_vars => TagIsOfHeld'
<1> SUFFICES ASSUME CacheInv, [Next]_vars PROVE TagIsOfHeld'
  OBVIOUS
<1>0. TagIsOfHeld /\ req \in Requests /\ held \in Answers
  BY Shapes DEF CacheInv
<1>1. CASE ReadHeld \/ Forget
  <2>1. req'.phase \in {"idle", "done"}
    <3>1. CASE ReadHeld
      BY <3>1 DEF ReadHeld, Idle
    <3>2. CASE Forget
      BY <3>2 DEF Forget, Idle
    <3> QED
      BY <1>1, <3>1, <3>2
  <2> QED
    BY <2>1 DEF TagIsOfHeld
<1>2. CASE Ask
  <2>1. req'.phase = "asked" /\ req'.sent \subseteq {held.body} /\ held' = held
    BY <1>2 DEF Ask, Idle
  <2> QED
    BY <2>1 DEF TagIsOfHeld
<1>3. CASE Refuse \/ Fail
  <2>1. req'.phase = "sending" /\ req'.status \in {400, 500} /\ req'.sent = {}
    <3>1. CASE Refuse
      BY <3>1 DEF Refuse, Idle
    <3>2. CASE Fail
      BY <3>2 DEF Fail, Idle
    <3> QED
      BY <1>3, <3>1, <3>2
  <2> QED
    BY <2>1 DEF TagIsOfHeld
<1>4. CASE SelectPage
  <2>1. req'.phase = "selected" /\ req'.sent = req.sent /\ held' = held /\ req.phase = "asked"
    BY <1>0, <1>4 DEF SelectPage, Requests
  <2> QED
    BY <1>0, <2>1 DEF TagIsOfHeld
<1>5. ASSUME NEW b, req.phase \in {"asked", "selected"}, held' = held, req'.sent = req.sent,
             req'.phase = "sending", req'.status = WithStatus(b), req'.body = b
      PROVE  TagIsOfHeld'
  BY <1>0, <1>5 DEF TagIsOfHeld, WithStatus, Tag
<1>6. CASE Count
  <2>1. /\ req.phase = "selected" /\ held' = held /\ req'.sent = req.sent
        /\ req'.phase = "sending" /\ req'.status = WithStatus(Counted(req.body))
        /\ req'.body = Counted(req.body)
    BY <1>0, <1>6 DEF Count, Sending, Requests
  <2> QED
    BY <1>5, <2>1
<1>7. CASE SelectOne /\ url.id \in PublicIds
  <2> DEFINE b == Payload(Shown(<<url.id>>), 1)
  <2>1. req' = [[req EXCEPT !.phase = "sending", !.status = WithStatus(b), !.body = b]
                  EXCEPT !.quiet = TRUE]
    BY <1>7 DEF SelectOne, Found, Sending
  <2>2. req.phase = "asked" /\ held' = held
    BY <1>7 DEF SelectOne
  <2> HIDE DEF b
  <2>3. /\ req'.sent = req.sent /\ req'.phase = "sending" /\ req'.status = WithStatus(b)
        /\ req'.body = b
    BY <1>0, <2>1 DEF Requests
  <2> QED
    BY <1>5, <2>2, <2>3
<1>8. CASE SelectOne /\ url.id \notin PublicIds
  <2>1. req' = [req EXCEPT !.phase = "sending", !.status = 404, !.quiet = TRUE]
    BY <1>8 DEF SelectOne, Missed
  <2>2. /\ req'.phase = "sending" /\ req'.status = 404 /\ req'.sent = req.sent
        /\ req.phase = "asked" /\ held' = held
    BY <1>0, <1>8, <2>1 DEF SelectOne, Requests
  <2> QED
    BY <1>0, <2>2 DEF TagIsOfHeld
<1>9. CASE Arrive
  <2>1. req'.phase = "done"
    BY <1>0, <1>9 DEF Arrive, Requests
  <2> QED
    BY <2>1 DEF TagIsOfHeld
<1>10. ASSUME req'.phase = req.phase, req'.status = req.status, req'.body = req.body,
              req'.sent = req.sent, held'.body = held.body
       PROVE  TagIsOfHeld'
  BY <1>0, <1>10 DEF TagIsOfHeld
<1>11. CASE Edit
  <2>1. req' = [req EXCEPT !.quiet = FALSE] /\ held' = held
    BY <1>11 DEF Edit
  <2> QED
    BY <1>0, <1>10, <2>1 DEF Requests
<1>12. CASE Tick
  <2>1. req' = req \/ req' = [req EXCEPT !.age = Older(req.age)]
    BY <1>12 DEF Tick
  <2>2. held'.body = held.body
    BY <1>0, <1>12 DEF Tick, Answers
  <2> QED
    BY <1>0, <1>10, <2>1, <2>2 DEF Requests
<1>13. CASE UNCHANGED vars
  BY <1>10, <1>13 DEF vars
<1> QED
  BY <1>1, <1>2, <1>3, <1>4, <1>6, <1>7, <1>8, <1>9, <1>11, <1>12, <1>13 DEF Next

LEMMA HeldStep == CacheInv /\ TypeOK' /\ [Next]_vars => HeldIsRecent'
<1> SUFFICES ASSUME CacheInv, TypeOK', [Next]_vars, held'.status = 200
             PROVE  WasPublic(held'.body, held'.age, recent')
  BY DEF HeldIsRecent
<1>0. /\ TypeOK /\ AnswerIsRecent /\ TagIsOfHeld /\ HeldIsRecent
      /\ req \in Requests /\ held \in Answers /\ held.body \in Payloads /\ held.age \in Ages
  BY Shapes DEF CacheInv, Answers
<1>1. CASE Arrive
  <2>1. req.phase = "sending" /\ held' = Kept(req.status) /\ recent' = recent
    BY <1>1 DEF Arrive
  <2>2. CASE req.status = 200
    <3>1. held'.body = req.body /\ held'.age = req.age
      BY <2>1, <2>2 DEF Kept
    <3> QED
      BY <1>0, <2>1, <2>2, <3>1 DEF AnswerIsRecent
  <2>3. CASE req.status = 304
    <3>1. held' = [held EXCEPT !.age = req.age]
      BY <2>1, <2>3 DEF Kept
    <3>2. held'.body = held.body /\ held'.age = req.age /\ req.body = held.body
      BY <1>0, <2>1, <2>3, <3>1 DEF Answers, TagIsOfHeld
    <3> QED
      BY <1>0, <2>1, <2>3, <3>2 DEF AnswerIsRecent
  <2>4. CASE req.status \notin {200, 304}
    <3>1. held' = held
      BY <2>1, <2>4 DEF Kept
    <3> QED
      BY <1>0, <2>1, <3>1 DEF HeldIsRecent
  <2> QED
    BY <2>2, <2>3, <2>4
<1>2. CASE Forget
  BY <1>2 DEF Forget, NothingHeld
<1>3. CASE Edit
  <2>1. held' = held
    BY <1>3 DEF Edit
  <2> QED
    BY <1>0, <1>3, <2>1, Younger, YoungerKeeps DEF HeldIsRecent
<1>4. CASE Tick
  <2>1. held' = [held EXCEPT !.age = Older(held.age)]
    BY <1>4 DEF Tick
  <2>2. held'.status = held.status /\ held'.body = held.body /\ held'.age = Older(held.age)
    BY <1>0, <2>1 DEF Answers
  <2> QED
    BY <1>0, <1>4, <2>2, AgeingKeeps DEF HeldIsRecent
<1>5. CASE held' = held /\ recent' = recent
  BY <1>0, <1>5 DEF HeldIsRecent
<1> QED
  BY <1>1, <1>2, <1>3, <1>4, <1>5 DEF Next, vars, ReadHeld, Ask, Refuse, SelectPage, Count,
                                      SelectOne, Fail

LEMMA MissStep == CacheInv /\ TypeOK' /\ [Next]_vars => MissIsRecent'
<1> SUFFICES ASSUME CacheInv, TypeOK', [Next]_vars,
                    req'.phase \in {"sending", "done"}, req'.status = 404
             PROVE  url'.id \in Ids /\ recent'[url'.id][Absent] <= req'.age
  BY DEF MissIsRecent
<1>0. /\ TypeOK /\ NowIsRecent /\ MissIsRecent /\ req \in Requests /\ held \in Answers
      /\ req.age \in Ages
      /\ \A i \in Ids : recent[i][Absent] \in Ages
  BY Shapes DEF CacheInv, Requests
<1>1. CASE SelectOne
  <2>1. url.id \in Ids
    BY <1>1 DEF SelectOne, IsRefused
  <2>2. url.id \notin PublicIds
    <3>1. SUFFICES ASSUME url.id \in PublicIds PROVE FALSE
      OBVIOUS
    <3> DEFINE b == Payload(Shown(<<url.id>>), 1)
    <3>2. req' = [[req EXCEPT !.phase = "sending", !.status = WithStatus(b), !.body = b]
                    EXCEPT !.quiet = TRUE]
      BY <1>1, <3>1 DEF SelectOne, Found, Sending
    <3>3. WithStatus(b) # 404
      BY DEF WithStatus
    <3> HIDE DEF b
    <3> QED
      BY <1>0, <3>2, <3>3 DEF Requests
  <2>3. req' = [req EXCEPT !.phase = "sending", !.status = 404, !.quiet = TRUE]
    BY <1>1, <2>2 DEF SelectOne, Missed
  <2>4. req'.age = req.age /\ url' = url /\ recent' = recent
    BY <1>0, <1>1, <2>3 DEF SelectOne, Requests
  <2>5. recent[url.id][Absent] = 0
    BY <1>0, <2>1, <2>2 DEF NowIsRecent, View, PublicIds
  <2>6. req.age \in Nat
    <3>1. req.age \in Ages
      BY <1>0
    <3> QED
      BY <3>1, AgesAreNumbers
  <2> QED
    BY <2>1, <2>4, <2>5, <2>6
<1>2. CASE Edit
  <2>1. req' = [req EXCEPT !.quiet = FALSE] /\ url' = url
    BY <1>2 DEF Edit
  <2>2. req'.phase = req.phase /\ req'.status = req.status /\ req'.age = req.age
    BY <1>0, <2>1 DEF Requests
  <2>3. url.id \in Ids /\ recent[url.id][Absent] <= req.age
    BY <1>0, <2>2 DEF MissIsRecent
  <2>4. recent'[url.id][Absent] <= recent[url.id][Absent]
    BY <1>0, <1>2, <2>3, Younger
  <2>5. recent'[url.id][Absent] \in Ages
    BY <2>3 DEF TypeOK
  <2>6. recent'[url.id][Absent] \in Nat /\ recent[url.id][Absent] \in Nat /\ req.age \in Nat
    <3>1. recent[url.id][Absent] \in Ages /\ req.age \in Ages
      BY <1>0, <2>3
    <3> QED
      BY <2>5, <3>1, AgesAreNumbers
  <2> QED
    BY <2>1, <2>2, <2>3, <2>4, <2>6
<1>3. CASE Tick
  <2>1. req' = [req EXCEPT !.age = Older(req.age)] /\ url' = url
    BY <1>3 DEF Tick
  <2>2. req'.phase = req.phase /\ req'.status = req.status /\ req'.age = Older(req.age)
    BY <1>0, <2>1 DEF Requests
  <2>3. url.id \in Ids /\ recent[url.id][Absent] <= req.age
    BY <1>0, <2>2 DEF MissIsRecent
  <2>4. recent'[url.id][Absent] \in {0, Older(recent[url.id][Absent])}
    BY <1>3, <2>3 DEF Tick
  <2>5. Older(recent[url.id][Absent]) <= Older(req.age) /\ Older(req.age) \in Nat
    <3>1. recent[url.id][Absent] \in Ages /\ req.age \in Ages
      BY <1>0, <2>3
    <3> QED
      BY <2>3, <3>1, AgeingIsMonotone
  <2> QED
    BY <2>1, <2>2, <2>3, <2>4, <2>5
<1>4. CASE Arrive
  <2>1. req' = [req EXCEPT !.phase = "done", !.sent = {},
                           !.body = IF req.status = 304 THEN held.body ELSE @]
    BY <1>4 DEF Arrive
  <2>2. /\ req.phase = "sending" /\ req'.status = req.status /\ req'.age = req.age
        /\ url' = url /\ recent' = recent
    BY <1>0, <1>4, <2>1 DEF Arrive, Requests
  <2> QED
    BY <1>0, <2>2 DEF MissIsRecent
<1>5. CASE ReadHeld
  <2>1. req'.status = held.status
    BY <1>5 DEF ReadHeld, Idle
  <2> QED
    BY <1>0, <2>1 DEF Answers
<1>6. CASE Ask \/ Refuse \/ Fail \/ Forget
  <2>1. CASE Ask
    BY <2>1 DEF Ask, Idle
  <2>2. CASE Refuse
    BY <2>2 DEF Refuse, Idle
  <2>3. CASE Fail
    BY <2>3 DEF Fail, Idle
  <2>4. CASE Forget
    BY <2>4 DEF Forget, Idle
  <2> QED
    BY <1>6, <2>1, <2>2, <2>3, <2>4
<1>7. CASE SelectPage
  BY <1>0, <1>7 DEF SelectPage, Requests
<1>8. CASE Count
  <2>1. req'.status = WithStatus(Counted(req.body))
    BY <1>0, <1>8 DEF Count, Sending, Requests
  <2> QED
    BY <2>1 DEF WithStatus
<1>9. CASE UNCHANGED vars
  BY <1>0, <1>9 DEF MissIsRecent, vars
<1> QED
  BY <1>1, <1>2, <1>3, <1>4, <1>5, <1>6, <1>7, <1>8, <1>9 DEF Next

LEMMA CacheInvariant == Spec => []CacheInv
<1>1. CacheInv /\ [Next]_vars => CacheInv'
  BY CacheTypes, NowStep, AnswerStep, TagStep, HeldStep, MissStep DEF CacheInv
<1> QED
  BY <1>1, CacheInit, PTL DEF Spec

-------------------------------------------------------------------------------
\* What a cache may still show was shown to the public at most Ttl ago, and a
\* miss is no older than the question's last absence (http.ts, publicJson and
\* fail): for every table, every set of addresses and every lifetime.
THEOREM TimelyCaches == Spec => []CacheIsTimely
<1>1. CacheInv => HeldWasPublicRecently
  BY DEF CacheInv, HeldIsRecent, WasPublic, HeldWasPublicRecently
<1>2. CacheInv => MissesAreTimely
  BY DEF CacheInv, MissIsRecent, MissesAreTimely
<1>3. CacheInv => CacheIsTimely
  BY <1>1, <1>2 DEF CacheInv, CacheIsTimely
<1> QED
  BY <1>3, CacheInvariant, PTL

-------------------------------------------------------------------------------
\* A quiet listing: the table is as it was when the page was selected.
QuietFits ==
  url.kind = "list" /\ req.quiet =>
    /\ req.phase = "selected" =>
         \E p \in Pages(url) : req.body = Payload(Shown(p), 0)
    /\ req.phase \in {"sending", "done"} /\ req.status \in {200, 304} =>
         \E p \in Pages(url) : req.body = Payload(Shown(p), Cardinality(Matching(url)))

LEMMA QuietStep == CacheInv /\ QuietFits /\ [Next]_vars => QuietFits'
<1> SUFFICES ASSUME CacheInv, QuietFits, [Next]_vars, url'.kind = "list", req'.quiet
             PROVE  /\ req'.phase = "selected" =>
                         (\E p \in Pages(url) : req.body = Payload(Shown(p), 0))'
                    /\ req'.phase \in {"sending", "done"} /\ req'.status \in {200, 304} =>
                         (\E p \in Pages(url) :
                            req.body = Payload(Shown(p), Cardinality(Matching(url))))'
  BY DEF QuietFits
<1>0. /\ req \in Requests /\ held \in Answers /\ TagIsOfHeld
  BY Shapes DEF CacheInv
<1>a. url' = url
  BY DEF Next, vars, ReadHeld, Ask, Refuse, SelectPage, Count, SelectOne, Fail, Arrive, Forget,
         Edit, Tick
<1>b. ASSUME rows' = rows
      PROVE  /\ Pages(url)' = Pages(url) /\ Cardinality(Matching(url))' = Cardinality(Matching(url))
             /\ \A p : Shown(p)' = Shown(p)
  BY <1>a, <1>b DEF Pages, PageSizes, Matching, PublicIds, RankOf, Shown
<1>1. CASE SelectPage
  <2>1. PICK p \in Pages(url) :
          req' = [req EXCEPT !.phase = "selected", !.body = Payload(Shown(p), 0), !.quiet = TRUE]
    BY <1>1 DEF SelectPage
  <2>2. req'.phase = "selected" /\ req'.body = Payload(Shown(p), 0) /\ rows' = rows
    BY <1>0, <1>1, <2>1 DEF SelectPage, Requests
  <2> QED
    BY <1>b, <2>2 DEF Payload
<1>2. CASE Count
  <2>1. req' = [req EXCEPT !.phase = "sending", !.status = WithStatus(Counted(req.body)),
                           !.body = Counted(req.body)]
    BY <1>2 DEF Count, Sending
  <2>2. /\ req'.phase = "sending" /\ req'.body = Counted(req.body) /\ req'.quiet = req.quiet
        /\ req.phase = "selected" /\ rows' = rows
    BY <1>0, <1>2, <2>1 DEF Count, Requests
  <2>3. PICK p \in Pages(url) : req.body = Payload(Shown(p), 0)
    BY <1>a, <2>2 DEF QuietFits
  <2>4. req'.body = Payload(Shown(p), Cardinality(Matching(url)))
    BY <2>2, <2>3 DEF Counted, Payload
  <2> QED
    BY <1>b, <2>2, <2>4 DEF Payload
<1>3. CASE SelectOne
  BY <1>3, <1>a DEF SelectOne
<1>4. CASE Arrive
  <2>1. req' = [req EXCEPT !.phase = "done", !.sent = {},
                           !.body = IF req.status = 304 THEN held.body ELSE req.body]
    BY <1>4 DEF Arrive
  <2>2. /\ req'.phase = "done" /\ req'.status = req.status /\ req'.quiet = req.quiet
        /\ req'.body = (IF req.status = 304 THEN held.body ELSE req.body)
        /\ req.phase = "sending" /\ rows' = rows
    BY <1>0, <1>4, <2>1 DEF Arrive, Requests
  <2>3. req'.body = req.body
    BY <1>0, <2>2 DEF TagIsOfHeld
  <2> QED
    BY <1>a, <1>b, <2>2, <2>3 DEF QuietFits, Payload
<1>5. CASE Tick
  <2>1. req' = req \/ req' = [req EXCEPT !.age = Older(req.age)]
    BY <1>5 DEF Tick
  <2>2. /\ req'.phase = req.phase /\ req'.status = req.status /\ req'.body = req.body
        /\ req'.quiet = req.quiet /\ rows' = rows
    BY <1>0, <1>5, <2>1 DEF Tick, Requests
  <2> QED
    BY <1>a, <1>b, <2>2 DEF QuietFits, Payload
<1>6. CASE Edit
  <2>1. req' = [req EXCEPT !.quiet = FALSE]
    BY <1>6 DEF Edit
  <2> QED
    BY <1>0, <2>1 DEF Requests
<1>7. CASE ReadHeld \/ Ask \/ Forget \/ Refuse \/ Fail
  <2>1. CASE ReadHeld
    BY <2>1 DEF ReadHeld, Idle
  <2>2. CASE Ask
    BY <2>2 DEF Ask, Idle
  <2>3. CASE Forget
    BY <2>3 DEF Forget, Idle
  <2>4. CASE Refuse
    BY <2>4 DEF Refuse, Idle
  <2>5. CASE Fail
    BY <2>5 DEF Fail, Idle
  <2> QED
    BY <1>7, <2>1, <2>2, <2>3, <2>4, <2>5
<1>8. CASE UNCHANGED vars
  <2>1. req' = req /\ rows' = rows
    BY <1>8 DEF vars
  <2> QED
    BY <1>a, <1>b, <2>1 DEF QuietFits, Payload
<1> QED
  BY <1>1, <1>2, <1>3, <1>4, <1>5, <1>6, <1>7, <1>8 DEF Next

\* A page leaves a row out exactly when there are more of them than it shows.
LEMMA PageIsFull ==
  ASSUME NEW p \in Pages(url)
  PROVE  LET shown == {p[j] : j \in DOMAIN p}
         IN Cardinality(Matching(url)) > Len(p) <=> Matching(url) \ shown # {}
<1> DEFINE n == PageSizes(url)
           M == Matching(url)
<1>1. IsFiniteSet(M) /\ Cardinality(M) \in Nat
  BY IdsAssumption, FS_Subset, FS_CardinalityType DEF Matching, PublicIds
<1>2. n \in Nat /\ n <= Cardinality(M)
  BY <1>1, LimitAssumption DEF PageSizes, Least
<1>3. p \in [1 .. n -> M] /\ \A j, k \in 1 .. n : j < k => p[j] # p[k]
  BY DEF Pages
<1> HIDE DEF n, M
<1>4. Len(p) = n /\ DOMAIN p = 1 .. n
  BY <1>2, <1>3
<1>5. p \in Injection(1 .. n, M)
  BY <1>2, <1>3 DEF Injection, IsInjective
<1>6. Cardinality(1 .. n) = n
  BY <1>2, FS_Interval
<1>7. n = Cardinality(M) <=> p \in Surjection(1 .. n, M)
  BY <1>1, <1>5, <1>6, FS_Injection
<1>8. p \in Surjection(1 .. n, M) <=> M \ {p[j] : j \in 1 .. n} = {}
  BY <1>3 DEF Surjection
<1> QED
  BY <1>1, <1>2, <1>4, <1>7, <1>8 DEF M

\* A listing no edit interfered with is the one that was asked for: its rows,
\* in their order, and truncated exactly when it says so (server/index.ts).
THEOREM HonestListing == Spec => []QuietListingIsHonest
<1>1. Init => QuietFits
  BY DEF Init, Idle, QuietFits
<1>2. CacheInv /\ QuietFits => QuietListingIsHonest
  <2> SUFFICES ASSUME CacheInv, QuietFits, url.kind = "list", req.phase = "done",
                      req.status \in {200, 304}, req.quiet
               PROVE  QuietListingIsHonest
    BY DEF QuietListingIsHonest
  <2>1. PICK p \in Pages(url) : req.body = Payload(Shown(p), Cardinality(Matching(url)))
    BY DEF QuietFits
  <2>2. Wanted(url) = Matching(url)
    BY DEF Wanted, Matching, PublicIds, IsPublic, Narrows, Blank
  <2> DEFINE page == req.body.page
             shown == {page[j].id : j \in DOMAIN page}
  <2>3. /\ page = Shown(p) /\ req.body.total = Cardinality(Matching(url))
        /\ DOMAIN page = DOMAIN p
        /\ \A j \in DOMAIN p : page[j].id = p[j] /\ page[j].content = rows[p[j]].content
    BY <2>1 DEF Payload, Shown
  <2> HIDE DEF page
  <2>4. shown = {p[j] : j \in DOMAIN p}
    BY <2>3
  <2>5. /\ p \in [1 .. PageSizes(url) -> Matching(url)]
        /\ \A i \in Matching(url), j \in DOMAIN p :
             (\A k \in DOMAIN p : p[k] # i) => RankOf(p[j]) <= RankOf(i)
    BY DEF Pages
  <2>6. PageSizes(url) \in Nat
    <3>1. Cardinality(Matching(url)) \in Nat
      BY IdsAssumption, FS_Subset, FS_CardinalityType DEF Matching, PublicIds
    <3> QED
      BY <3>1, LimitAssumption DEF PageSizes, Least
  <2>7. Len(page) = Len(p)
    BY <2>3, <2>5, <2>6 DEF Shown
  <2> HIDE DEF shown
  <2>8. shown \subseteq Wanted(url)
    BY <2>2, <2>4, <2>5
  <2>9. \A j \in DOMAIN page : page[j].content = rows[page[j].id].content
    BY <2>3
  <2>10. Truncated(req.body) <=> Wanted(url) \ shown # {}
    BY <2>2, <2>3, <2>4, <2>7, PageIsFull DEF Truncated, page
  <2>11. \A i \in Wanted(url) \ shown, j \in DOMAIN page : RankOf(page[j].id) <= RankOf(i)
    BY <2>2, <2>3, <2>4, <2>5
  <2> QED
    BY <2>8, <2>9, <2>10, <2>11 DEF QuietListingIsHonest, shown, page
<1> QED
  BY <1>1, <1>2, QuietStep, CacheInvariant, PTL DEF Spec
===============================================================================
