---------------------------- MODULE LearnerProofs ----------------------------
(***************************************************************************)
(* Proofs about what the learner's pages keep.  PracticeSession, for any   *)
(* tabs and any numbers of questions and sessions: a session has one       *)
(* record, a page that has rendered its session loses no completed         *)
(* question of it, and a session that was left does not come back.         *)
(* QuestionList, for any catalogue, stored questions, filters and links:   *)
(* a result is compared as a bag of rows and verdicts are fair, the list,  *)
(* its pages, its address and the neighbours of a question agree, and only *)
(* the learner changes what the filters ask for.                           *)
(***************************************************************************)
EXTENDS PracticeSession, QuestionList, FiniteSetTheorems, SequenceTheorems,
        WellFoundedInduction, TLAPS

\* A copy of a session that says anything is of a session that was started.
Genuine(s) == s.status # "none" \/ s.timed => s.id \in 1..started

\* The copies of an open page are of the session the tab holds; a page that is
\* left has no query under way.
SessionsAgree(t) ==
  /\ Genuine(stored[t]) /\ Genuine(view[t]) /\ Genuine(shown[t]) /\ Genuine(runs[t].from)
  /\ open[t] => view[t].id = stored[t].id /\ shown[t].id = stored[t].id
  /\ ~open[t] => runs[t] = NoRun

\* A query is of the question shown, and of the session the tab holds.
RunIsShown(t) ==
  runs[t] # NoRun => /\ runs[t].question \in Questions /\ runs[t].question = Asked(t)
                     /\ runs[t].from.id = stored[t].id

\* A page's copies differ in one completion at most, the question it shows:
\* whatever copy is written back, no other completion is lost.
CopiesAgree(t) ==
  open[t] =>
    /\ view[t].done = stored[t].done
    /\ shown[t].done \subseteq view[t].done
    /\ view[t].done \subseteq shown[t].done \cup {Asked(t)}
    /\ runs[t] # NoRun => /\ runs[t].from.done \subseteq shown[t].done
                          /\ view[t].done \subseteq runs[t].from.done \cup {runs[t].question}

PageFits(t) == SessionsAgree(t) /\ RunIsShown(t) /\ CopiesAgree(t)

PracticeInv == TypeOK /\ \A t \in Tabs : PageFits(t)

-----------------------------------------------------------------------------
\* Which question is shown.

\* Counting up to a question: everything below the next larger one of a set.
LEMMA RankStep ==
  ASSUME NEW valid \in SUBSET Questions, NEW q \in valid,
         Cardinality({p \in valid : p <= q}) > 1
  PROVE  \E r \in valid : /\ r < q
                          /\ Cardinality({p \in valid : p <= r})
                               = Cardinality({p \in valid : p <= q}) - 1
<1> DEFINE Below == {p \in valid : p < q}
           Above == {MaxQuestions - p : p \in Below}
<1>1. IsFiniteSet({p \in valid : p <= q})
  <2>1. IsFiniteSet(1..MaxQuestions)
    BY FS_Interval, SizesAssumption
  <2> QED BY <2>1, FS_Subset DEF Questions
<1>2. Below = {p \in valid : p <= q} \ {q}
  <2>1. \A p \in valid : p \in Int /\ q \in Int
    BY DEF Questions
  <2>2. \A p \in valid : p < q <=> p <= q /\ p # q
    BY <2>1
  <2> QED BY <2>2
<1>3. /\ IsFiniteSet(Below)
      /\ Cardinality(Below) = Cardinality({p \in valid : p <= q}) - 1
  <2>1. q \in {p \in valid : p <= q}
    BY DEF Questions
  <2> DEFINE UpTo == {p \in valid : p <= q}
  <2>2. IsFiniteSet(UpTo) /\ q \in UpTo /\ Below = UpTo \ {q}
    BY <1>1, <1>2, <2>1
  <2> HIDE DEF UpTo, Below
  <2>3. IsFiniteSet(Below) /\ Cardinality(Below) = Cardinality(UpTo) - 1
    BY <2>2, FS_RemoveElement
  <2> QED BY <2>3 DEF UpTo
<1>4. Cardinality({p \in valid : p <= q}) \in Nat
  BY <1>1, FS_CardinalityType
<1>5. Below # {}
  BY <1>3, <1>4, FS_EmptySet
<1>6. Above \subseteq Nat /\ Above # {}
  <2>1. \A p \in Below : MaxQuestions - p \in Nat
    BY SizesAssumption DEF Questions
  <2>2. PICK p \in Below : TRUE
    BY <1>5
  <2> QED BY <2>1, <2>2
<1>7. PICK x \in Above : \A y \in Above : ~ (<<y, x>> \in OpToRel(<, Nat))
  <2> HIDE DEF Above
  <2> QED BY <1>6, NatLessThanWellFounded, WFMin
<1>8. PICK r \in Below : x = MaxQuestions - r
  OBVIOUS
<1>9. ASSUME NEW p \in Below PROVE p <= r
  <2>1. MaxQuestions - p \in Above
    OBVIOUS
  <2>2. ~ (MaxQuestions - p < x)
    BY <2>1, <1>6, <1>7 DEF OpToRel
  <2> QED BY <2>2, <1>8, SizesAssumption DEF Questions
<1>10. {p \in valid : p <= r} = Below
  <2>1. \A p \in valid : p \in Int /\ q \in Int /\ r \in Int /\ r < q
    BY <1>8 DEF Questions
  <2>2. \A p \in valid : p <= r => p < q
    BY <2>1
  <2>3. \A p \in valid : p < q => p <= r
    BY <1>9
  <2> QED BY <2>2, <2>3
<1> QED BY <1>3, <1>8, <1>10

\* An active session of which a question exists shows one of its questions.
LEMMA CurrentIsQuestion ==
  ASSUME NEW s \in Session, NEW valid \in SUBSET Questions
  PROVE  /\ Current(s, valid) \in 0..MaxQuestions
         /\ Current(s, valid) # 0 => /\ Current(s, valid) \in valid
                                     /\ s.status = "active"
<1> DEFINE Standing(q) == Cardinality({p \in valid : p <= q})
           Reach == {q \in valid : Position(s, valid) <= Standing(q)}
<1>0. 0 \in 0..MaxQuestions /\ \A q \in Questions : q \in 0..MaxQuestions /\ q # 0
  BY SizesAssumption DEF Questions
<1>1. CASE s.status # "active" \/ valid = {}
  BY <1>0, <1>1 DEF Current
<1>2. CASE s.status = "active" /\ valid # {}
  <2>1. IsFiniteSet(valid) /\ \A q \in valid : IsFiniteSet({p \in valid : p <= q})
    <3>1. IsFiniteSet(1..MaxQuestions)
      BY FS_Interval, SizesAssumption
    <3> QED BY <3>1, FS_Subset DEF Questions
  <2>2. /\ Cardinality(valid) \in Nat /\ Cardinality(valid) # 0
        /\ \A q \in valid : Standing(q) \in Nat
    BY <1>2, <2>1, FS_CardinalityType, FS_EmptySet
  <2>3. Position(s, valid) \in 1..Cardinality(valid)
    BY <2>2, SizesAssumption DEF Position, Session, Questions
  <2>4. Reach # {}
    <3> DEFINE Highs == {MaxQuestions - q : q \in valid}
    <3>1. Highs \subseteq Nat /\ Highs # {}
      <4>1. \A q \in valid : MaxQuestions - q \in Nat
        BY SizesAssumption DEF Questions
      <4>2. PICK q \in valid : TRUE
        BY <1>2
      <4> QED BY <4>1, <4>2
    <3>2. PICK x \in Highs : \A y \in Highs : ~ (<<y, x>> \in OpToRel(<, Nat))
      <4> HIDE DEF Highs
      <4> QED BY <3>1, NatLessThanWellFounded, WFMin
    <3>3. PICK m \in valid : x = MaxQuestions - m
      OBVIOUS
    <3>4. ASSUME NEW p \in valid PROVE p <= m
      <4>1. MaxQuestions - p \in Highs
        OBVIOUS
      <4>2. ~ (MaxQuestions - p < x)
        BY <4>1, <3>1, <3>2 DEF OpToRel
      <4> QED BY <4>2, <3>3, SizesAssumption DEF Questions
    <3>5. {p \in valid : p <= m} = valid
      BY <3>4
    <3> QED BY <3>5, <2>3, <2>2
  <2>5. Reach \subseteq Nat
    <3>1. valid \subseteq Nat
      BY SizesAssumption DEF Questions
    <3>2. Reach \subseteq valid
      OBVIOUS
    <3> QED BY <3>1, <3>2
  <2>6. PICK q \in Reach : \A y \in Reach : ~ (<<y, q>> \in OpToRel(<, Nat))
    <3> HIDE DEF Reach
    <3> QED BY <2>4, <2>5, NatLessThanWellFounded, WFMin
  <2>7. \A y \in Reach : ~ (y < q)
    BY <2>5, <2>6 DEF OpToRel
  <2>8. Standing(q) = Position(s, valid)
    <3> SUFFICES ASSUME Standing(q) # Position(s, valid) PROVE FALSE
      OBVIOUS
    <3>1. Standing(q) > Position(s, valid) /\ Standing(q) > 1
      BY <2>2, <2>3
    <3>2. PICK r \in valid : r < q /\ Standing(r) = Standing(q) - 1
      BY <3>1, RankStep
    <3>3. r \in Reach
      BY <3>1, <3>2, <2>2, <2>3
    <3> QED BY <3>2, <3>3, <2>7
  <2>9. Current(s, valid) = CHOOSE p \in valid : Standing(p) = Position(s, valid)
    BY <1>2 DEF Current
  <2>10. Current(s, valid) \in valid
    <3> HIDE DEF Standing
    <3> QED BY <2>8, <2>9
  <2> QED BY <2>10, <1>0, <1>2
<1> QED BY <1>1, <1>2

-----------------------------------------------------------------------------
\* What the helpers do to the types and to a page.

SameTypes(t) ==
  /\ view' \in [Tabs -> Session] /\ shown' \in [Tabs -> Session]
  /\ known' \in [Tabs -> SUBSET Questions]
  /\ runs' \in [Tabs -> [question : 0..MaxQuestions, from : Session]]

\* A render of a genuine session keeps the types, and a query of the question shown.
LEMMA RenderFits ==
  ASSUME PracticeInv, NEW t \in Tabs, NEW s \in Session, Render(t, s),
         s.status # "none" => s.id \in Ids
  PROVE  /\ SameTypes(t)
         /\ reported' \in [Tabs -> 0..MaxSessions] /\ reports' \subseteq Ids
         /\ view'[t] = s /\ shown'[t] = s /\ known'[t] = catalog
         /\ Asked(t)' = Current(s, catalog)
         /\ runs'[t] = IF runs[t].question = Current(s, catalog) THEN runs[t] ELSE NoRun
         /\ \A u \in Tabs \ {t} : /\ view'[u] = view[u] /\ shown'[u] = shown[u]
                                  /\ known'[u] = known[u] /\ runs'[u] = runs[u]
<1>1. TypeOK
  BY DEF PracticeInv
<1>2. NoRun \in [question : 0..MaxQuestions, from : Session]
  BY SizesAssumption DEF NoRun, NoSession, Session, Questions
<1>3. /\ view' = [view EXCEPT ![t] = s] /\ shown' = [shown EXCEPT ![t] = s]
      /\ known' = [known EXCEPT ![t] = catalog]
      /\ runs' = [runs EXCEPT ![t] = IF runs[t].question = Current(s, catalog) THEN runs[t] ELSE NoRun]
  BY <1>1 DEF Render, TypeOK
<1>4. SameTypes(t)
  BY <1>1, <1>2, <1>3 DEF TypeOK, SameTypes
<1>5. reported' \in [Tabs -> 0..MaxSessions] /\ reports' \subseteq Ids
  <2>1. CASE s.status = "active"
    <3>1. s.id \in Ids /\ s.id \in 0..MaxSessions
      BY <2>1, SizesAssumption DEF Ids
    <3> QED BY <1>1, <3>1 DEF Render, TypeOK
  <2>2. CASE s.status # "active"
    BY <1>1, <2>2 DEF Render, TypeOK
  <2> QED BY <2>1, <2>2
<1>6. view'[t] = s /\ shown'[t] = s /\ known'[t] = catalog
  BY <1>1, <1>3 DEF TypeOK
<1>7. Asked(t)' = Current(s, catalog)
  BY <1>6 DEF Asked
<1>8. /\ runs'[t] = IF runs[t].question = Current(s, catalog) THEN runs[t] ELSE NoRun
      /\ \A u \in Tabs \ {t} : /\ view'[u] = view[u] /\ shown'[u] = shown[u]
                               /\ known'[u] = known[u] /\ runs'[u] = runs[u]
  BY <1>1, <1>3 DEF TypeOK
<1> QED BY <1>4, <1>5, <1>6, <1>7, <1>8

\* A page that no step touches stays as it is.
LEMMA OtherPage ==
  ASSUME PracticeInv, NEW u \in Tabs,
         stored'[u] = stored[u], open'[u] = open[u], view'[u] = view[u], shown'[u] = shown[u],
         known'[u] = known[u], runs'[u] = runs[u], started' \in {started, started + 1}
  PROVE  PageFits(u)'
<1>1. \A i : i \in 1..started => i \in 1..started'
  BY DEF PracticeInv, TypeOK
<1>2. PageFits(u) /\ Asked(u)' = Asked(u)
  BY DEF PracticeInv, Asked
<1>3. SessionsAgree(u)'
  BY <1>1, <1>2 DEF PageFits, SessionsAgree, Genuine
<1>4. RunIsShown(u)' /\ CopiesAgree(u)'
  BY <1>2 DEF PageFits, RunIsShown, CopiesAgree
<1> QED BY <1>3, <1>4 DEF PageFits

\* A record of a session keeps the history's type and its uniqueness.
LEMMA RecordFits ==
  ASSUME PracticeInv, NEW s \in Session, s.id \in Ids, Record(s)
  PROVE  /\ history' \in Seq([id : Ids, done : SUBSET Questions]) /\ Len(history') <= MaxHistory
         /\ RecordedOnce => RecordedOnce'
<1> DEFINE Item == [id : Ids, done : SUBSET Questions]
           e == [id |-> s.id, done |-> s.done]
           kept == IF Len(history) < MaxHistory THEN history ELSE SubSeq(history, 1, MaxHistory - 1)
<1>1. history \in Seq(Item) /\ Len(history) <= MaxHistory /\ MaxHistory \in Nat \ {0} /\ e \in Item
  BY SizesAssumption DEF PracticeInv, TypeOK, Session
<1>2. CASE \E k \in DOMAIN history : history[k].id = s.id
  BY <1>1, <1>2 DEF Record, RecordedOnce
<1>3. CASE ~ \E k \in DOMAIN history : history[k].id = s.id
  <2>1. history' = <<e>> \o kept
    BY <1>3 DEF Record
  <2> HIDE DEF Item, e
  <2>2. /\ kept \in Seq(Item) /\ Len(kept) \in Nat /\ Len(kept) <= MaxHistory - 1
        /\ Len(kept) <= Len(history)
        /\ \A k \in 1..Len(kept) : kept[k] = history[k]
    BY <1>1
  <2> HIDE DEF kept
  <2>3. /\ history' \in Seq(Item) /\ Len(history') = Len(kept) + 1
        /\ history'[1] = e
        /\ \A k \in 1..Len(kept) : history'[k + 1] = kept[k]
    BY <1>1, <2>1, <2>2
  <2>4. ASSUME RecordedOnce PROVE RecordedOnce'
    <3>1. \A j \in 1..Len(kept) : j \in DOMAIN history /\ kept[j] = history[j]
      BY <1>1, <2>2
    <3>2. \A j, k \in 1..Len(kept) : kept[j].id = kept[k].id => j = k
      BY <3>1, <2>4 DEF RecordedOnce
    <3>3. \A k \in 1..Len(kept) : kept[k].id # e.id
      BY <3>1, <1>3 DEF e
    <3>4. SUFFICES ASSUME NEW j \in DOMAIN history', NEW k \in DOMAIN history',
                          history'[j].id = history'[k].id
                   PROVE  j = k
      BY DEF RecordedOnce
    <3>5. \A i \in DOMAIN history' : i = 1 \/ (i - 1 \in 1..Len(kept) /\ history'[i] = kept[i - 1])
      <4> SUFFICES ASSUME NEW i \in DOMAIN history', i # 1
                   PROVE  i - 1 \in 1..Len(kept) /\ history'[i] = kept[i - 1]
        OBVIOUS
      <4>1. i \in 1..(Len(kept) + 1)
        BY <2>3
      <4>2. i - 1 \in 1..Len(kept) /\ i = (i - 1) + 1
        BY <4>1, <2>2
      <4>3. history'[(i - 1) + 1] = kept[i - 1]
        BY <2>3, <4>2
      <4> QED BY <4>2, <4>3
    <3>6. j \in Nat /\ k \in Nat
      BY <2>3
    <3> QED
      <4>1. CASE j = 1 /\ k = 1
        BY <4>1
      <4>2. CASE j = 1 /\ k # 1
        BY <4>2, <2>3, <3>3, <3>4, <3>5
      <4>3. CASE j # 1 /\ k = 1
        BY <4>3, <2>3, <3>3, <3>4, <3>5
      <4>4. CASE j # 1 /\ k # 1
        <5>1. j - 1 = k - 1
          BY <4>4, <3>2, <3>4, <3>5
        <5> QED BY <5>1, <3>6
      <4> QED BY <4>1, <4>2, <4>3, <4>4
  <2> QED BY <2>2, <2>3, <2>4, <1>1 DEF Item
<1> QED BY <1>2, <1>3

\* A handler writes a copy of its session and renders it.
LEMMA WriteFits ==
  ASSUME PracticeInv, NEW t \in Tabs, NEW s \in Session, Write(t, s),
         started' \in {started, started + 1}, started' \in 0..MaxSessions,
         s.status # "none" \/ s.timed => s.id \in 1..started',
         runs[t] # NoRun => /\ s.id = stored[t].id
                            /\ runs[t].from.done \subseteq s.done
                            /\ s.done \subseteq runs[t].from.done \cup {runs[t].question},
         open'[t]
  PROVE  /\ SameTypes(t) /\ stored' \in [Tabs -> Session]
         /\ reported' \in [Tabs -> 0..MaxSessions] /\ reports' \subseteq Ids
         /\ PageFits(t)'
         /\ \A u \in Tabs \ {t} : /\ stored'[u] = stored[u] /\ view'[u] = view[u] /\ shown'[u] = shown[u]
                                  /\ known'[u] = known[u] /\ runs'[u] = runs[u]
<1>1. TypeOK /\ PageFits(t)
  BY DEF PracticeInv
<1>2. s.status # "none" => s.id \in Ids
  BY SizesAssumption DEF Ids
<1>3. /\ stored' \in [Tabs -> Session] /\ stored'[t] = s
      /\ \A u \in Tabs \ {t} : stored'[u] = stored[u]
  BY <1>1 DEF Write, TypeOK
<1>4. Render(t, s)
  BY DEF Write
<1>5. /\ view'[t] = s /\ shown'[t] = s /\ Asked(t)' = Current(s, catalog)
      /\ runs'[t] = IF runs[t].question = Current(s, catalog) THEN runs[t] ELSE NoRun
  BY <1>2, <1>4, RenderFits
<1>6. runs'[t] = NoRun \/ (/\ runs'[t] = runs[t] /\ runs[t] # NoRun
                           /\ runs[t].question = Current(s, catalog))
  BY <1>5
<1>7. \A i : i \in 1..started => i \in 1..started'
  BY <1>1 DEF TypeOK
<1>8. SessionsAgree(t)'
  <2>1. ~ (NoRun.from.status # "none" \/ NoRun.from.timed)
    BY DEF NoRun, NoSession
  <2>2. Genuine(runs[t].from)
    BY <1>1 DEF PageFits, SessionsAgree
  <2>3. Genuine(runs[t].from)'
    BY <1>6, <1>7, <2>1, <2>2 DEF Genuine
  <2> QED BY <1>3, <1>5, <2>3 DEF SessionsAgree, Genuine
<1>9. RunIsShown(t)'
  BY <1>1, <1>3, <1>5, <1>6 DEF PageFits, RunIsShown
<1>10. CopiesAgree(t)'
  BY <1>1, <1>3, <1>5, <1>6 DEF CopiesAgree
<1> QED BY <1>2, <1>3, <1>4, <1>8, <1>9, <1>10, RenderFits DEF PageFits

\* The copy a page renders has what a running query started from, and no more
\* than that and its question.
LEMMA ShownCopy ==
  ASSUME PracticeInv, NEW t \in Tabs, open[t]
  PROVE  /\ shown[t] \in Session /\ Genuine(shown[t]) /\ shown[t].id = stored[t].id
         /\ runs[t] # NoRun => /\ runs[t].from.done \subseteq shown[t].done
                               /\ shown[t].done \subseteq runs[t].from.done \cup {runs[t].question}
<1>1. TypeOK /\ SessionsAgree(t) /\ CopiesAgree(t)
  BY DEF PracticeInv, PageFits
<1> QED BY <1>1 DEF TypeOK, SessionsAgree, CopiesAgree

\* No page is open, no session stored and the history is empty.
LEMMA InitFits == Init => PracticeInv /\ RecordedOnce
<1> SUFFICES ASSUME Init PROVE PracticeInv /\ RecordedOnce
  OBVIOUS
<1>1. NoSession \in Session /\ NoRun \in [question : 0..MaxQuestions, from : Session]
  BY SizesAssumption DEF NoRun, NoSession, Session, Questions
<1>2. TypeOK
  BY <1>1, SizesAssumption DEF Init, TypeOK
<1>3. \A t \in Tabs : PageFits(t)
  BY DEF Init, PageFits, SessionsAgree, RunIsShown, CopiesAgree, Genuine, NoRun, NoSession
<1> QED BY <1>2, <1>3 DEF PracticeInv, Init, RecordedOnce

-----------------------------------------------------------------------------
\* One lemma per action that changes a page.

\* A launch replaces the tab's session, and whatever page is open goes with it.
LEMMA LaunchFits ==
  ASSUME PracticeInv, NEW t \in Tabs, Launch(t) PROVE PracticeInv'
<1>1. TypeOK /\ PageFits(t) /\ ~open[t]
  BY DEF PracticeInv, Launch
<1>2. PICK timed \in BOOLEAN : Write(t, [NoSession EXCEPT !.id = started', !.status = "active",
                                                         !.timed = timed])
  BY DEF Launch
<1> DEFINE s == [NoSession EXCEPT !.id = started', !.status = "active", !.timed = timed]
<1>3. started' = started + 1 /\ started' \in 0..MaxSessions /\ started' \in 1..started'
  BY <1>1, SizesAssumption DEF Launch, TypeOK
<1>4. s \in Session /\ s.id = started'
  <2>1. NoSession \in Session
    BY SizesAssumption DEF NoSession, Session, Questions
  <2>2. \A n \in Session, i \in 0..MaxSessions, b \in BOOLEAN :
          LET new == [n EXCEPT !.id = i, !.status = "active", !.timed = b]
          IN new \in Session /\ new.id = i
    BY DEF Session
  <2> QED BY <1>3, <2>1, <2>2
<1>5. runs[t] = NoRun
  BY <1>1 DEF PageFits, SessionsAgree
<1>6. open' \in [Tabs -> BOOLEAN] /\ open'[t] /\ \A u \in Tabs \ {t} : open'[u] = open[u]
  BY <1>1 DEF Launch, TypeOK
<1> HIDE DEF s
<1>7. /\ SameTypes(t) /\ stored' \in [Tabs -> Session]
      /\ reported' \in [Tabs -> 0..MaxSessions] /\ reports' \subseteq Ids
      /\ PageFits(t)'
      /\ \A u \in Tabs \ {t} : /\ stored'[u] = stored[u] /\ view'[u] = view[u] /\ shown'[u] = shown[u]
                               /\ known'[u] = known[u] /\ runs'[u] = runs[u]
  <2>1. Write(t, s)
    BY <1>2 DEF s
  <2> QED BY <2>1, <1>3, <1>4, <1>5, <1>6, WriteFits
<1>8. \A u \in Tabs \ {t} : PageFits(u)'
  BY <1>3, <1>6, <1>7, OtherPage
<1>9. TypeOK'
  BY <1>1, <1>3, <1>6, <1>7 DEF Launch, TypeOK, SameTypes
<1> QED BY <1>7, <1>8, <1>9 DEF PracticeInv

\* Open and Rerender render a copy and write nothing.
LEMMA OpenFits ==
  ASSUME PracticeInv, NEW t \in Tabs, Open(t) PROVE PracticeInv'
<1>1. TypeOK /\ PageFits(t) /\ ~open[t] /\ runs[t] = NoRun
  BY DEF PracticeInv, Open, PageFits, SessionsAgree
<1>2. stored[t] \in Session /\ (stored[t].status # "none" => stored[t].id \in Ids)
  BY <1>1, SizesAssumption DEF TypeOK, PageFits, SessionsAgree, Genuine, Ids
<1>3. Render(t, stored[t])
  BY DEF Open
<1>4. /\ SameTypes(t) /\ reported' \in [Tabs -> 0..MaxSessions] /\ reports' \subseteq Ids
      /\ view'[t] = stored[t] /\ shown'[t] = stored[t]
      /\ runs'[t] = NoRun
      /\ \A u \in Tabs \ {t} : /\ view'[u] = view[u] /\ shown'[u] = shown[u]
                               /\ known'[u] = known[u] /\ runs'[u] = runs[u]
  BY <1>1, <1>2, <1>3, RenderFits
<1>5. /\ open' \in [Tabs -> BOOLEAN] /\ open'[t] /\ \A u \in Tabs \ {t} : open'[u] = open[u]
      /\ UNCHANGED <<stored, history, catalog, due, started>>
  BY <1>1 DEF Open, TypeOK
<1>6. PageFits(t)'
  <2>1. Genuine(stored[t]) /\ Genuine(NoRun.from)
    BY <1>1 DEF PageFits, SessionsAgree
  <2>2. SessionsAgree(t)'
    BY <2>1, <1>4, <1>5 DEF SessionsAgree, Genuine
  <2> QED BY <2>2, <1>4, <1>5 DEF PageFits, RunIsShown, CopiesAgree
<1>7. \A u \in Tabs \ {t} : PageFits(u)'
  BY <1>4, <1>5, OtherPage
<1>8. TypeOK'
  BY <1>1, <1>4, <1>5 DEF TypeOK, SameTypes
<1> QED BY <1>6, <1>7, <1>8 DEF PracticeInv

\* A render takes the copy that the page's state has.
LEMMA RerenderFits ==
  ASSUME PracticeInv, NEW t \in Tabs, Rerender(t) PROVE PracticeInv'
<1>1. TypeOK /\ PageFits(t) /\ open[t]
  BY DEF PracticeInv, Rerender
<1>2. view[t] \in Session /\ (view[t].status # "none" => view[t].id \in Ids)
  BY <1>1, SizesAssumption DEF TypeOK, PageFits, SessionsAgree, Genuine, Ids
<1>3. Render(t, view[t])
  BY DEF Rerender
<1>4. /\ SameTypes(t) /\ reported' \in [Tabs -> 0..MaxSessions] /\ reports' \subseteq Ids
      /\ view'[t] = view[t] /\ shown'[t] = view[t] /\ Asked(t)' = Current(view[t], catalog)
      /\ runs'[t] = IF runs[t].question = Current(view[t], catalog) THEN runs[t] ELSE NoRun
      /\ \A u \in Tabs \ {t} : /\ view'[u] = view[u] /\ shown'[u] = shown[u]
                               /\ known'[u] = known[u] /\ runs'[u] = runs[u]
  BY <1>2, <1>3, RenderFits
<1>5. UNCHANGED <<stored, open, history, catalog, due, started>>
  BY DEF Rerender
<1>6. runs'[t] = NoRun \/ (/\ runs'[t] = runs[t] /\ runs[t] # NoRun
                           /\ runs[t].question = Current(view[t], catalog))
  BY <1>4
<1>7. PageFits(t)'
  <2>1. ~ (NoRun.from.status # "none" \/ NoRun.from.timed)
    BY DEF NoRun, NoSession
  <2>2. SessionsAgree(t)'
    BY <1>1, <1>4, <1>5, <1>6, <2>1 DEF PageFits, SessionsAgree, Genuine
  <2>3. RunIsShown(t)'
    BY <1>1, <1>4, <1>5, <1>6 DEF PageFits, RunIsShown
  <2>4. CopiesAgree(t)'
    BY <1>1, <1>4, <1>5, <1>6 DEF PageFits, CopiesAgree
  <2> QED BY <2>2, <2>3, <2>4 DEF PageFits
<1>8. \A u \in Tabs \ {t} : PageFits(u)'
  BY <1>4, <1>5, OtherPage
<1>9. TypeOK'
  BY <1>1, <1>4, <1>5 DEF TypeOK, SameTypes
<1> QED BY <1>7, <1>8, <1>9 DEF PracticeInv

\* A page that is left forgets everything but the stored session.
LEMMA ForgetFits ==
  ASSUME PracticeInv, NEW t \in Tabs, Forget(t), UNCHANGED <<catalog, due, reports, started, history>>,
         \/ UNCHANGED stored
         \/ stored' = [stored EXCEPT ![t] = NoSession]
  PROVE  PracticeInv'
<1>1. TypeOK /\ PageFits(t)
  BY DEF PracticeInv
<1>2. NoSession \in Session /\ NoRun \in [question : 0..MaxQuestions, from : Session]
  BY SizesAssumption DEF NoRun, NoSession, Session, Questions
<1>3. ~ (NoSession.status # "none" \/ NoSession.timed) /\ NoRun.from = NoSession
  BY DEF NoRun, NoSession
<1>4. /\ stored' \in [Tabs -> Session] /\ (stored'[t] = stored[t] \/ stored'[t] = NoSession)
      /\ open'[t] = FALSE /\ view'[t] = NoSession /\ shown'[t] = NoSession /\ runs'[t] = NoRun
      /\ \A u \in Tabs \ {t} : /\ stored'[u] = stored[u] /\ open'[u] = open[u]
                               /\ view'[u] = view[u] /\ shown'[u] = shown[u]
                               /\ known'[u] = known[u] /\ runs'[u] = runs[u]
  BY <1>1, <1>2 DEF Forget, TypeOK
<1>5. PageFits(t)'
  <2>1. SessionsAgree(t)'
    BY <1>1, <1>3, <1>4 DEF PageFits, SessionsAgree, Genuine
  <2> QED BY <2>1, <1>4 DEF PageFits, RunIsShown, CopiesAgree
<1>6. \A u \in Tabs \ {t} : PageFits(u)'
  BY <1>4, OtherPage
<1>7. TypeOK'
  BY <1>1, <1>2, <1>4, SizesAssumption DEF TypeOK, Forget
<1> QED BY <1>5, <1>6, <1>7 DEF PracticeInv

\* What a click writes is the copy rendered last, at another place or finished.
LEMMA ClickFits ==
  ASSUME PracticeInv, NEW t \in Tabs, open[t], shown[t].status = "active",
         NEW s \in Session, s.id = shown[t].id, s.done = shown[t].done, Write(t, s),
         UNCHANGED <<open, catalog, due, started>>,
         history' \in Seq([id : Ids, done : SUBSET Questions]) /\ Len(history') <= MaxHistory
  PROVE  PracticeInv'
<1>1. TypeOK
  BY DEF PracticeInv
<1>2. shown[t].id \in 1..started
  BY ShownCopy DEF Genuine
<1>3. started' = started /\ started' \in 0..MaxSessions
  BY <1>1 DEF TypeOK
<1>4. /\ SameTypes(t) /\ stored' \in [Tabs -> Session]
      /\ reported' \in [Tabs -> 0..MaxSessions] /\ reports' \subseteq Ids
      /\ PageFits(t)'
      /\ \A u \in Tabs \ {t} : /\ stored'[u] = stored[u] /\ view'[u] = view[u] /\ shown'[u] = shown[u]
                               /\ known'[u] = known[u] /\ runs'[u] = runs[u]
  BY <1>2, <1>3, ShownCopy, WriteFits
<1>5. \A u \in Tabs \ {t} : PageFits(u)'
  BY <1>4, OtherPage
<1>6. TypeOK'
  BY <1>1, <1>4 DEF TypeOK, SameTypes
<1> QED BY <1>4, <1>5, <1>6 DEF PracticeInv

\* A page that shows a question has an active session of one that was started.
LEMMA AskedIsActive ==
  ASSUME PracticeInv, NEW t \in Tabs, Asked(t) # 0
  PROVE  /\ shown[t].status = "active" /\ shown[t].id \in Ids
         /\ Asked(t) \in Questions /\ Asked(t) \in 0..MaxQuestions
<1>1. TypeOK /\ SessionsAgree(t)
  BY DEF PracticeInv, PageFits
<1>2. shown[t] \in Session /\ known[t] \in SUBSET Questions
  BY <1>1 DEF TypeOK
<1>3. shown[t].status = "active" /\ Asked(t) \in Questions /\ Asked(t) \in 0..MaxQuestions
  BY <1>2, CurrentIsQuestion DEF Asked
<1>4. started \in 0..MaxSessions
  BY <1>1 DEF TypeOK
<1> QED BY <1>1, <1>3, <1>4, SizesAssumption DEF SessionsAgree, Genuine, Ids

\* A click to the next question writes the copy of the render it was made on.
LEMMA StepFits ==
  ASSUME PracticeInv, NEW t \in Tabs, Step(t) PROVE PracticeInv'
<1>1. TypeOK /\ open[t] /\ Asked(t) # 0
  BY DEF PracticeInv, Step
<1>2. PICK i \in 1..Cardinality(known[t]) : Write(t, [shown[t] EXCEPT !.index = i])
  BY DEF Step
<1>3. i \in Questions
  <2>1. IsFiniteSet(1..MaxQuestions) /\ Cardinality(1..MaxQuestions) = MaxQuestions
    BY FS_Interval, SizesAssumption
  <2>2. known[t] \subseteq 1..MaxQuestions
    BY <1>1 DEF TypeOK, Questions
  <2>3. Cardinality(known[t]) <= MaxQuestions /\ Cardinality(known[t]) \in Nat
    BY <2>1, <2>2, FS_Subset, FS_CardinalityType
  <2> QED BY <1>2, <2>3, SizesAssumption DEF Questions
<1> DEFINE s == [shown[t] EXCEPT !.index = i]
<1>4. s \in Session /\ s.id = shown[t].id /\ s.done = shown[t].done
  <2>1. shown[t] \in Session
    BY <1>1 DEF TypeOK
  <2> QED BY <1>3, <2>1 DEF Session
<1>5. UNCHANGED <<open, history, catalog, due, started>>
  BY DEF Step
<1>6. Write(t, s)
  BY <1>2
<1>7. history' \in Seq([id : Ids, done : SUBSET Questions]) /\ Len(history') <= MaxHistory
  BY <1>1, <1>5 DEF TypeOK
<1> HIDE DEF s
<1> QED BY <1>1, <1>4, <1>5, <1>6, <1>7, AskedIsActive, ClickFits

\* Finishing writes and records the session of the render.
LEMMA FinishFits ==
  ASSUME PracticeInv, NEW t \in Tabs, Finish(t) PROVE PracticeInv' /\ (RecordedOnce => RecordedOnce')
<1>1. TypeOK /\ open[t] /\ Asked(t) # 0
  BY DEF PracticeInv, Finish
<1>2. shown[t] \in Session /\ shown[t].id \in Ids /\ shown[t].status = "active"
  BY <1>1, AskedIsActive DEF TypeOK
<1>3. /\ history' \in Seq([id : Ids, done : SUBSET Questions]) /\ Len(history') <= MaxHistory
      /\ RecordedOnce => RecordedOnce'
  <2>1. Record(shown[t])
    BY DEF Finish
  <2> QED BY <1>2, <2>1, RecordFits
<1>4. /\ Finished(shown[t]) \in Session /\ Finished(shown[t]).id = shown[t].id
      /\ Finished(shown[t]).done = shown[t].done
  BY <1>2 DEF Finished, Session
<1>5. Write(t, Finished(shown[t])) /\ UNCHANGED <<open, catalog, due, started>>
  BY DEF Finish
<1> QED BY <1>1, <1>2, <1>3, <1>4, <1>5, ClickFits

\* The timer finishes and records the session that the tab stores.
LEMMA TickFits ==
  ASSUME PracticeInv, NEW t \in Tabs, Tick(t) PROVE PracticeInv' /\ (RecordedOnce => RecordedOnce')
<1> DEFINE latest == stored[t]
<1>1. /\ TypeOK /\ PageFits(t) /\ open[t]
      /\ latest.id = shown[t].id /\ latest.status = "active" /\ Record(latest)
      /\ stored' = [stored EXCEPT ![t] = Finished(latest)]
      /\ view' = [view EXCEPT ![t] = Finished(latest)]
      /\ UNCHANGED <<open, shown, known, runs, catalog, due, reported, reports, started>>
  BY DEF PracticeInv, Tick
<1>2. latest \in Session /\ latest.id \in 1..started /\ latest.id \in Ids
  <2>1. latest \in Session /\ started \in 0..MaxSessions
    BY <1>1 DEF TypeOK
  <2>2. latest.id \in 1..started
    BY <1>1 DEF PageFits, SessionsAgree, Genuine
  <2> QED BY <2>1, <2>2, SizesAssumption DEF Ids
<1>3. /\ history' \in Seq([id : Ids, done : SUBSET Questions]) /\ Len(history') <= MaxHistory
      /\ RecordedOnce => RecordedOnce'
  BY <1>1, <1>2, RecordFits
<1>4. /\ Finished(latest) \in Session /\ Finished(latest).id = latest.id
      /\ Finished(latest).done = latest.done
  BY <1>2 DEF Finished, Session
<1>5. /\ stored' \in [Tabs -> Session] /\ view' \in [Tabs -> Session]
      /\ stored'[t] = Finished(latest) /\ view'[t] = Finished(latest)
      /\ \A u \in Tabs \ {t} : stored'[u] = stored[u] /\ view'[u] = view[u]
  BY <1>1, <1>4 DEF TypeOK
<1>6. PageFits(t)'
  <2>1. Asked(t)' = Asked(t)
    BY <1>1 DEF Asked
  <2>2. SessionsAgree(t)'
    BY <1>1, <1>2, <1>4, <1>5 DEF PageFits, SessionsAgree, Genuine
  <2>3. RunIsShown(t)' /\ CopiesAgree(t)'
    BY <1>1, <1>4, <1>5, <2>1 DEF PageFits, RunIsShown, CopiesAgree
  <2> QED BY <2>2, <2>3 DEF PageFits
<1>7. \A u \in Tabs \ {t} : PageFits(u)'
  BY <1>1, <1>5, OtherPage
<1>8. TypeOK'
  BY <1>1, <1>3, <1>5 DEF TypeOK
<1> QED BY <1>3, <1>6, <1>7, <1>8 DEF PracticeInv

\* A query takes along the copy of the render it was started on.
LEMMA RunFits ==
  ASSUME PracticeInv, NEW t \in Tabs, Run(t) PROVE PracticeInv'
<1>1. TypeOK /\ PageFits(t) /\ open[t] /\ Asked(t) # 0
  BY DEF PracticeInv, Run
<1> DEFINE new == [question |-> Asked(t), from |-> shown[t]]
<1>2. shown[t] \in Session /\ Asked(t) \in Questions /\ Asked(t) \in 0..MaxQuestions
  BY <1>1, AskedIsActive DEF TypeOK
<1>3. UNCHANGED <<stored, open, view, shown, known, history, catalog, due, reported, reports, started>>
  BY DEF Run
<1>4. /\ runs' \in [Tabs -> [question : 0..MaxQuestions, from : Session]]
      /\ runs'[t] = new
      /\ \A u \in Tabs \ {t} : runs'[u] = runs[u]
  BY <1>1, <1>2 DEF Run, TypeOK
<1>5. PageFits(t)'
  <2>1. Asked(t)' = Asked(t)
    BY <1>3 DEF Asked
  <2>2. runs'[t].question = Asked(t) /\ runs'[t].from = shown[t]
    BY <1>4
  <2>3. SessionsAgree(t)' /\ RunIsShown(t)'
    BY <1>1, <1>2, <1>3, <2>1, <2>2 DEF PageFits, SessionsAgree, RunIsShown, Genuine
  <2>4. CopiesAgree(t)'
    BY <1>1, <1>3, <2>1, <2>2 DEF PageFits, CopiesAgree
  <2> QED BY <2>3, <2>4 DEF PageFits
<1>6. \A u \in Tabs \ {t} : PageFits(u)'
  BY <1>3, <1>4, OtherPage
<1>7. TypeOK'
  BY <1>1, <1>3, <1>4 DEF TypeOK
<1> QED BY <1>5, <1>6, <1>7 DEF PracticeInv

\* An answer adds its question to the completions of the copy it started from.
LEMMA RunEndsFits ==
  ASSUME PracticeInv, NEW t \in Tabs, RunEnds(t)
  PROVE  /\ PracticeInv' /\ stored'[t].id = stored[t].id
         /\ stored[t].done \subseteq stored'[t].done
         /\ \A u \in Tabs \ {t} : stored'[u] = stored[u]
<1> DEFINE run == runs[t]
           solved == [run.from EXCEPT !.done = run.from.done \cup {run.question}]
<1>1. /\ TypeOK /\ PageFits(t) /\ run # NoRun /\ open[t]
      /\ runs' = [runs EXCEPT ![t] = NoRun]
      /\ UNCHANGED <<open, shown, known, history, catalog, due, reported, reports, started>>
  BY DEF PracticeInv, RunEnds, PageFits, SessionsAgree
<1>2. \/ UNCHANGED <<stored, view>>
      \/ /\ stored' = [stored EXCEPT ![t] = IF run.question \in run.from.done THEN stored[t] ELSE solved]
         /\ view' = [view EXCEPT ![t] = solved]
  BY <1>1 DEF RunEnds, TypeOK
<1>3. /\ run.from \in Session /\ run.question \in Questions /\ run.from.id = stored[t].id
      /\ stored[t] \in Session /\ view[t] \in Session
      /\ run.question = Asked(t)
  BY <1>1 DEF PageFits, RunIsShown, TypeOK
<1>4. /\ solved \in Session /\ solved.id = stored[t].id
      /\ solved.done = run.from.done \cup {run.question}
      /\ solved.status = run.from.status /\ solved.timed = run.from.timed
  BY <1>3 DEF Session
<1> HIDE DEF solved
<1>5. NoRun \in [question : 0..MaxQuestions, from : Session]
  BY SizesAssumption DEF NoRun, NoSession, Session, Questions
<1>6. /\ stored' \in [Tabs -> Session] /\ view' \in [Tabs -> Session]
      /\ runs' \in [Tabs -> [question : 0..MaxQuestions, from : Session]] /\ runs'[t] = NoRun
      /\ \A u \in Tabs \ {t} : stored'[u] = stored[u] /\ view'[u] = view[u] /\ runs'[u] = runs[u]
  BY <1>1, <1>2, <1>4, <1>5 DEF TypeOK
<1>7. \/ stored'[t] = stored[t] /\ view'[t] = view[t]
      \/ run.question \in run.from.done /\ stored'[t] = stored[t] /\ view'[t] = solved
      \/ stored'[t] = solved /\ view'[t] = solved
  BY <1>1, <1>2 DEF TypeOK
<1>8. stored[t].done \subseteq solved.done
  BY <1>1, <1>4 DEF PageFits, CopiesAgree
<1>9. PageFits(t)'
  <2>1. Asked(t)' = Asked(t)
    BY <1>1 DEF Asked
  <2>2. ~ (NoRun.from.status # "none" \/ NoRun.from.timed)
    BY DEF NoRun, NoSession
  <2>3. SessionsAgree(t)'
    <3>1. /\ Genuine(stored[t]) /\ Genuine(view[t]) /\ Genuine(shown[t]) /\ Genuine(run.from)
          /\ view[t].id = stored[t].id /\ shown[t].id = stored[t].id
      BY <1>1 DEF PageFits, SessionsAgree
    <3>2. Genuine(solved)
      BY <1>3, <1>4, <3>1 DEF Genuine
    <3>3. /\ Genuine(stored'[t]) /\ Genuine(view'[t]) /\ Genuine(shown'[t]) /\ Genuine(runs'[t].from)
          /\ view'[t].id = stored'[t].id /\ shown'[t].id = stored'[t].id
      BY <1>1, <1>4, <1>6, <1>7, <2>2, <3>1, <3>2 DEF Genuine
    <3> QED BY <1>1, <3>3 DEF SessionsAgree, Genuine
  <2>4. RunIsShown(t)'
    BY <1>6 DEF RunIsShown
  <2>5. CopiesAgree(t)'
    <3>1. /\ view[t].done = stored[t].done /\ shown[t].done \subseteq view[t].done
          /\ view[t].done \subseteq shown[t].done \cup {Asked(t)}
          /\ run.from.done \subseteq shown[t].done
          /\ view[t].done \subseteq run.from.done \cup {run.question}
      BY <1>1 DEF PageFits, CopiesAgree
    <3>2. solved.done \subseteq shown[t].done \cup {Asked(t)} /\ shown[t].done \subseteq solved.done
      BY <1>3, <1>4, <3>1
    <3>3. run.question \in run.from.done => solved.done = stored[t].done
      BY <1>4, <3>1
    <3>4. /\ view'[t].done = stored'[t].done /\ shown[t].done \subseteq view'[t].done
          /\ view'[t].done \subseteq shown[t].done \cup {Asked(t)}
      BY <1>7, <3>1, <3>2, <3>3
    <3> QED BY <1>1, <1>6, <2>1, <3>4 DEF CopiesAgree
  <2> QED BY <2>3, <2>4, <2>5 DEF PageFits
<1>10. \A u \in Tabs \ {t} : PageFits(u)'
  BY <1>1, <1>6, OtherPage
<1>11. TypeOK'
  BY <1>1, <1>6 DEF TypeOK
<1> QED BY <1>4, <1>6, <1>7, <1>8, <1>9, <1>10, <1>11 DEF PracticeInv

-----------------------------------------------------------------------------
\* Every step keeps the invariant.

\* Every step keeps the copies in agreement and the history single.
LEMMA NextFits ==
  PracticeInv /\ [Next]_vars => PracticeInv' /\ (RecordedOnce => RecordedOnce')
<1> SUFFICES ASSUME PracticeInv, [Next]_vars PROVE PracticeInv' /\ (RecordedOnce => RecordedOnce')
  OBVIOUS
<1>1. ASSUME UNCHANGED history PROVE RecordedOnce => RecordedOnce'
  BY <1>1 DEF RecordedOnce
<1>2. ASSUME NEW t \in Tabs, Launch(t) \/ Open(t) \/ Rerender(t) \/ Step(t) \/ Run(t) \/ RunEnds(t)
      PROVE  PracticeInv' /\ (RecordedOnce => RecordedOnce')
  <2>1. PracticeInv'
    BY <1>2, LaunchFits, OpenFits, RerenderFits, StepFits, RunFits, RunEndsFits
  <2>2. UNCHANGED history
    BY <1>2 DEF Launch, Open, Rerender, Step, Run, RunEnds
  <2> QED BY <2>1, <2>2, <1>1
<1>3. ASSUME NEW t \in Tabs, Leave(t) \/ PracticeAgain(t)
      PROVE  PracticeInv' /\ (RecordedOnce => RecordedOnce')
  <2>1. /\ Forget(t) /\ UNCHANGED <<catalog, due, reports, started, history>>
        /\ UNCHANGED stored \/ stored' = [stored EXCEPT ![t] = NoSession]
    BY <1>3 DEF Leave, PracticeAgain
  <2> QED BY <2>1, <1>1, ForgetFits
<1>4. ASSUME NEW t \in Tabs, Finish(t) \/ Tick(t)
      PROVE  PracticeInv' /\ (RecordedOnce => RecordedOnce')
  BY <1>4, FinishFits, TickFits
<1>5. ASSUME UNCHANGED <<stored, open, view, shown, known, runs, started>>, TypeOK'
      PROVE  PracticeInv'
  <2>1. \A u \in Tabs : PageFits(u)'
    BY <1>5, OtherPage
  <2> QED BY <2>1, <1>5 DEF PracticeInv
<1>6. TypeOK
  BY DEF PracticeInv
<1>7. CASE ChangeCatalog \/ ClearHistory \/ UNCHANGED vars
  <2>1. TypeOK'
    <3>1. CASE ChangeCatalog
      BY <1>6, <3>1 DEF TypeOK, ChangeCatalog
    <3>2. CASE ClearHistory
      <4>1. history' = <<>> /\ Len(<<>>) = 0
        BY <3>2 DEF ClearHistory
      <4>2. history' \in Seq([id : Ids, done : SUBSET Questions]) /\ Len(history') <= MaxHistory
        BY <4>1, SizesAssumption
      <4> QED BY <1>6, <3>2, <4>2 DEF TypeOK, ClearHistory
    <3>3. CASE UNCHANGED vars
      BY <1>6, <3>3 DEF TypeOK, vars
    <3> QED BY <1>7, <3>1, <3>2, <3>3
  <2>2. UNCHANGED <<stored, open, view, shown, known, runs, started>>
    BY <1>7 DEF ChangeCatalog, ClearHistory, vars
  <2>3. RecordedOnce => RecordedOnce'
    BY <1>7 DEF ChangeCatalog, ClearHistory, vars, RecordedOnce
  <2> QED BY <2>1, <2>2, <2>3, <1>5
<1>8. CASE PassEnd
  <2>1. UNCHANGED <<stored, open, view, shown, known, runs, started, history, catalog, reported, reports>>
    BY <1>8 DEF PassEnd
  <2>2. PICK t \in Tabs : stored[t].timed /\ due' = due \cup {stored[t].id}
    BY <1>8 DEF PassEnd
  <2>3. stored[t].id \in Ids
    BY <1>6, <2>2, SizesAssumption DEF PracticeInv, PageFits, SessionsAgree, Genuine, TypeOK, Ids
  <2>4. TypeOK'
    BY <1>6, <2>1, <2>2, <2>3 DEF TypeOK
  <2> QED BY <2>1, <2>4, <1>1, <1>5
<1> QED BY <1>2, <1>3, <1>4, <1>7, <1>8 DEF Next

\* What a step may do to the session a tab holds.
LEMMA StoredStep ==
  ASSUME PracticeInv, [Next]_vars, NEW t \in Tabs, stored'[t] # stored[t]
  PROVE  \/ ~open[t] /\ stored'[t].id = started + 1
         \/ stored'[t].id = 0 /\ stored[t].id # 0
         \/ /\ open[t] /\ stored'[t].id = stored[t].id
            /\ stored'[t].done = shown[t].done \/ stored[t].done \subseteq stored'[t].done
<1>1. TypeOK /\ stored \in [Tabs -> Session]
  BY DEF PracticeInv, TypeOK
<1>2. CASE UNCHANGED stored
  BY <1>2
<1>3. ASSUME NEW u \in Tabs, Launch(u), u = t PROVE ~open[t] /\ stored'[t].id = started + 1
  BY <1>1, <1>3 DEF Launch, Write, NoSession
<1>4. ASSUME NEW u \in Tabs, PracticeAgain(u), u = t PROVE stored'[t].id = 0 /\ stored[t].id # 0
  <2>1. shown[t].status = "finished" /\ open[t] /\ stored' = [stored EXCEPT ![t] = NoSession]
    BY <1>4 DEF PracticeAgain
  <2>2. shown[t].id \in 1..started /\ shown[t].id = stored[t].id
    BY <2>1, ShownCopy DEF Genuine
  <2>3. started \in Nat
    BY <1>1, SizesAssumption DEF TypeOK
  <2> QED BY <1>1, <2>1, <2>2, <2>3 DEF NoSession
<1>5. ASSUME NEW u \in Tabs, Step(u) \/ Finish(u), u = t
      PROVE  open[t] /\ stored'[t].id = stored[t].id /\ stored'[t].done = shown[t].done
  <2>1. open[t]
    BY <1>5 DEF Step, Finish
  <2>2. shown[t] \in Session /\ shown[t].id = stored[t].id
    BY <2>1, ShownCopy
  <2>3. PICK s : Write(t, s) /\ s.id = shown[t].id /\ s.done = shown[t].done
    <3>1. CASE Step(t)
      <4>1. PICK i : Write(t, [shown[t] EXCEPT !.index = i])
        BY <3>1 DEF Step
      <4> QED BY <2>2, <4>1 DEF Session
    <3>2. CASE Finish(t)
      <4>1. Write(t, Finished(shown[t]))
        BY <3>2 DEF Finish
      <4> QED BY <2>2, <4>1 DEF Session, Finished
    <3> QED BY <1>5, <3>1, <3>2
  <2> QED BY <1>1, <2>1, <2>2, <2>3 DEF Write
<1>6. ASSUME NEW u \in Tabs, Tick(u), u = t
      PROVE  open[t] /\ stored'[t].id = stored[t].id /\ stored'[t].done = stored[t].done
  BY <1>1, <1>6 DEF Tick, Finished, Session
<1>7. ASSUME NEW u \in Tabs, RunEnds(u), u = t
      PROVE  open[t] /\ stored'[t].id = stored[t].id /\ stored[t].done \subseteq stored'[t].done
  BY <1>7, RunEndsFits DEF RunEnds, PracticeInv, PageFits, SessionsAgree
<1>8. ASSUME NEW u \in Tabs, u # t,
             Launch(u) \/ PracticeAgain(u) \/ Step(u) \/ Finish(u) \/ Tick(u) \/ RunEnds(u)
      PROVE  stored'[t] = stored[t]
  <2>1. CASE RunEnds(u)
    BY <1>8, <2>1, RunEndsFits
  <2>2. CASE Launch(u) \/ PracticeAgain(u) \/ Step(u) \/ Finish(u) \/ Tick(u)
    BY <1>1, <1>8, <2>2 DEF Launch, PracticeAgain, Step, Finish, Tick, Write
  <2> QED BY <1>8, <2>1, <2>2
<1>9. \/ UNCHANGED stored
      \/ \E u \in Tabs : Launch(u) \/ PracticeAgain(u) \/ Step(u) \/ Finish(u) \/ Tick(u) \/ RunEnds(u)
  BY DEF Next, vars, Open, Leave, Run, Rerender, ChangeCatalog, PassEnd, ClearHistory
<1> QED BY <1>2, <1>3, <1>4, <1>5, <1>6, <1>7, <1>8, <1>9

-----------------------------------------------------------------------------
\* The practice pages keep their invariant, however late they render.
THEOREM PracticeInvariant == Spec => [](PracticeInv /\ RecordedOnce)
<1>1. Init => PracticeInv /\ RecordedOnce
  BY InitFits
<1>2. (PracticeInv /\ RecordedOnce) /\ [Next]_vars => (PracticeInv /\ RecordedOnce)'
  BY NextFits
<1> QED BY <1>1, <1>2, PTL DEF Spec

\* Every variable of the practice pages keeps its type: the index of a session
\* is one of its questions, and reports and records are of sessions started.
THEOREM PracticeTypes == Spec => []TypeOK
<1>1. PracticeInv => TypeOK
  BY DEF PracticeInv
<1> QED BY <1>1, PracticeInvariant, PTL

\* A session has one record in the history, however often it is finished.
THEOREM OneRecord == Spec => []RecordedOnce
<1> QED BY PracticeInvariant, PTL

\* A page that has rendered its session loses no completed question of it.
THEOREM CompletionsAreKept == Spec => SettledPageKeepsCompletions
<1> DEFINE Keep == \A t \in Tabs : /\ open[t] /\ Settled(t) /\ shown[t] = stored[t]
                                   /\ stored'[t].id = stored[t].id
                                   => stored[t].done \subseteq stored'[t].done
<1>1. PracticeInv /\ [Next]_vars => Keep
  BY StoredStep
<1>2. PracticeInv /\ [Next]_vars => [Keep]_vars
  BY <1>1
<1> QED BY <1>2, PracticeInvariant, PTL DEF Spec, SettledPageKeepsCompletions

\* A session a tab has left does not come back by a late answer or timer.
THEOREM LeftSessionsStayAway == Spec => OldSessionNeverReturns
<1> DEFINE Away == \A t \in Tabs : stored'[t].id # stored[t].id => stored'[t].id \in {0, started + 1}
<1>1. PracticeInv /\ [Next]_vars => Away
  BY StoredStep
<1>2. PracticeInv /\ [Next]_vars => [Away]_vars
  BY <1>1
<1> QED BY <1>2, PracticeInvariant, PTL DEF Spec, OldSessionNeverReturns

\* Whatever answers late, a tab's session loses nothing and does not return.
THEOREM ForwardOnly == Spec => TabsMoveForward
BY CompletionsAreKept, LeftSessionsStayAway DEF TabsMoveForward

-------------------------------------------------------------------------------
\* Every set of numbers that is not empty has a least one.
LEMMA Least ==
  ASSUME NEW nums \in SUBSET Nat, nums # {}
  PROVE  \E x \in nums : \A y \in nums : x <= y
<1>0. nums \subseteq Nat /\ nums # {}
  OBVIOUS
<1> DEFINE less == OpToRel(<, Nat)
<1>1. IsWellFoundedOn(less, Nat)
  BY NatLessThanWellFounded
<1>2. \A x, y \in Nat : x < y => <<x, y>> \in less
  BY DEF OpToRel
<1> HIDE DEF less
<1>3. PICK x \in nums : \A y \in nums : ~ (<<y, x>> \in less)
  BY <1>0, <1>1, WFMin
<1>4. ASSUME NEW y \in nums PROVE x <= y
  <2>1. x \in Nat /\ y \in Nat /\ <<y, x>> \notin less
    BY <1>0, <1>3
  <2>2. ~ (y < x)
    BY <1>2, <2>1
  <2> QED BY <2>1, <2>2
<1> QED BY <1>3, <1>4

\* A sequence is indexed from one to its length.
LEMMA SequenceFacts ==
  ASSUME NEW s, IsSequence(s)
  PROVE  Len(s) \in Nat /\ DOMAIN s = 1..Len(s)
BY LenProperties DEF IsSequence

-----------------------------------------------------------------------------
\* The comparison of results.

\* What rowsHaveSameValues finds for row n, after the rows before it.
Free(actual, expected, match, n) ==
  {i \in DOMAIN expected : expected[i] = actual[n] /\ \A m \in 1..(n - 1) : match[m] # i}
First(places) == IF places = {} THEN 0 ELSE CHOOSE i \in places : \A j \in places : i <= j
FirstFree(actual, expected, match, n) == First(Free(actual, expected, match, n))

\* The matching of the first k rows, each with the first free equal one, exists.
LEMMA MatchExists ==
  ASSUME NEW actual, NEW expected, NEW k \in Nat
  PROVE  \E f : f = [n \in 1..k |-> FirstFree(actual, expected, f, n)]
<1> DEFINE Good(j) == \E f : f = [n \in 1..j |-> FirstFree(actual, expected, f, n)]
           Bad == {j \in Nat : ~Good(j)}
<1>1. Good(0)
  <2>1. << >> = [n \in 1..0 |-> FirstFree(actual, expected, << >>, n)]
    OBVIOUS
  <2> QED BY <2>1
<1>2. ASSUME NEW j \in Nat, Good(j) PROVE Good(j + 1)
  <2>1. PICK f : f = [n \in 1..j |-> FirstFree(actual, expected, f, n)]
    BY <1>2
  <2> DEFINE last1 == FirstFree(actual, expected, f, j + 1)
             g == [n \in 1..(j + 1) |-> IF n = j + 1 THEN last1 ELSE f[n]]
  <2>2. \A n \in 1..(j + 1) : Free(actual, expected, g, n) = Free(actual, expected, f, n)
    <3> SUFFICES ASSUME NEW n \in 1..(j + 1)
                 PROVE  Free(actual, expected, g, n) = Free(actual, expected, f, n)
      OBVIOUS
    <3>1. \A m \in 1..(n - 1) : g[m] = f[m]
      OBVIOUS
    <3> QED BY <3>1 DEF Free
  <2>3. \A n \in 1..(j + 1) : FirstFree(actual, expected, g, n) = FirstFree(actual, expected, f, n)
    BY <2>2 DEF FirstFree
  <2>4. \A n \in 1..j : f[n] = FirstFree(actual, expected, f, n)
    BY <2>1
  <2>5. g = [n \in 1..(j + 1) |-> FirstFree(actual, expected, g, n)]
    <3> SUFFICES ASSUME NEW n \in 1..(j + 1) PROVE g[n] = FirstFree(actual, expected, g, n)
      OBVIOUS
    <3>1. CASE n = j + 1
      BY <3>1, <2>3
    <3>2. CASE n # j + 1
      BY <3>2, <2>3, <2>4
    <3> QED BY <3>1, <3>2
  <2> QED BY <2>5
<1>3. Bad = {}
  <2> HIDE DEF Good
  <2> SUFFICES ASSUME Bad # {} PROVE FALSE
    OBVIOUS
  <2>1. PICK j \in Bad : \A i \in Bad : j <= i
    BY Least
  <2>2. j # 0
    BY <1>1
  <2>3. Good(j - 1)
    BY <2>1, <2>2
  <2> QED BY <2>2, <2>3, <1>2
<1> QED BY <1>3

\* MatchOf is that matching: what its recursion says holds of it.
LEMMA MatchFits ==
  ASSUME NEW actual, IsSequence(actual), NEW expected
  PROVE  MatchOf(actual, expected) =
           [n \in DOMAIN actual |-> FirstFree(actual, expected, MatchOf(actual, expected), n)]
<1>1. DOMAIN actual = 1..Len(actual) /\ Len(actual) \in Nat
  BY SequenceFacts
<1>2. \E f : f = [n \in DOMAIN actual |-> FirstFree(actual, expected, f, n)]
  <2>1. \E f : f = [n \in 1..Len(actual) |-> FirstFree(actual, expected, f, n)]
    BY <1>1, MatchExists
  <2> QED BY <2>1, <1>1
<1> DEFINE F(f) == [n \in DOMAIN actual |-> FirstFree(actual, expected, f, n)]
<1>3. MatchOf(actual, expected) = CHOOSE f : f = F(f)
  BY DEF MatchOf, FirstFree, First, Free
<1>4. \E f : f = F(f)
  BY <1>2
<1> HIDE DEF F
<1>5. MatchOf(actual, expected) = F(MatchOf(actual, expected))
  BY <1>3, <1>4
<1> QED BY <1>5 DEF F

-----------------------------------------------------------------------------
\* What the matching finds: for each row the first equal one that is free.
LEMMA MatchFinds ==
  ASSUME NEW actual, IsSequence(actual), NEW expected, IsSequence(expected),
         NEW n \in DOMAIN actual
  PROVE  LET match == MatchOf(actual, expected) IN
         \/ /\ match[n] \in DOMAIN expected /\ expected[match[n]] = actual[n]
            /\ \A m \in 1..(n - 1) : match[m] # match[n]
         \/ /\ match[n] = 0
            /\ \A i \in DOMAIN expected : expected[i] = actual[n] => \E m \in 1..(n - 1) : match[m] = i
<1> DEFINE match == MatchOf(actual, expected)
           places == Free(actual, expected, match, n)
<1>1. match[n] = First(places)
  BY MatchFits DEF FirstFree
<1>2. CASE places = {}
  <2>1. match[n] = 0
    BY <1>1, <1>2 DEF First
  <2> QED BY <2>1, <1>2 DEF Free
<1>3. CASE places # {}
  <2>1. places \in SUBSET Nat
    BY SequenceFacts DEF Free
  <2>2. \E i \in places : \A j \in places : i <= j
    <3> HIDE DEF places
    <3> QED BY <2>1, <1>3, Least
  <2>3. match[n] \in places
    <3> HIDE DEF places
    <3> QED BY <2>2, <1>1, <1>3 DEF First
  <2> QED BY <2>3 DEF Free
<1> QED BY <1>2, <1>3

Pairs(pi, actual, expected) ==
  /\ pi \in Bijection(DOMAIN actual, DOMAIN expected)
  /\ \A n \in DOMAIN actual : actual[n] = expected[pi[n]]

\* What the library's Bijection means, element by element.
LEMMA BijectionFacts ==
  ASSUME NEW S, NEW T, NEW pi
  PROVE  pi \in Bijection(S, T) <=>
           /\ pi \in [S -> T]
           /\ \A x, y \in S : pi[x] = pi[y] => x = y
           /\ \A z \in T : \E x \in S : pi[x] = z
<1> DEFINE one == \A x, y \in S : pi[x] = pi[y] => x = y
           onto == \A z \in T : \E x \in S : pi[x] = z
<1>1. pi \in Injection(S, T) <=> pi \in [S -> T] /\ one
  BY DEF Injection, IsInjective
<1>2. pi \in Surjection(S, T) <=> pi \in [S -> T] /\ onto
  BY DEF Surjection
<1> HIDE DEF one, onto
<1>3. pi \in Bijection(S, T) <=> pi \in [S -> T] /\ one /\ onto
  BY <1>1, <1>2 DEF Bijection
<1> QED BY <1>3 DEF one, onto

\* There are n numbers from one to n.
LEMMA IntervalSize ==
  ASSUME NEW n \in Nat
  PROVE  IsFiniteSet(1..n) /\ Cardinality(1..n) = n
<1>1. IsFiniteSet(1..n) /\ Cardinality(1..n) = IF 1 > n THEN 0 ELSE n - 1 + 1
  BY FS_Interval
<1> QED BY <1>1

\* A function on the numbers from one to n is a sequence of length n.
LEMMA FunctionIsSequence ==
  ASSUME NEW n \in Nat, NEW s, s = [i \in 1..n |-> s[i]]
  PROVE  IsSequence(s) /\ Len(s) = n /\ DOMAIN s = 1..n
<1> DEFINE S == {s[i] : i \in DOMAIN s}
<1>1. DOMAIN s = 1..n
  OBVIOUS
<1>2. s \in [1..n -> S]
  BY <1>1
<1> HIDE DEF S
<1>3. s \in Seq(S)
  BY <1>2, SeqDef
<1>4. Len(s) \in Nat /\ DOMAIN s = 1..Len(s)
  BY <1>3, LenProperties
<1>5. Len(s) = n
  BY <1>1, <1>4, IntervalSize
<1> QED BY <1>1, <1>3, <1>5 DEF IsSequence, S

\* What the library's Injection means, element by element.
LEMMA InjectionFacts ==
  ASSUME NEW S, NEW T, NEW pi \in [S -> T], \A x, y \in S : pi[x] = pi[y] => x = y
  PROVE  pi \in Injection(S, T)
BY DEF Injection, IsInjective

\* Rows of the same number that are matched without a gap are the same rows.
LEMMA AcceptedPairs ==
  ASSUME NEW actual, IsSequence(actual), NEW expected, IsSequence(expected),
         RowsEqualIgnoringOrder(actual, expected)
  PROVE  Pairs(MatchOf(actual, expected), actual, expected)
<1> DEFINE match == MatchOf(actual, expected)
           N == Len(actual)
<1>1. N \in Nat /\ DOMAIN actual = 1..N /\ DOMAIN expected = 1..N
  BY SequenceFacts DEF RowsEqualIgnoringOrder
<1>2. \A n \in 1..N : match[n] # 0
  BY <1>1 DEF RowsEqualIgnoringOrder
<1>3. \A n \in 1..N : /\ match[n] \in 1..N /\ expected[match[n]] = actual[n]
                     /\ \A m \in 1..(n - 1) : match[m] # match[n]
  <2> SUFFICES ASSUME NEW n \in 1..N
               PROVE  /\ match[n] \in 1..N /\ expected[match[n]] = actual[n]
                      /\ \A m \in 1..(n - 1) : match[m] # match[n]
    OBVIOUS
  <2> QED BY <1>1, <1>2, MatchFinds
<1>4. DOMAIN match = 1..N /\ match = [n \in 1..N |-> match[n]]
  <2>1. match = [n \in DOMAIN actual |-> FirstFree(actual, expected, match, n)]
    BY MatchFits
  <2> HIDE DEF match
  <2> QED BY <2>1, <1>1
<1> HIDE DEF match
<1>5. match \in [1..N -> 1..N]
  BY <1>3, <1>4
<1>6. \A x, y \in 1..N : match[x] = match[y] => x = y
  <2> SUFFICES ASSUME NEW x \in 1..N, NEW y \in 1..N, match[x] = match[y], x < y PROVE FALSE
    BY <1>1
  <2>1. x \in 1..(y - 1)
    BY <1>1
  <2> QED BY <2>1, <1>3
<1>7. IsFiniteSet(1..N)
  BY <1>1, IntervalSize
<1>8. match \in Injection(1..N, 1..N)
  BY <1>5, <1>6, InjectionFacts
<1>9. match \in Surjection(1..N, 1..N)
  BY <1>7, <1>8, FS_Injection
<1>10. match \in Bijection(1..N, 1..N)
  BY <1>8, <1>9 DEF Bijection
<1> QED BY <1>10, <1>1, <1>3 DEF Pairs, match

\* Rows that can be paired are all matched: otherwise the equal rows before the
\* first gap would take more of the expected ones than there are.
LEMMA PairedAccepted ==
  ASSUME NEW actual, IsSequence(actual), NEW expected, IsSequence(expected),
         NEW pi, Pairs(pi, actual, expected)
  PROVE  RowsEqualIgnoringOrder(actual, expected)
<1> DEFINE match == MatchOf(actual, expected)
           N == Len(actual)
<1>1. /\ N \in Nat /\ DOMAIN actual = 1..N
      /\ Len(expected) \in Nat /\ DOMAIN expected = 1..Len(expected)
  BY SequenceFacts
<1>2. /\ pi \in [1..N -> DOMAIN expected]
      /\ \A x, y \in 1..N : pi[x] = pi[y] => x = y
      /\ \A n \in 1..N : actual[n] = expected[pi[n]]
  BY <1>1, BijectionFacts DEF Pairs
<1>3. Len(expected) = N
  <2>1. pi \in Bijection(1..N, 1..Len(expected))
    BY <1>1 DEF Pairs
  <2>2. ExistsBijection(1..N, 1..Len(expected))
    BY <2>1 DEF ExistsBijection
  <2>3. IsFiniteSet(1..N) /\ Cardinality(1..N) = N
    BY <1>1, IntervalSize
  <2>4. Cardinality(1..Len(expected)) = Len(expected)
    BY <1>1, IntervalSize
  <2> QED BY <2>2, <2>3, <2>4, FS_Bijection
<1>4. ASSUME NEW n \in 1..N, match[n] = 0 PROVE FALSE
  <2> DEFINE A == {m \in 1..N : actual[m] = actual[n]}
             E == {i \in 1..N : expected[i] = actual[n]}
             taker == [i \in E |-> CHOOSE m \in 1..(n - 1) : match[m] = i]
  <2>1. \A i \in E : \E m \in 1..(n - 1) : match[m] = i
    <3>1. 0 \notin DOMAIN expected
      BY <1>1
    <3> QED BY <3>1, <1>1, <1>3, <1>4, MatchFinds
  <2>2. \A i \in E : taker[i] \in 1..(n - 1) /\ match[taker[i]] = i
    <3> SUFFICES ASSUME NEW i \in E PROVE taker[i] \in 1..(n - 1) /\ match[taker[i]] = i
      OBVIOUS
    <3> HIDE DEF match
    <3> QED BY <2>1
  <2>3. \A i \in E : taker[i] \in A \ {n}
    <3> SUFFICES ASSUME NEW i \in E PROVE taker[i] \in A \ {n}
      OBVIOUS
    <3>1. taker[i] \in 1..N /\ taker[i] # n
      BY <2>2, <1>1
    <3>2. match[taker[i]] # 0
      BY <2>2, <1>1
    <3> HIDE DEF taker
    <3>3. expected[match[taker[i]]] = actual[taker[i]]
      BY <3>1, <3>2, <1>1, MatchFinds
    <3> QED BY <3>1, <3>3, <2>2
  <2>4. taker \in [E -> A \ {n}]
    BY <2>3
  <2>5. \A x, y \in E : taker[x] = taker[y] => x = y
    <3> HIDE DEF taker, E, A, match
    <3> QED BY <2>2
  <2>6. IsFiniteSet(1..N)
    BY <1>1, IntervalSize
  <2>7. IsFiniteSet(A)
    <3>1. A \in SUBSET (1..N)
      OBVIOUS
    <3> QED BY <3>1, <2>6, FS_Subset
  <2>8. IsFiniteSet(E)
    <3>1. E \in SUBSET (1..N)
      OBVIOUS
    <3> QED BY <3>1, <2>6, FS_Subset
  <2>9. n \in A
    OBVIOUS
  <2> DEFINE mate == [m \in A |-> pi[m]]
  <2>10. mate \in [A -> E] /\ \A x, y \in A : mate[x] = mate[y] => x = y
    BY <1>1, <1>2, <1>3
  <2> HIDE DEF A, E, taker, mate
  <2>11. IsFiniteSet(A \ {n}) /\ Cardinality(A \ {n}) = Cardinality(A) - 1
    BY <2>7, <2>9, FS_RemoveElement
  <2>12. Cardinality(E) <= Cardinality(A \ {n})
    <3>1. taker \in Injection(E, A \ {n})
      BY <2>4, <2>5, InjectionFacts
    <3> QED BY <3>1, <2>11, FS_Injection
  <2>13. Cardinality(A) <= Cardinality(E)
    <3>1. mate \in Injection(A, E)
      BY <2>10, InjectionFacts
    <3> QED BY <3>1, <2>8, FS_Injection
  <2>14. Cardinality(A) \in Nat /\ Cardinality(E) \in Nat
    BY <2>7, <2>8, FS_CardinalityType
  <2> QED BY <2>11, <2>12, <2>13, <2>14
<1>5. \A n \in 1..N : match[n] # 0
  <2> HIDE DEF match
  <2> QED BY <1>4
<1> QED BY <1>1, <1>3, <1>5 DEF RowsEqualIgnoringOrder

\* Two results are equal when their order does not count if and only if their
\* rows can be paired, each with one equal to it, whatever rows come twice.
THEOREM ComparisonIsOfBags ==
  \A actual, expected : IsSequence(actual) /\ IsSequence(expected) =>
    (RowsEqualIgnoringOrder(actual, expected) <=>
       \E pi \in Bijection(DOMAIN actual, DOMAIN expected) :
         \A n \in DOMAIN actual : actual[n] = expected[pi[n]])
<1> SUFFICES ASSUME NEW actual, NEW expected, IsSequence(actual), IsSequence(expected)
             PROVE  RowsEqualIgnoringOrder(actual, expected) <=> \E pi : Pairs(pi, actual, expected)
  BY DEF Pairs
<1> QED BY AcceptedPairs, PairedAccepted

-----------------------------------------------------------------------------
\* Verdicts.

\* A map between intervals that grows and misses nothing changes nothing.
GrowsOnto(at, n, m) ==
  /\ at \in [1..n -> 1..m]
  /\ \A i, j \in 1..n : i < j => at[i] < at[j]
  /\ \A p \in 1..m : \E i \in 1..n : at[i] = p

\* A growing function of an interval onto an interval leaves every number as it is.
LEMMA GrowingIsIdentity ==
  ASSUME NEW n \in Nat, NEW m \in Nat, NEW at, GrowsOnto(at, n, m)
  PROVE  n = m /\ \A i \in 1..n : at[i] = i
<1>0. /\ at \in [1..n -> 1..m]
      /\ \A i, j \in 1..n : i < j => at[i] < at[j]
      /\ \A p \in 1..m : \E i \in 1..n : at[i] = p
  BY DEF GrowsOnto
<1> DEFINE Bad == {i \in 1..n : at[i] # i}
<1>1. Bad = {}
  <2> SUFFICES ASSUME Bad # {} PROVE FALSE
    OBVIOUS
  <2>1. Bad \in SUBSET Nat
    OBVIOUS
  <2>2. PICK i \in Bad : \A j \in Bad : i <= j
    <3> HIDE DEF Bad
    <3> QED BY <2>1, Least
  <2>3. i \in 1..n /\ at[i] # i /\ at[i] \in 1..m
    BY <1>0
  <2>4. \A j \in 1..n : j < i => at[j] = j
    <3> SUFFICES ASSUME NEW j \in 1..n, j < i PROVE at[j] = j
      OBVIOUS
    <3>1. j \notin Bad
      <4> HIDE DEF Bad
      <4> QED BY <2>2, <2>3
    <3> QED BY <3>1
  <2> HIDE DEF Bad
  <2>5. at[i] > i
    <3>1. CASE i = 1
      BY <2>3, <3>1
    <3>2. CASE i # 1
      <4>1. i - 1 \in 1..n /\ i - 1 < i
        BY <2>3, <3>2
      <4>2. at[i - 1] = i - 1 /\ at[i - 1] < at[i]
        BY <1>0, <4>1, <2>3, <2>4
      <4> QED BY <4>2, <2>3
    <3> QED BY <3>1, <3>2
  <2>6. i \in 1..m
    BY <2>3, <2>5
  <2>7. PICK j \in 1..n : at[j] = i
    BY <1>0, <2>6
  <2>8. ~ (j < i)
    BY <2>4, <2>7
  <2>9. j # i
    BY <2>3, <2>7
  <2>10. i < j /\ at[i] < at[j]
    BY <1>0, <2>3, <2>8, <2>9
  <2> QED BY <2>5, <2>7, <2>10, <2>3
<1>2. \A i \in 1..n : at[i] = i
  BY <1>1
<1>3. n <= m
  <2>1. CASE n = 0
    BY <2>1
  <2>2. CASE n # 0
    <3>1. n \in 1..n
      BY <2>2
    <3> QED BY <1>0, <3>1, <1>2
  <2> QED BY <2>1, <2>2
<1>4. m <= n
  <2>1. CASE m = 0
    BY <2>1
  <2>2. CASE m # 0
    <3>1. m \in 1..m
      BY <2>2
    <3>2. PICK i \in 1..n : at[i] = m
      BY <1>0, <3>1
    <3> QED BY <3>2, <1>2
  <2> QED BY <2>1, <2>2
<1> QED BY <1>2, <1>3, <1>4

\* What the assumption on the bank says of a question with an expected result.
LEMMA ExpectedFacts ==
  ASSUME NEW id \in JudgedIds
  PROVE  LET q == Entry(id) IN
         /\ Expects(q.expected, q.ordered, q.answer)
         /\ IsSequence(q.expected) /\ q.expected # <<>> /\ q.ordered \in BOOLEAN
         /\ Len(q.expected) \in Nat \ {0} /\ DOMAIN q.expected = 1..Len(q.expected)
<1>1. Expects(Entry(id).expected, Entry(id).ordered, Entry(id).answer)
  BY ExpectedAssumption
<1>2. Entry(id).expected # <<>>
  BY DEF JudgedIds
<1> DEFINE expected == Entry(id).expected
<1>3. IsSequence(expected) /\ Entry(id).ordered \in BOOLEAN
  BY <1>1 DEF Expects
<1> HIDE DEF expected
<1>4. Len(expected) \in Nat /\ DOMAIN expected = 1..Len(expected)
  BY <1>3, SequenceFacts
<1>5. Len(expected) # 0
  BY <1>2, <1>3, EmptySeq DEF IsSequence, expected
<1> QED BY <1>1, <1>2, <1>3, <1>4, <1>5 DEF expected

\* Any answer of the reference solution that its ORDER BY allows is accepted.
LEMMA RightIsAccepted ==
  ASSUME NEW id \in JudgedIds, NEW rows \in RightAnswers(id)
  PROVE  ValidateResult(rows, Entry(id).expected, Entry(id).ordered)
<1> DEFINE answer == Entry(id).answer
           expected == Entry(id).expected
           ordered == Entry(id).ordered
           N == Len(expected)
<1>1. /\ Expects(expected, ordered, answer) /\ IsSequence(expected)
      /\ N \in Nat /\ DOMAIN expected = 1..N
  BY ExpectedFacts
<1>2. PICK s \in Arrangements(answer) :
         rows = [i \in DOMAIN s |-> s[i].row] /\ (ordered => InOrder(s))
  BY DEF RightAnswers
<1> HIDE DEF answer, expected, ordered
<1>3. Cardinality(answer) = N /\ ordered \in BOOLEAN
  BY <1>1 DEF Expects
<1>4. s \in [1..N -> answer] /\ \A i, j \in 1..N : s[i] = s[j] => i = j
  BY <1>3, <1>2 DEF Arrangements
<1>5. rows = [i \in 1..N |-> s[i].row]
  BY <1>2, <1>4
<1> DEFINE pi == [i \in 1..N |-> CHOOSE k \in 1..N : expected[k] = s[i].row]
<1>6. \A i \in 1..N : pi[i] \in 1..N /\ expected[pi[i]] = rows[i]
  <2> SUFFICES ASSUME NEW i \in 1..N PROVE pi[i] \in 1..N /\ expected[pi[i]] = rows[i]
    OBVIOUS
  <2>1. \E k \in 1..N : expected[k] = s[i].row
    BY <1>1, <1>4 DEF Expects
  <2> QED BY <2>1, <1>5
<1>7. pi \in [1..N -> 1..N]
  BY <1>6
<1> HIDE DEF pi
<1>8. \A i, j \in 1..N : pi[i] = pi[j] => i = j
  <2> SUFFICES ASSUME NEW i \in 1..N, NEW j \in 1..N, pi[i] = pi[j] PROVE i = j
    OBVIOUS
  <2>1. s[i].row = s[j].row
    BY <1>5, <1>6
  <2>2. s[i] = s[j]
    BY <2>1, <1>1, <1>4 DEF Expects
  <2> QED BY <2>2, <1>4
<1>9. pi \in Bijection(1..N, 1..N)
  <2>1. pi \in Injection(1..N, 1..N)
    BY <1>7, <1>8, InjectionFacts
  <2>2. IsFiniteSet(1..N)
    BY <1>1, IntervalSize
  <2>3. pi \in Surjection(1..N, 1..N)
    BY <2>1, <2>2, FS_Injection
  <2> QED BY <2>1, <2>3 DEF Bijection
<1>10. IsSequence(rows) /\ Len(rows) = N /\ DOMAIN rows = 1..N
  BY <1>1, <1>5, FunctionIsSequence
<1>11. CASE ~ordered
  <2>1. Pairs(pi, rows, expected)
    BY <1>1, <1>6, <1>9, <1>10 DEF Pairs
  <2>2. RowsEqualIgnoringOrder(rows, expected)
    BY <2>1, <1>1, <1>10, PairedAccepted
  <2> QED BY <2>2, <1>11 DEF ValidateResult, expected, ordered
<1>12. CASE ordered
  <2>1. \A i, j \in 1..N : i < j => pi[i] < pi[j]
    <3> SUFFICES ASSUME NEW i \in 1..N, NEW j \in 1..N, i < j PROVE pi[i] < pi[j]
      OBVIOUS
    <3>1. ~Before(s[j].key, s[i].key)
      BY <1>2, <1>4, <1>12 DEF InOrder
    <3>2. s[i] \in answer /\ s[j] \in answer
      BY <1>4
    <3>3. expected[pi[i]] = s[i].row /\ expected[pi[j]] = s[j].row /\ pi[i] \in 1..N /\ pi[j] \in 1..N
      BY <1>5, <1>6
    <3>4. pi[j] < pi[i] => Before(s[j].key, s[i].key)
      BY <3>2, <3>3, <1>1, <1>12 DEF Expects
    <3>5. pi[i] # pi[j]
      BY <1>1, <1>8
    <3> QED BY <3>1, <3>3, <3>4, <3>5
  <2>2. \A p \in 1..N : \E i \in 1..N : pi[i] = p
    BY <1>9 DEF Bijection, Surjection
  <2>3. \A i \in 1..N : pi[i] = i
    <3>1. GrowsOnto(pi, N, N)
      BY <2>1, <2>2, <1>7 DEF GrowsOnto
    <3> QED BY <3>1, <1>1, GrowingIsIdentity
  <2>4. \A i \in 1..N : rows[i] = expected[i]
    BY <2>3, <1>6
  <2> QED BY <2>4, <1>10, <1>12 DEF ValidateResult, RowsEqualInOrder, expected, ordered
<1> QED BY <1>11, <1>12

\* A result with a row too few or too many is refused.
LEMMA OtherLength ==
  ASSUME NEW rows, NEW expected, Len(rows) # Len(expected), NEW ordered
  PROVE  ~ValidateResult(rows, expected, ordered)
BY DEF ValidateResult, RowsEqualInOrder, RowsEqualIgnoringOrder

\* An answer with a row too few, twice, changed or out of order is refused.
LEMMA WrongIsRefused ==
  ASSUME NEW id \in JudgedIds, NEW rows \in WrongAnswers(id)
  PROVE  ~ValidateResult(rows, Entry(id).expected, Entry(id).ordered)
<1> DEFINE expected == Entry(id).expected
           ordered == Entry(id).ordered
           N == Len(expected)
           values == {expected[i] : i \in DOMAIN expected}
<1>1. /\ Expects(expected, ordered, Entry(id).answer) /\ IsSequence(expected)
      /\ N \in Nat \ {0} /\ DOMAIN expected = 1..N /\ expected \in Seq(values)
  BY ExpectedFacts DEF IsSequence
<1>2. \A i, j \in 1..N : expected[i] = expected[j] => i = j
  BY <1>1 DEF Expects
<1>3. \/ rows = SubSeq(expected, 1, N - 1)
      \/ \E i \in 1..N : rows = Append(expected, expected[i])
      \/ \E i, j \in 1..N : i # j /\ rows = [expected EXCEPT ![i] = expected[j]]
      \/ ordered /\ \E i, j \in 1..N : i # j /\ rows = Swapped(expected, i, j)
  BY <1>1 DEF WrongAnswers
<1> HIDE DEF expected, ordered
<1>4. CASE rows = SubSeq(expected, 1, N - 1)
  <2>1. Len(rows) = N - 1
    BY <1>1, <1>4, SubSeqProperties
  <2> QED BY <2>1, <1>1, OtherLength DEF expected, ordered
<1>5. ASSUME NEW i \in 1..N, rows = Append(expected, expected[i])
      PROVE  ~ValidateResult(rows, expected, ordered)
  <2>1. expected[i] \in values
    BY <1>1
  <2>2. Len(rows) = N + 1
    <3> HIDE DEF values
    <3> QED BY <1>1, <1>5, <2>1, AppendProperties
  <2> QED BY <2>2, <1>1, OtherLength
<1>6. ASSUME NEW i \in 1..N, NEW j \in 1..N, i # j, rows = [expected EXCEPT ![i] = expected[j]]
      PROVE  ~ValidateResult(rows, expected, ordered)
  <2>1. /\ rows = [k \in 1..N |-> rows[k]]
        /\ rows[i] = expected[j] /\ \A k \in 1..N \ {i} : rows[k] = expected[k]
    <3>1. expected = [k \in 1..N |-> expected[k]]
      BY <1>1
    <3> QED BY <3>1, <1>6
  <2>2. IsSequence(rows) /\ DOMAIN rows = 1..N
    BY <2>1, <1>1, FunctionIsSequence
  <2>3. ~RowsEqualInOrder(rows, expected)
    BY <2>1, <2>2, <1>2, <1>6 DEF RowsEqualInOrder
  <2>4. ASSUME RowsEqualIgnoringOrder(rows, expected) PROVE FALSE
    <3> DEFINE pi == MatchOf(rows, expected)
    <3>1. Pairs(pi, rows, expected)
      BY <2>2, <2>4, <1>1, AcceptedPairs
    <3> HIDE DEF pi
    <3>2. PICK m \in 1..N : pi[m] = i
      <4>1. pi \in Bijection(1..N, 1..N)
        BY <3>1, <2>2, <1>1 DEF Pairs
      <4>2. \A z \in 1..N : \E x \in 1..N : pi[x] = z
        BY <4>1 DEF Bijection, Surjection
      <4>3. i \in 1..N
        BY <1>6
      <4> QED BY <4>2, <4>3
    <3>3. rows[m] = expected[i]
      BY <3>1, <3>2, <2>2 DEF Pairs
    <3> QED BY <3>3, <2>1, <1>2, <1>6
  <2> QED BY <2>3, <2>4 DEF ValidateResult
<1>7. ASSUME ordered, NEW i \in 1..N, NEW j \in 1..N, i # j, rows = Swapped(expected, i, j)
      PROVE  ~ValidateResult(rows, expected, ordered)
  <2>1. DOMAIN rows = 1..N /\ rows[i] = expected[j]
    BY <1>1, <1>7 DEF Swapped
  <2>2. ~RowsEqualInOrder(rows, expected)
    BY <2>1, <1>2, <1>7 DEF RowsEqualInOrder
  <2> QED BY <2>2, <1>7 DEF ValidateResult
<1> QED BY <1>3, <1>4, <1>5, <1>6, <1>7 DEF expected, ordered

\* The answers of later submissions.
LEMMA LaterAnswers ==
  ASSUME NEW id \in JudgedIds
  PROVE  /\ ValidateResult(Entry(id).expected, Entry(id).expected, Entry(id).ordered)
         /\ ~ValidateResult(Tail(Entry(id).expected), Entry(id).expected, Entry(id).ordered)
<1> DEFINE expected == Entry(id).expected
           N == Len(expected)
           same == [i \in 1..N |-> i]
<1>1. IsSequence(expected) /\ N \in Nat \ {0} /\ DOMAIN expected = 1..N /\ expected # <<>>
  BY ExpectedFacts
<1> HIDE DEF expected
<1>2. RowsEqualInOrder(expected, expected)
  BY <1>1 DEF RowsEqualInOrder
<1>3. RowsEqualIgnoringOrder(expected, expected)
  <2>1. same \in Bijection(1..N, 1..N)
    BY BijectionFacts
  <2>2. Pairs(same, expected, expected)
    BY <2>1, <1>1 DEF Pairs
  <2> QED BY <2>2, <1>1, PairedAccepted
<1>4. Len(Tail(expected)) = N - 1
  BY <1>1, HeadTailProperties DEF IsSequence
<1>5. ~ValidateResult(Tail(expected), expected, Entry(id).ordered)
  <2>1. \A a, b : b \in Nat /\ a = b - 1 => a # b
    OBVIOUS
  <2>2. N \in Nat
    BY <1>1
  <2>3. Len(Tail(expected)) # N
    BY <2>1, <2>2, <1>4
  <2> QED BY <2>3, OtherLength
<1> QED BY <1>2, <1>3, <1>5 DEF ValidateResult, expected

-----------------------------------------------------------------------------
\* Filtered lists.

Elements(s) == {s[i] : i \in DOMAIN s}

KeptStep(pool, places, f, n) ==
  IF n = 0 THEN <<>> ELSE IF n \in places THEN Append(f[n - 1], pool[n]) ELSE f[n - 1]

\* The filtered prefixes of a list, each one from the one before, exist.
LEMMA KeptExists ==
  ASSUME NEW pool, NEW places, NEW k \in Nat
  PROVE  \E f : f = [n \in 0..k |-> KeptStep(pool, places, f, n)]
<1> DEFINE Good(j) == \E f : f = [n \in 0..j |-> KeptStep(pool, places, f, n)]
           Bad == {j \in Nat : ~Good(j)}
<1>1. Good(0)
  <2> DEFINE f == [n \in 0..0 |-> <<>>]
  <2>1. f = [n \in 0..0 |-> KeptStep(pool, places, f, n)]
    BY DEF KeptStep
  <2> QED BY <2>1
<1>2. ASSUME NEW j \in Nat, Good(j) PROVE Good(j + 1)
  <2>1. PICK f : f = [n \in 0..j |-> KeptStep(pool, places, f, n)]
    BY <1>2
  <2> DEFINE g == [n \in 0..(j + 1) |-> IF n = j + 1 THEN KeptStep(pool, places, f, j + 1) ELSE f[n]]
  <2>2. \A n \in 0..(j + 1) : KeptStep(pool, places, g, n) = KeptStep(pool, places, f, n)
    <3> SUFFICES ASSUME NEW n \in 0..(j + 1)
                 PROVE  KeptStep(pool, places, g, n) = KeptStep(pool, places, f, n)
      OBVIOUS
    <3>1. n # 0 => g[n - 1] = f[n - 1]
      OBVIOUS
    <3> QED BY <3>1 DEF KeptStep
  <2>3. \A n \in 0..j : f[n] = KeptStep(pool, places, f, n)
    BY <2>1
  <2>4. g = [n \in 0..(j + 1) |-> KeptStep(pool, places, g, n)]
    <3> SUFFICES ASSUME NEW n \in 0..(j + 1) PROVE g[n] = KeptStep(pool, places, g, n)
      OBVIOUS
    <3>1. CASE n = j + 1
      BY <3>1, <2>2
    <3>2. CASE n # j + 1
      BY <3>2, <2>2, <2>3
    <3> QED BY <3>1, <3>2
  <2> QED BY <2>4
<1>3. Bad = {}
  <2> HIDE DEF Good
  <2> SUFFICES ASSUME Bad # {} PROVE FALSE
    OBVIOUS
  <2>1. PICK j \in Bad : \A i \in Bad : j <= i
    BY Least
  <2>2. j # 0
    BY <1>1
  <2>3. Good(j - 1)
    BY <2>1, <2>2
  <2> QED BY <2>2, <2>3, <1>2
<1> QED BY <1>3

\* Kept is the last of them: what its recursion says holds of it.
LEMMA KeptFits ==
  ASSUME NEW pool, Len(pool) \in Nat, NEW places
  PROVE  \E f : /\ f = [n \in 0..Len(pool) |-> KeptStep(pool, places, f, n)]
               /\ Kept(pool, places) = f[Len(pool)]
<1> DEFINE F(f) == [n \in 0..Len(pool) |-> KeptStep(pool, places, f, n)]
           kept == CHOOSE f : f = F(f)
<1>1. Kept(pool, places) = kept[Len(pool)]
  BY DEF Kept, KeptStep
<1>2. \E f : f = F(f)
  BY KeptExists
<1>3. kept = F(kept)
  <2> HIDE DEF F
  <2> QED BY <1>2
<1> QED BY <1>1, <1>3

\* at names the places that the elements of list have in pool: all of places,
\* in their order.
Picked(list, pool, places, at) ==
  /\ list \in Seq(Elements(pool))
  /\ at \in [1..Len(list) -> places]
  /\ \A i, j \in 1..Len(list) : i < j => at[i] < at[j]
  /\ \A p \in places : \E i \in 1..Len(list) : at[i] = p
  /\ \A i \in 1..Len(list) : list[i] = pool[at[i]]

\* A filtered list takes its places in their order, each of them once.
LEMMA KeptPicks ==
  ASSUME NEW pool, Len(pool) \in Nat, DOMAIN pool = 1..Len(pool), NEW places \in SUBSET DOMAIN pool
  PROVE  \E at : Picked(Kept(pool, places), pool, places, at)
<1>1. PICK f : /\ f = [n \in 0..Len(pool) |-> KeptStep(pool, places, f, n)]
               /\ Kept(pool, places) = f[Len(pool)]
  BY KeptFits
<1> DEFINE N == Len(pool)
           upto(n) == {p \in places : p <= n}
           Good(n) == \E at : Picked(f[n], pool, upto(n), at)
           Bad == {n \in 0..N : ~Good(n)}
<1>2. Good(0)
  <2>1. f[0] = <<>>
    <3>1. f[0] = KeptStep(pool, places, f, 0)
      BY <1>1
    <3> QED BY <3>1 DEF KeptStep
  <2>2. upto(0) = {}
    OBVIOUS
  <2>3. Picked(<<>>, pool, {}, <<>>)
    BY DEF Picked
  <2> QED BY <2>1, <2>2, <2>3
<1>3. ASSUME NEW n \in 1..N, Good(n - 1) PROVE Good(n)
  <2>1. PICK at : Picked(f[n - 1], pool, upto(n - 1), at)
    BY <1>3
  <2> DEFINE old == f[n - 1]
             L == Len(old)
  <2>2. f[n] = IF n \in places THEN Append(old, pool[n]) ELSE old
    <3>1. f[n] = KeptStep(pool, places, f, n)
      BY <1>1, <1>3
    <3> QED BY <3>1, <1>3 DEF KeptStep
  <2>3. CASE n \notin places
    <3>1. upto(n) = upto(n - 1)
      BY <2>3, <1>3
    <3> QED BY <3>1, <2>1, <2>2, <2>3
  <2>4. CASE n \in places
    <3> DEFINE list == Append(old, pool[n])
               new == [i \in 1..(L + 1) |-> IF i = L + 1 THEN n ELSE at[i]]
    <3>1. /\ old \in Seq(Elements(pool)) /\ L \in Nat
          /\ at \in [1..L -> upto(n - 1)]
          /\ \A i, j \in 1..L : i < j => at[i] < at[j]
          /\ \A p \in upto(n - 1) : \E i \in 1..L : at[i] = p
          /\ \A i \in 1..L : old[i] = pool[at[i]]
      BY <2>1, LenProperties DEF Picked
    <3>2. pool[n] \in Elements(pool)
      BY <1>3 DEF Elements
    <3> HIDE DEF old
    <3>3. /\ list \in Seq(Elements(pool)) /\ Len(list) = L + 1 /\ list[L + 1] = pool[n]
          /\ \A i \in 1..L : list[i] = old[i]
      BY <3>1, <3>2, AppendProperties
    <3>4. upto(n) = upto(n - 1) \cup {n}
      BY <2>4, <1>3
    <3>5. new \in [1..(L + 1) -> upto(n)]
      BY <3>1, <3>4
    <3>6. \A i, j \in 1..(L + 1) : i < j => new[i] < new[j]
      <4> SUFFICES ASSUME NEW i \in 1..(L + 1), NEW j \in 1..(L + 1), i < j PROVE new[i] < new[j]
        OBVIOUS
      <4>1. i \in 1..L /\ new[i] = at[i]
        BY <3>1
      <4>2. CASE j = L + 1
        <5>1. at[i] \in upto(n - 1) /\ at[i] \in Int
          BY <4>1, <3>1
        <5> QED BY <5>1, <4>1, <4>2, <1>3, <3>1
      <4>3. CASE j # L + 1
        BY <4>1, <4>3, <3>1
      <4> QED BY <4>2, <4>3
    <3>7. \A p \in upto(n) : \E i \in 1..(L + 1) : new[i] = p
      <4> SUFFICES ASSUME NEW p \in upto(n) PROVE \E i \in 1..(L + 1) : new[i] = p
        OBVIOUS
      <4>1. CASE p = n
        <5>1. L + 1 \in 1..(L + 1) /\ new[L + 1] = n
          BY <3>1
        <5> QED BY <5>1, <4>1
      <4>2. CASE p # n
        <5>1. PICK i \in 1..L : at[i] = p
          BY <4>2, <3>1, <3>4
        <5>2. i \in 1..(L + 1) /\ new[i] = p
          BY <5>1, <3>1
        <5> QED BY <5>2
      <4> QED BY <4>1, <4>2
    <3>8. \A i \in 1..(L + 1) : list[i] = pool[new[i]]
      <4> SUFFICES ASSUME NEW i \in 1..(L + 1) PROVE list[i] = pool[new[i]]
        OBVIOUS
      <4> HIDE DEF list
      <4> QED BY <3>1, <3>3
    <3> HIDE DEF list, new, upto
    <3>9. Picked(list, pool, upto(n), new)
      BY <3>3, <3>5, <3>6, <3>7, <3>8 DEF Picked
    <3> QED BY <3>9, <2>2, <2>4 DEF list, old
  <2> QED BY <2>3, <2>4
<1>4. Bad = {}
  <2> HIDE DEF Good
  <2> SUFFICES ASSUME Bad # {} PROVE FALSE
    OBVIOUS
  <2>1. Bad \in SUBSET Nat
    OBVIOUS
  <2>2. PICK n \in Bad : \A i \in Bad : n <= i
    <3> HIDE DEF Bad
    <3> QED BY <2>1, Least
  <2>3. n # 0 /\ n \in 0..N /\ ~Good(n)
    BY <1>2
  <2>4. n - 1 \notin Bad
    <3> HIDE DEF Bad
    <3> QED BY <2>2, <2>1
  <2>5. Good(n - 1)
    BY <2>3, <2>4
  <2> QED BY <2>3, <2>5, <1>3
<1>5. Good(N)
  <2> HIDE DEF Good
  <2> QED BY <1>4
<1>6. upto(N) = places
  OBVIOUS
<1> QED BY <1>1, <1>5, <1>6

\* A filtered list is a sequence of exactly what stands at its places.
LEMMA KeptFacts ==
  ASSUME NEW pool, Len(pool) \in Nat, DOMAIN pool = 1..Len(pool), NEW places \in SUBSET DOMAIN pool
  PROVE  LET list == Kept(pool, places) IN
         /\ IsSequence(list) /\ Len(list) \in Nat /\ DOMAIN list = 1..Len(list)
         /\ \A i \in DOMAIN list : \E p \in places : list[i] = pool[p]
         /\ \A p \in places : \E i \in DOMAIN list : list[i] = pool[p]
<1> DEFINE list == Kept(pool, places)
<1>1. PICK at : Picked(list, pool, places, at)
  BY KeptPicks
<1> HIDE DEF list
<1>2. list \in Seq(Elements(pool)) /\ Len(list) \in Nat /\ DOMAIN list = 1..Len(list)
  BY <1>1, LenProperties DEF Picked
<1>3. list = [i \in 1..Len(list) |-> list[i]]
  BY <1>2
<1>4. IsSequence(list)
  BY <1>2, <1>3, FunctionIsSequence
<1> QED BY <1>1, <1>2, <1>4 DEF Picked, list

\* A filter that everything passes returns the list.
LEMMA KeptAll ==
  ASSUME NEW pool, IsSequence(pool)
  PROVE  Kept(pool, DOMAIN pool) = pool
<1> DEFINE list == Kept(pool, DOMAIN pool)
<1>1. Len(pool) \in Nat /\ DOMAIN pool = 1..Len(pool)
  BY SequenceFacts
<1>2. PICK at : Picked(list, pool, DOMAIN pool, at)
  BY <1>1, KeptPicks
<1>3. IsSequence(list) /\ Len(list) \in Nat /\ DOMAIN list = 1..Len(list)
  BY <1>1, KeptFacts
<1> HIDE DEF list
<1>4. GrowsOnto(at, Len(list), Len(pool))
  BY <1>1, <1>2 DEF Picked, GrowsOnto
<1>5. Len(list) = Len(pool) /\ \A i \in 1..Len(list) : at[i] = i
  BY <1>1, <1>3, <1>4, GrowingIsIdentity
<1>6. \A i \in 1..Len(list) : list[i] = pool[i]
  BY <1>2, <1>5 DEF Picked
<1>7. list = pool
  BY <1>1, <1>3, <1>5, <1>6 DEF IsSequence
<1> QED BY <1>7 DEF list

\* No id comes twice in a list.
DistinctIds(s) == \A i, j \in DOMAIN s : s[i].id = s[j].id => i = j

\* Filtering a list brings no id in twice.
LEMMA KeptIds ==
  ASSUME NEW pool, Len(pool) \in Nat, DOMAIN pool = 1..Len(pool), NEW places \in SUBSET DOMAIN pool,
         \A p, q \in places : pool[p].id = pool[q].id => p = q
  PROVE  DistinctIds(Kept(pool, places))
<1> DEFINE list == Kept(pool, places)
<1>1. PICK at : Picked(list, pool, places, at)
  BY KeptPicks
<1>2. Len(list) \in Nat /\ DOMAIN list = 1..Len(list)
  BY KeptFacts
<1> HIDE DEF list
<1>3. ASSUME NEW i \in 1..Len(list), NEW j \in 1..Len(list), list[i].id = list[j].id, i < j PROVE FALSE
  <2>1. at[i] \in places /\ at[j] \in places /\ at[i] < at[j]
    BY <1>1, <1>3 DEF Picked
  <2>2. list[i] = pool[at[i]] /\ list[j] = pool[at[j]]
    BY <1>1, <1>3 DEF Picked
  <2>3. at[i] = at[j]
    BY <2>1, <2>2, <1>3
  <2>4. at[i] \in Nat
    BY <2>1
  <2> QED BY <2>1, <2>3, <2>4
<1> QED BY <1>2, <1>3 DEF DistinctIds, list

\* The catalogue of the learner is a list of questions with different ids,
\* whatever is stored: duplicates and built-in ids are dropped.
LEMMA CatalogFacts ==
  ASSUME NEW given, IsSequence(given)
  PROVE  LET list == ActiveCatalog(given) IN
         IsSequence(list) /\ Len(list) \in Nat /\ DOMAIN list = 1..Len(list) /\ DistinctIds(list)
<1> DEFINE firsts == Distinct(given)
           others == {i \in DOMAIN firsts : firsts[i].id \notin BuiltInIds}
           added == Kept(firsts, others)
           all == CombineQuestionCatalogs(given)
           enabled == {i \in DOMAIN all : all[i].enabled}
<1>1. Len(given) \in Nat /\ DOMAIN given = 1..Len(given)
  BY SequenceFacts
<1>2. /\ IsSequence(firsts) /\ Len(firsts) \in Nat /\ DOMAIN firsts = 1..Len(firsts)
      /\ DistinctIds(firsts)
  <2> DEFINE places == {i \in DOMAIN given : \A j \in 1..(i - 1) : given[j].id # given[i].id}
  <2>1. firsts = Kept(given, places)
    BY DEF Distinct
  <2>2. \A p, q \in places : given[p].id = given[q].id => p = q
    <3> SUFFICES ASSUME NEW p \in places, NEW q \in places, given[p].id = given[q].id, p < q PROVE FALSE
      BY <1>1
    <3>1. p \in 1..(q - 1)
      BY <1>1
    <3> QED BY <3>1
  <2>3. places \in SUBSET DOMAIN given
    OBVIOUS
  <2> HIDE DEF places
  <2> QED BY <1>1, <2>1, <2>2, <2>3, KeptFacts, KeptIds
<1> HIDE DEF firsts
<1>3. /\ IsSequence(added) /\ Len(added) \in Nat /\ DOMAIN added = 1..Len(added)
      /\ DistinctIds(added)
      /\ \A i \in DOMAIN added : added[i].id \notin BuiltInIds
  <2>1. others \in SUBSET DOMAIN firsts /\ \A p, q \in others : firsts[p].id = firsts[q].id => p = q
    BY <1>2 DEF DistinctIds
  <2>2. \A i \in DOMAIN added : \E p \in others : added[i] = firsts[p]
    BY <1>2, <2>1, KeptFacts
  <2>3. \A i \in DOMAIN added : added[i].id \notin BuiltInIds
    BY <2>2
  <2> HIDE DEF others
  <2> QED BY <1>2, <2>1, <2>3, KeptFacts, KeptIds
<1>4. all = BuiltIn \o added
  BY DEF CombineQuestionCatalogs, firsts
<1>5. /\ IsSequence(BuiltIn) /\ Len(BuiltIn) = Len(Bank) /\ DOMAIN BuiltIn = 1..Len(Bank)
      /\ \A i \in 1..Len(Bank) : BuiltIn[i] = Bank[i].about
  <2>1. BuiltIn = [i \in 1..Len(Bank) |-> BuiltIn[i]] /\ \A i \in 1..Len(Bank) : BuiltIn[i] = Bank[i].about
    BY BankAssumption DEF BuiltIn
  <2> QED BY <2>1, BankAssumption, FunctionIsSequence
<1> HIDE DEF added
<1>6. /\ IsSequence(all) /\ Len(all) = Len(Bank) + Len(added) /\ DOMAIN all = 1..Len(all)
      /\ \A i \in 1..Len(all) : all[i] = IF i <= Len(Bank) THEN BuiltIn[i] ELSE added[i - Len(Bank)]
  <2> DEFINE S == Elements(BuiltIn) \cup Elements(added)
  <2>1. BuiltIn \in Seq(S) /\ added \in Seq(S)
    BY <1>3, <1>5, SeqMonotonic DEF IsSequence, Elements
  <2> HIDE DEF S
  <2>2. /\ all \in Seq(S) /\ Len(all) = Len(BuiltIn) + Len(added)
        /\ \A i \in 1..Len(all) : all[i] = IF i <= Len(BuiltIn) THEN BuiltIn[i] ELSE added[i - Len(BuiltIn)]
    BY <1>4, <2>1, ConcatProperties
  <2>3. Len(all) \in Nat /\ DOMAIN all = 1..Len(all) /\ all = [i \in 1..Len(all) |-> all[i]]
    BY <2>2, LenProperties
  <2> HIDE DEF all
  <2> QED BY <2>2, <2>3, <1>5, FunctionIsSequence
<1> HIDE DEF all
<1>7. DistinctIds(all)
  <2>1. \A i \in DOMAIN all : all[i].id \in BuiltInIds <=> i <= Len(Bank)
    <3> SUFFICES ASSUME NEW i \in DOMAIN all PROVE all[i].id \in BuiltInIds <=> i <= Len(Bank)
      OBVIOUS
    <3>1. CASE i <= Len(Bank)
      BY <3>1, <1>5, <1>6, BankAssumption DEF BuiltInIds
    <3>2. CASE ~(i <= Len(Bank))
      <4>1. i - Len(Bank) \in DOMAIN added
        BY <3>2, <1>3, <1>6, BankAssumption
      <4> QED BY <4>1, <3>2, <1>3, <1>6
    <3> QED BY <3>1, <3>2
  <2> SUFFICES ASSUME NEW i \in DOMAIN all, NEW j \in DOMAIN all, all[i].id = all[j].id PROVE i = j
    BY DEF DistinctIds
  <2>2. CASE i <= Len(Bank)
    <3>1. j <= Len(Bank)
      BY <2>1, <2>2
    <3>2. i \in DOMAIN Bank /\ j \in DOMAIN Bank
      BY <2>2, <3>1, <1>6, BankAssumption
    <3> QED BY <2>2, <3>1, <3>2, <1>5, <1>6, BankAssumption
  <2>3. CASE ~(i <= Len(Bank))
    <3>1. ~(j <= Len(Bank))
      BY <2>1, <2>3
    <3>2. i - Len(Bank) \in DOMAIN added /\ j - Len(Bank) \in DOMAIN added
      BY <2>3, <3>1, <1>3, <1>6, BankAssumption
    <3>3. i - Len(Bank) = j - Len(Bank)
      BY <2>3, <3>1, <3>2, <1>3, <1>6 DEF DistinctIds
    <3> QED BY <3>3, <1>6, BankAssumption
  <2> QED BY <2>2, <2>3
<1>8. ActiveCatalog(given) = Kept(all, enabled)
  BY DEF ActiveCatalog, all
<1>9. enabled \in SUBSET DOMAIN all /\ \A p, q \in enabled : all[p].id = all[q].id => p = q
  BY <1>7 DEF DistinctIds
<1>10. Len(all) \in Nat
  BY <1>3, <1>6, BankAssumption
<1> HIDE DEF enabled
<1> DEFINE list == Kept(all, enabled)
<1>11. IsSequence(list) /\ Len(list) \in Nat /\ DOMAIN list = 1..Len(list)
  BY <1>6, <1>9, <1>10, KeptFacts
<1>12. DistinctIds(list)
  BY <1>6, <1>9, <1>10, KeptIds
<1> HIDE DEF list
<1>13. ActiveCatalog(given) = list
  BY <1>8 DEF list
<1> QED BY <1>11, <1>12, <1>13

-----------------------------------------------------------------------------
\* Addresses and filters.

\* The parameters u of an address stand for the filters f.
StandFor(u, f) ==
  /\ \A p \in u :
     \/ p[1] = "difficulty" /\ p[2] = f.difficulty /\ f.difficulty # "All"
     \/ p[1] = "type" /\ p[2] = f.type /\ f.type # "All"
     \/ p[1] = "language" /\ p[2] = f.language /\ f.language # "All"
     \/ p[1] = "company" /\ p[2] = f.company /\ f.company # "All"
     \/ p[1] = "status" /\ p[2] = f.status /\ f.status # "All"
     \/ p[1] = "category" /\ p[2] = f.category /\ f.category # "All"
     \/ p[1] = "q" /\ p[2] = Trimmed[f.text] /\ Trimmed[f.text] # ""
     \/ p[1] = "bookmarked" /\ p[2] = "1" /\ f.bookmarkedOnly = TRUE
  /\ f.difficulty # "All" => \E p \in u : p[1] = "difficulty"
  /\ f.type # "All" => \E p \in u : p[1] = "type"
  /\ f.language # "All" => \E p \in u : p[1] = "language"
  /\ f.company # "All" => \E p \in u : p[1] = "company"
  /\ f.status # "All" => \E p \in u : p[1] = "status"
  /\ f.category # "All" => \E p \in u : p[1] = "category"
  /\ Trimmed[f.text] # "" => \E p \in u : p[1] = "q"
  /\ f.bookmarkedOnly => \E p \in u : p[1] = "bookmarked"

\* Each parameter of an address stands for a filter that is not its default.
LEMMA ParamsAre ==
  ASSUME NEW f, f.bookmarkedOnly \in BOOLEAN
  PROVE  StandFor(ToParams(f), f)
<1> DEFINE plain == {<<"difficulty", f.difficulty>>, <<"type", f.type>>, <<"language", f.language>>,
                     <<"company", f.company>>, <<"status", f.status>>, <<"category", f.category>>}
           chosen == {q \in plain : q[2] # "All"}
           typed == {<<"q", t>> : t \in {Trimmed[f.text]} \ {""}}
           marked == IF f.bookmarkedOnly THEN {<<"bookmarked", "1">>} ELSE {}
           u == ToParams(f)
<1>1. u = chosen \cup typed \cup marked
  BY DEF ToParams
<1>2. \A p \in typed : p[1] = "q" /\ p[2] = Trimmed[f.text] /\ Trimmed[f.text] # ""
  <2> SUFFICES ASSUME NEW p \in typed
               PROVE  p[1] = "q" /\ p[2] = Trimmed[f.text] /\ Trimmed[f.text] # ""
    OBVIOUS
  <2>1. PICK t \in {Trimmed[f.text]} \ {""} : p = <<"q", t>>
    OBVIOUS
  <2> QED BY <2>1
<1>3. \A p \in marked : p[1] = "bookmarked" /\ p[2] = "1" /\ f.bookmarkedOnly = TRUE
  OBVIOUS
<1>4. \A p \in chosen : p \in plain /\ p[2] # "All"
  OBVIOUS
<1>5. \A p \in plain : \/ p[1] = "difficulty" /\ p[2] = f.difficulty
                       \/ p[1] = "type" /\ p[2] = f.type
                       \/ p[1] = "language" /\ p[2] = f.language
                       \/ p[1] = "company" /\ p[2] = f.company
                       \/ p[1] = "status" /\ p[2] = f.status
                       \/ p[1] = "category" /\ p[2] = f.category
  OBVIOUS
<1>6. \A k, w : <<k, w>> \in plain /\ w # "All" => \E p \in u : p[1] = k
  <2> SUFFICES ASSUME NEW k, NEW w, <<k, w>> \in plain, w # "All"
               PROVE  \E p \in u : p[1] = k
    OBVIOUS
  <2>1. <<k, w>>[1] = k /\ <<k, w>>[2] = w
    OBVIOUS
  <2>2. <<k, w>> \in chosen
    BY <2>1
  <2>3. <<k, w>> \in u
    BY <1>1, <2>2
  <2> QED BY <2>1, <2>3
<1>7. /\ <<"difficulty", f.difficulty>> \in plain /\ <<"type", f.type>> \in plain
      /\ <<"language", f.language>> \in plain /\ <<"company", f.company>> \in plain
      /\ <<"status", f.status>> \in plain /\ <<"category", f.category>> \in plain
  OBVIOUS
<1>8. Trimmed[f.text] # "" => \E p \in typed : p[1] = "q"
  <2>1. Trimmed[f.text] # "" => <<"q", Trimmed[f.text]>> \in typed
    OBVIOUS
  <2> QED BY <2>1
<1>9. f.bookmarkedOnly => \E p \in marked : p[1] = "bookmarked"
  <2>1. f.bookmarkedOnly => <<"bookmarked", "1">> \in marked
    OBVIOUS
  <2> QED BY <2>1
<1> HIDE DEF plain, chosen, typed, marked, u
<1>10. \A p \in u :
     \/ p[1] = "difficulty" /\ p[2] = f.difficulty /\ f.difficulty # "All"
     \/ p[1] = "type" /\ p[2] = f.type /\ f.type # "All"
     \/ p[1] = "language" /\ p[2] = f.language /\ f.language # "All"
     \/ p[1] = "company" /\ p[2] = f.company /\ f.company # "All"
     \/ p[1] = "status" /\ p[2] = f.status /\ f.status # "All"
     \/ p[1] = "category" /\ p[2] = f.category /\ f.category # "All"
     \/ p[1] = "q" /\ p[2] = Trimmed[f.text] /\ Trimmed[f.text] # ""
     \/ p[1] = "bookmarked" /\ p[2] = "1" /\ f.bookmarkedOnly = TRUE
  <2> SUFFICES ASSUME NEW p \in u PROVE
     \/ p[1] = "difficulty" /\ p[2] = f.difficulty /\ f.difficulty # "All"
     \/ p[1] = "type" /\ p[2] = f.type /\ f.type # "All"
     \/ p[1] = "language" /\ p[2] = f.language /\ f.language # "All"
     \/ p[1] = "company" /\ p[2] = f.company /\ f.company # "All"
     \/ p[1] = "status" /\ p[2] = f.status /\ f.status # "All"
     \/ p[1] = "category" /\ p[2] = f.category /\ f.category # "All"
     \/ p[1] = "q" /\ p[2] = Trimmed[f.text] /\ Trimmed[f.text] # ""
     \/ p[1] = "bookmarked" /\ p[2] = "1" /\ f.bookmarkedOnly = TRUE
    OBVIOUS
  <2>1. CASE p \in chosen
    <3>1. p \in plain /\ p[2] # "All"
      BY <2>1, <1>4
    <3> QED BY <3>1, <1>5
  <2>2. CASE p \in typed
    BY <2>2, <1>2
  <2>3. CASE p \in marked
    BY <2>3, <1>3
  <2> QED BY <1>1, <2>1, <2>2, <2>3
<1>11. /\ f.difficulty # "All" => \E p \in u : p[1] = "difficulty"
       /\ f.type # "All" => \E p \in u : p[1] = "type"
       /\ f.language # "All" => \E p \in u : p[1] = "language"
       /\ f.company # "All" => \E p \in u : p[1] = "company"
       /\ f.status # "All" => \E p \in u : p[1] = "status"
       /\ f.category # "All" => \E p \in u : p[1] = "category"
  BY <1>6, <1>7
<1>12. /\ Trimmed[f.text] # "" => \E p \in u : p[1] = "q"
       /\ f.bookmarkedOnly => \E p \in u : p[1] = "bookmarked"
  BY <1>1, <1>8, <1>9
<1>13. StandFor(u, f)
  BY <1>10, <1>11, <1>12 DEF StandFor
<1> QED BY <1>13 DEF u

\* A parameter that is in an address once, or not at all.
Once(u, key, w, default) ==
  /\ \A p \in u : p[1] = key => p[2] = w /\ w # default
  /\ w # default => \E p \in u : p[1] = key

\* A parameter that occurs once, or not at all, has that value or the default.
LEMMA OnceValue ==
  ASSUME NEW u, NEW key, NEW w, NEW default, Once(u, key, w, default)
  PROVE  Value(u, key, default) = w
<1>1. CASE \E p \in u : p[1] = key
  <2> DEFINE c == CHOOSE p \in u : p[1] = key
  <2>1. c \in u /\ c[1] = key
    BY <1>1
  <2>2. Value(u, key, default) = c[2]
    BY <1>1 DEF Value
  <2>3. c[2] = w
    BY <2>1 DEF Once
  <2> QED BY <2>2, <2>3
<1>2. CASE ~ \E p \in u : p[1] = key
  BY <1>2 DEF Value, Once
<1> QED BY <1>1, <1>2

\* What Parse finds in an address u of the filters f.
Decoded(u, f) ==
  /\ Value(u, "difficulty", "All") = f.difficulty
  /\ Value(u, "type", "All") = f.type
  /\ Value(u, "language", "All") = f.language
  /\ Value(u, "company", "All") = f.company
  /\ Value(u, "status", "All") = f.status
  /\ Value(u, "category", "All") = f.category
  /\ Value(u, "q", "") = Trimmed[f.text]
  /\ (Value(u, "bookmarked", "0") = "1") = f.bookmarkedOnly

\* Each parameter of an address that was made from filters decodes to its filter.
LEMMA ParamValue ==
  ASSUME NEW f, f.bookmarkedOnly \in BOOLEAN
  PROVE  Decoded(ToParams(f), f)
<1> DEFINE u == ToParams(f)
<1>0. StandFor(u, f)
  BY ParamsAre
<1> HIDE DEF u
<1>1. Value(u, "difficulty", "All") = f.difficulty
  <2>1. Once(u, "difficulty", f.difficulty, "All")
    BY <1>0 DEF StandFor, Once
  <2> QED BY <2>1, OnceValue
<1>2. Value(u, "type", "All") = f.type
  <2>1. Once(u, "type", f.type, "All")
    BY <1>0 DEF StandFor, Once
  <2> QED BY <2>1, OnceValue
<1>3. Value(u, "language", "All") = f.language
  <2>1. Once(u, "language", f.language, "All")
    BY <1>0 DEF StandFor, Once
  <2> QED BY <2>1, OnceValue
<1>4. Value(u, "company", "All") = f.company
  <2>1. Once(u, "company", f.company, "All")
    BY <1>0 DEF StandFor, Once
  <2> QED BY <2>1, OnceValue
<1>5. Value(u, "status", "All") = f.status
  <2>1. Once(u, "status", f.status, "All")
    BY <1>0 DEF StandFor, Once
  <2> QED BY <2>1, OnceValue
<1>6. Value(u, "category", "All") = f.category
  <2>1. Once(u, "category", f.category, "All")
    BY <1>0 DEF StandFor, Once
  <2> QED BY <2>1, OnceValue
<1>7. Value(u, "q", "") = Trimmed[f.text]
  <2>1. Once(u, "q", Trimmed[f.text], "")
    BY <1>0 DEF StandFor, Once
  <2> QED BY <2>1, OnceValue
<1>8. (Value(u, "bookmarked", "0") = "1") = f.bookmarkedOnly
  <2>1. CASE f.bookmarkedOnly
    <3>1. Once(u, "bookmarked", "1", "0")
      BY <1>0, <2>1 DEF StandFor, Once
    <3>2. Value(u, "bookmarked", "0") = "1"
      BY <3>1, OnceValue
    <3> QED BY <3>2, <2>1
  <2>2. CASE ~f.bookmarkedOnly
    <3>1. Once(u, "bookmarked", "0", "0")
      BY <1>0, <2>2 DEF StandFor, Once
    <3>2. Value(u, "bookmarked", "0") = "0"
      BY <3>1, OnceValue
    <3> QED BY <3>2, <2>2
  <2> QED BY <2>1, <2>2
<1> QED BY <1>1, <1>2, <1>3, <1>4, <1>5, <1>6, <1>7, <1>8 DEF u, Decoded

\* Filters that are written to an address and parsed again differ by the spaces
\* around the text, which neither the address nor the filter takes into account.
LEMMA ParsedParams ==
  ASSUME NEW f \in Filters
  PROVE  LET g == Parse(ToParams(f)) IN
         /\ g = [f EXCEPT !.text = Trimmed[f.text]]
         /\ g \in Filters
         /\ ToParams(g) = ToParams(f)
         /\ \A q, solved, bookmarks :
              PassesFilters(q, g, solved, bookmarks) <=> PassesFilters(q, f, solved, bookmarks)
<1> DEFINE g == Parse(ToParams(f))
           t == Trimmed[f.text]
<1>1. /\ f = [text |-> f.text, difficulty |-> f.difficulty, type |-> f.type, language |-> f.language,
              company |-> f.company, status |-> f.status, category |-> f.category,
              bookmarkedOnly |-> f.bookmarkedOnly]
      /\ f.text \in DOMAIN Trimmed /\ f.bookmarkedOnly \in BOOLEAN
  BY DEF Filters
<1>2. t \in DOMAIN Trimmed /\ Trimmed[t] = t
  BY <1>1, TrimAssumption
<1>3. g = [text |-> t, difficulty |-> f.difficulty, type |-> f.type, language |-> f.language,
           company |-> f.company, status |-> f.status, category |-> f.category,
           bookmarkedOnly |-> f.bookmarkedOnly]
  <2> DEFINE u == ToParams(f)
  <2>1. Decoded(u, f)
    BY <1>1, ParamValue
  <2>2. g = Parse(u)
    OBVIOUS
  <2> HIDE DEF u, g
  <2> QED BY <2>1, <2>2 DEF Parse, Decoded
<1> HIDE DEF g, t
<1>4. g = [f EXCEPT !.text = t]
  BY <1>1, <1>3
<1>5. g \in Filters
  BY <1>2, <1>4 DEF Filters
<1>6. /\ Trimmed[g.text] = Trimmed[f.text] /\ g.difficulty = f.difficulty /\ g.type = f.type
      /\ g.language = f.language /\ g.company = f.company /\ g.status = f.status
      /\ g.category = f.category /\ g.bookmarkedOnly = f.bookmarkedOnly
  BY <1>2, <1>3 DEF t
<1>7. ToParams(g) = ToParams(f)
  BY <1>6 DEF ToParams
<1>8. \A q, solved, bookmarks :
        PassesFilters(q, g, solved, bookmarks) <=> PassesFilters(q, f, solved, bookmarks)
  BY <1>6 DEF PassesFilters
<1> QED BY <1>4, <1>5, <1>7, <1>8 DEF g, t

\* Filters without parameters let everything pass.
LEMMA NoParams ==
  ASSUME NEW f \in Filters, ToParams(f) = {}
  PROVE  \A q, solved, bookmarks : PassesFilters(q, f, solved, bookmarks)
<1>1. f.bookmarkedOnly \in BOOLEAN
  BY DEF Filters
<1>2. StandFor(ToParams(f), f)
  BY <1>1, ParamsAre
<1>3. /\ f.difficulty = "All" /\ f.type = "All" /\ f.language = "All" /\ f.company = "All"
      /\ f.status = "All" /\ f.category = "All" /\ Trimmed[f.text] = "" /\ ~f.bookmarkedOnly
  BY <1>1, <1>2 DEF StandFor
<1> QED BY <1>3 DEF PassesFilters, Admits

\* What a link and what the learner can ask for are filters.
LEMMA DefaultIsFilters == DefaultFilters \in Filters
BY TrimAssumption DEF DefaultFilters, Filters, Offered

\* A parsed value is the default or stands in the address.
LEMMA ValueIn ==
  ASSUME NEW u, NEW key, NEW default
  PROVE  Value(u, key, default) = default \/ \E p \in u : p[1] = key /\ p[2] = Value(u, key, default)
<1>1. CASE \E p \in u : p[1] = key
  <2> DEFINE c == CHOOSE p \in u : p[1] = key
  <2>1. c \in u /\ c[1] = key
    BY <1>1
  <2>2. Value(u, key, default) = c[2]
    BY <1>1 DEF Value
  <2> QED BY <2>1, <2>2
<1>2. CASE ~ \E p \in u : p[1] = key
  BY <1>2 DEF Value
<1> QED BY <1>1, <1>2

\* A link parses to filters.
LEMMA LinkIsFilters ==
  ASSUME NEW u \in Links
  PROVE  Parse(u) \in Filters
<1>1. \A key : Value(u, key, "All") \in Offered(key)
  <2> SUFFICES ASSUME NEW key PROVE Value(u, key, "All") \in Offered(key)
    OBVIOUS
  <2>1. CASE Value(u, key, "All") = "All"
    BY <2>1 DEF Offered
  <2>2. CASE Value(u, key, "All") # "All"
    <3>1. PICK p \in u : p[1] = key /\ p[2] = Value(u, key, "All")
      BY <2>2, ValueIn
    <3>2. p \in {d \in Picks \cup UNION Links : d[1] = key}
      BY <3>1
    <3>3. p[2] \in Offered(key)
      BY <3>2 DEF Offered
    <3> QED BY <3>1, <3>3
  <2> QED BY <2>1, <2>2
<1>2. Value(u, "q", "") \in DOMAIN Trimmed
  <2>1. CASE Value(u, "q", "") = ""
    BY <2>1, TrimAssumption
  <2>2. CASE Value(u, "q", "") # ""
    <3>1. PICK p \in u : p[1] = "q" /\ p[2] = Value(u, "q", "")
      BY <2>2, ValueIn
    <3>2. p[2] \in DOMAIN Trimmed
      BY <3>1, ListAssumption
    <3> QED BY <3>1, <3>2
  <2> QED BY <2>1, <2>2
<1>3. (Value(u, "bookmarked", "0") = "1") \in BOOLEAN
  OBVIOUS
<1> QED BY <1>1, <1>2, <1>3 DEF Parse, Filters

\* Picking one filter makes filters.
LEMMA PickIsFilters ==
  ASSUME NEW f \in Filters, NEW c \in Picks
  PROVE  [f EXCEPT ![c[1]] = c[2]] \in Filters
<1> DEFINE g == [f EXCEPT ![c[1]] = c[2]]
<1>1. CASE c[1] = "text"
  <2>1. c[2] \in DOMAIN Trimmed
    BY <1>1, ListAssumption DEF Keys
  <2>2. g = [f EXCEPT !.text = c[2]]
    BY <1>1
  <2> QED BY <2>1, <2>2 DEF Filters
<1>2. CASE c[1] \in Keys
  <2>1. c[2] \in Offered(c[1])
    <3>1. c \in {d \in Picks \cup UNION Links : d[1] = c[1]}
      OBVIOUS
    <3> QED BY <3>1 DEF Offered
  <2>2. \A key, value : key \in Keys /\ value \in Offered(key) => [f EXCEPT ![key] = value] \in Filters
    <3> SUFFICES ASSUME NEW key, NEW value, key \in Keys, value \in Offered(key)
                 PROVE  [f EXCEPT ![key] = value] \in Filters
      OBVIOUS
    <3>1. CASE key = "difficulty"
      <4>1. value \in Offered("difficulty")
        BY <3>1
      <4>2. [f EXCEPT ![key] = value] = [f EXCEPT !.difficulty = value]
        BY <3>1
      <4> QED BY <4>1, <4>2 DEF Filters
    <3>2. CASE key = "type"
      <4>1. value \in Offered("type")
        BY <3>2
      <4>2. [f EXCEPT ![key] = value] = [f EXCEPT !.type = value]
        BY <3>2
      <4> QED BY <4>1, <4>2 DEF Filters
    <3>3. CASE key = "language"
      <4>1. value \in Offered("language")
        BY <3>3
      <4>2. [f EXCEPT ![key] = value] = [f EXCEPT !.language = value]
        BY <3>3
      <4> QED BY <4>1, <4>2 DEF Filters
    <3>4. CASE key = "company"
      <4>1. value \in Offered("company")
        BY <3>4
      <4>2. [f EXCEPT ![key] = value] = [f EXCEPT !.company = value]
        BY <3>4
      <4> QED BY <4>1, <4>2 DEF Filters
    <3>5. CASE key = "status"
      <4>1. value \in Offered("status")
        BY <3>5
      <4>2. [f EXCEPT ![key] = value] = [f EXCEPT !.status = value]
        BY <3>5
      <4> QED BY <4>1, <4>2 DEF Filters
    <3>6. CASE key = "category"
      <4>1. value \in Offered("category")
        BY <3>6
      <4>2. [f EXCEPT ![key] = value] = [f EXCEPT !.category = value]
        BY <3>6
      <4> QED BY <4>1, <4>2 DEF Filters
    <3> QED BY <3>1, <3>2, <3>3, <3>4, <3>5, <3>6 DEF Keys
  <2> QED BY <2>1, <2>2, <1>2
<1> QED BY <1>1, <1>2, ListAssumption

-----------------------------------------------------------------------------
\* Pages and neighbours.

\* A list of questions without a repeated id.
Listing(s) == IsSequence(s) /\ Len(s) \in Nat /\ DOMAIN s = 1..Len(s) /\ DistinctIds(s)

\* The empty sequence is one.
LEMMA EmptyIsSequence == IsSequence(<<>>)
BY EmptySeq DEF IsSequence

\* The catalogue and what the filters leave of it have different ids.
LEMMA FilteredFacts ==
  ASSUME seen.stored \in Stored \cup {<<>>}
  PROVE  Listing(Catalog) /\ Listing(Filtered)
<1>1. IsSequence(seen.stored)
  BY EmptyIsSequence, ListAssumption
<1>2. Listing(Catalog)
  BY <1>1, CatalogFacts DEF Catalog, Listing
<1> DEFINE cat == Catalog
           places == {i \in DOMAIN cat : PassesFilters(cat[i], filters, seen.solved, seen.bookmarks)}
           list == Kept(cat, places)
<1>3. Filtered = list
  BY DEF Filtered, FilterQuestions
<1>4. Len(cat) \in Nat /\ DOMAIN cat = 1..Len(cat) /\ places \in SUBSET DOMAIN cat
  BY <1>2 DEF Listing
<1>5. \A p, q \in places : cat[p].id = cat[q].id => p = q
  BY <1>2 DEF Listing, DistinctIds
<1> HIDE DEF cat, places
<1>6. IsSequence(list) /\ Len(list) \in Nat /\ DOMAIN list = 1..Len(list)
  BY <1>4, KeptFacts
<1>7. DistinctIds(list)
  BY <1>4, <1>5, KeptIds
<1> HIDE DEF list
<1>8. Listing(list)
  BY <1>6, <1>7 DEF Listing
<1> QED BY <1>2, <1>3, <1>8

\* There are as many pages as the list needs and no more, but one.
LEMMA PagesFit ==
  ASSUME NEW list, Listing(list)
  PROVE  /\ TotalPages(list) \in Nat \ {0}
         /\ Len(list) <= TotalPages(list) * PAGE_SIZE
         /\ list # <<>> => (TotalPages(list) - 1) * PAGE_SIZE < Len(list)
<1> DEFINE n == Len(list)
<1>1. n \in Nat
  BY DEF Listing
<1>2. CASE list = <<>>
  <2>1. n = 0
    BY <1>2
  <2>2. TotalPages(list) = 1
    BY <1>2 DEF TotalPages
  <2> QED BY <2>1, <2>2, <1>2 DEF PAGE_SIZE
<1>3. CASE list # <<>>
  <2>1. n # 0
    BY <1>3, EmptySeq DEF Listing, IsSequence
  <2>2. TotalPages(list) = (n + 9) \div 10
    BY <1>1, <1>3 DEF TotalPages, PAGE_SIZE
  <2> HIDE DEF n
  <2>3. \A m \in Nat : m # 0 => /\ (m + 9) \div 10 \in Nat \ {0}
                                /\ m <= ((m + 9) \div 10) * 10
                                /\ ((m + 9) \div 10 - 1) * 10 < m
    OBVIOUS
  <2> QED BY <1>1, <2>1, <2>2, <2>3 DEF n, PAGE_SIZE
<1> QED BY <1>2, <1>3

\* What the page numbered current shows.
LEMMA PageRows ==
  ASSUME NEW list, Listing(list), NEW current \in Nat \ {0}
  PROVE  LET at == SafePage(current, list)
             rows == PageOf(current, list)
         IN /\ at \in 1..TotalPages(list)
            /\ current <= TotalPages(list) => at = current
            /\ IsSequence(rows) /\ DOMAIN rows = 1..Len(rows) /\ Len(rows) \in Nat
            /\ list # <<>> => Len(rows) # 0
            /\ \A k \in DOMAIN rows : /\ (at - 1) * PAGE_SIZE + k \in DOMAIN list /\ k <= PAGE_SIZE
                                      /\ rows[k] = list[(at - 1) * PAGE_SIZE + k]
            /\ \A i \in DOMAIN list : (at - 1) * PAGE_SIZE < i /\ i <= at * PAGE_SIZE =>
                                        i - (at - 1) * PAGE_SIZE \in DOMAIN rows
<1> DEFINE n == Len(list)
           T == TotalPages(list)
           at == SafePage(current, list)
           a == (at - 1) * 10 + 1
           b == MinOf(at * 10, n)
           rows == SubSeq(list, a, b)
<1>1. /\ n \in Nat /\ DOMAIN list = 1..n /\ T \in Nat \ {0} /\ n <= T * 10
      /\ list # <<>> => (T - 1) * 10 < n
      /\ list # <<>> <=> n # 0
  <2>1. list # <<>> <=> n # 0
    BY EmptySeq DEF Listing, IsSequence
  <2> QED BY <2>1, PagesFit DEF Listing, PAGE_SIZE
<1>2. PageOf(current, list) = rows
  BY DEF PageOf, PAGE_SIZE
<1>3. at \in 1..T /\ (current <= T => at = current)
  BY <1>1 DEF SafePage, MinOf
<1> HIDE DEF T, at
<1>4. a \in Int /\ b \in Int /\ 1 <= a /\ b <= n /\ b <= at * 10 /\ (b = n \/ b = at * 10)
  <2>1. at \in Nat /\ 1 <= at
    BY <1>1, <1>3
  <2>2. at * 10 \in Nat /\ (at - 1) * 10 + 1 \in Nat /\ 1 <= (at - 1) * 10 + 1
    BY <2>1
  <2>3. a \in Nat /\ 1 <= a
    BY <2>2
  <2>4. b = IF at * 10 < n THEN at * 10 ELSE n
    BY DEF MinOf
  <2> HIDE DEF a, b, n
  <2> QED BY <1>1, <2>2, <2>3, <2>4
<1>5. /\ n # 0 => a <= b
      /\ n = 0 => b < a
  BY <1>1, <1>3, <1>4
<1> HIDE DEF n
<1> DEFINE S == Elements(list)
<1>6. \A i \in a..b : list[i] \in S
  BY <1>1, <1>4 DEF Elements
<1> HIDE DEF a, b, S
<1>7. /\ rows \in Seq(S) /\ Len(rows) = IF a <= b THEN b - a + 1 ELSE 0
      /\ \A k \in 1..(b - a + 1) : rows[k] = list[a + k - 1]
  BY <1>4, <1>6, SubSeqProperties
<1> HIDE DEF rows
<1>8. DOMAIN rows = 1..Len(rows) /\ Len(rows) \in Nat /\ rows = [k \in 1..Len(rows) |-> rows[k]]
  BY <1>7, LenProperties
<1>9. IsSequence(rows)
  BY <1>8, FunctionIsSequence
<1>10. \A k \in DOMAIN rows : /\ (at - 1) * 10 + k \in DOMAIN list /\ k <= 10
                              /\ rows[k] = list[(at - 1) * 10 + k]
  <2> SUFFICES ASSUME NEW k \in DOMAIN rows
               PROVE  /\ (at - 1) * 10 + k \in DOMAIN list /\ k <= 10
                      /\ rows[k] = list[(at - 1) * 10 + k]
    OBVIOUS
  <2>1. a <= b /\ k \in 1..(b - a + 1)
    BY <1>4, <1>7, <1>8
  <2>2. rows[k] = list[a + k - 1]
    BY <2>1, <1>7
  <2>3. a + k - 1 = (at - 1) * 10 + k
    BY <2>1, <1>3 DEF a
  <2>4. a + k - 1 \in 1..n /\ k <= 10
    BY <2>1, <1>1, <1>3, <1>4 DEF a
  <2> QED BY <2>2, <2>3, <2>4, <1>1
<1>11. \A i \in DOMAIN list : (at - 1) * 10 < i /\ i <= at * 10 => i - (at - 1) * 10 \in DOMAIN rows
  <2> SUFFICES ASSUME NEW i \in DOMAIN list, (at - 1) * 10 < i, i <= at * 10
               PROVE  i - (at - 1) * 10 \in DOMAIN rows
    OBVIOUS
  <2>1. i \in Int /\ a <= i /\ i <= b
    BY <1>1, <1>3, <1>4 DEF a
  <2>2. Len(rows) = b - a + 1
    BY <2>1, <1>4, <1>7
  <2>3. i - (at - 1) * 10 = i - a + 1
    BY <2>1, <1>3 DEF a
  <2> QED BY <2>1, <2>2, <2>3, <1>4, <1>8
<1>12. list # <<>> => Len(rows) # 0
  BY <1>1, <1>4, <1>5, <1>7
<1> QED BY <1>2, <1>3, <1>8, <1>9, <1>10, <1>11, <1>12 DEF at, T, PAGE_SIZE

\* The clamped page of a list that is not empty has questions, and each question
\* stands on one page.
LEMMA PagesShow ==
  ASSUME seen.stored \in Stored \cup {<<>>}, page \in Nat \ {0}
  PROVE  PageIsShown
<1> DEFINE list == Filtered
           pages == [p \in 1..TotalPages(list) |-> PageOf(p, list)]
<1>1. Listing(list)
  BY FilteredFacts
<1> HIDE DEF list
<1>2. /\ TotalPages(list) \in Nat \ {0} /\ Len(list) <= TotalPages(list) * PAGE_SIZE
      /\ DOMAIN list = 1..Len(list) /\ Len(list) \in Nat
  BY <1>1, PagesFit DEF Listing
<1>3. list # <<>> => PageOf(page, list) # <<>>
  <2>1. list # <<>> => Len(PageOf(page, list)) # 0
    BY <1>1, PageRows
  <2> QED BY <2>1
<1>4. ASSUME NEW i \in DOMAIN list, NEW p \in 1..TotalPages(list)
      PROVE  (\E k \in DOMAIN pages[p] : pages[p][k] = list[i]) <=> p = (i - 1) \div PAGE_SIZE + 1
  <2> DEFINE rows == PageOf(p, list)
  <2>1. i \in 1..Len(list) /\ p \in Nat \ {0} /\ i \in Nat
    BY <1>2, <1>4
  <2>2. SafePage(p, list) = p
    BY <1>1, <1>2, <1>4, <2>1, PageRows
  <2>3. /\ \A k \in DOMAIN rows : /\ (p - 1) * 10 + k \in DOMAIN list /\ k <= 10
                                  /\ rows[k] = list[(p - 1) * 10 + k]
        /\ (p - 1) * 10 < i /\ i <= p * 10 => i - (p - 1) * 10 \in DOMAIN rows
        /\ \A k \in DOMAIN rows : k \in Nat \ {0}
    BY <1>1, <1>4, <2>1, <2>2, PageRows DEF PAGE_SIZE
  <2> HIDE DEF rows
  <2>4. p = (i - 1) \div 10 + 1 <=> (p - 1) * 10 < i /\ i <= p * 10
    BY <2>1
  <2>5. ASSUME NEW k \in DOMAIN rows, rows[k] = list[i]
        PROVE  (p - 1) * 10 < i /\ i <= p * 10
    <3>1. (p - 1) * 10 + k \in DOMAIN list /\ k <= 10 /\ list[(p - 1) * 10 + k] = list[i] /\ k \in Nat \ {0}
      BY <2>3, <2>5
    <3>2. (p - 1) * 10 + k = i
      BY <3>1, <1>1, <1>4 DEF Listing, DistinctIds
    <3> QED BY <3>1, <3>2, <2>1
  <2>6. ASSUME (p - 1) * 10 < i /\ i <= p * 10
        PROVE  \E k \in DOMAIN rows : rows[k] = list[i]
    <3>1. i - (p - 1) * 10 \in DOMAIN rows
      BY <2>3, <2>6
    <3>2. rows[i - (p - 1) * 10] = list[(p - 1) * 10 + (i - (p - 1) * 10)]
      BY <3>1, <2>3
    <3>3. (p - 1) * 10 + (i - (p - 1) * 10) = i
      BY <2>1
    <3> QED BY <3>1, <3>2, <3>3
  <2>7. pages[p] = rows
    BY <1>4 DEF rows
  <2> QED BY <2>4, <2>5, <2>6, <2>7 DEF PAGE_SIZE
<1>5. DOMAIN pages = 1..TotalPages(list) /\ Len(pages) = TotalPages(list)
  <2>1. pages = [p \in 1..TotalPages(list) |-> pages[p]]
    OBVIOUS
  <2> HIDE DEF pages
  <2> QED BY <1>2, <2>1, FunctionIsSequence
<1>6. /\ list # <<>> => PageOf(page, list) # <<>>
      /\ \A i \in DOMAIN list : \A p \in DOMAIN pages :
           (\E k \in DOMAIN pages[p] : pages[p][k] = list[i]) <=> p = (i - 1) \div PAGE_SIZE + 1
      /\ Len(list) <= Len(pages) * PAGE_SIZE
  <2> HIDE DEF pages
  <2> QED BY <1>2, <1>3, <1>4, <1>5
<1> HIDE DEF pages
<1> SUFFICES ASSUME NEW l \in {Filtered}, NEW ps \in {[p \in 1..TotalPages(l) |-> PageOf(p, l)]}
             PROVE  /\ l # <<>> => PageOf(page, l) # <<>>
                    /\ \A i \in DOMAIN l : \A p \in DOMAIN ps :
                         (\E k \in DOMAIN ps[p] : ps[p][k] = l[i]) <=> p = (i - 1) \div PAGE_SIZE + 1
                    /\ Len(l) <= Len(ps) * PAGE_SIZE
  BY DEF PageIsShown
<1>7. l = list /\ ps = pages
  BY DEF list, pages
<1> QED BY <1>6, <1>7

\* In a list of different ids a question's neighbours stand next to it.
LEMMA NeighboursAre ==
  ASSUME NEW nav, Listing(nav), NEW i \in DOMAIN nav
  PROVE  Neighbours(nav, nav[i].id) = [previous |-> IF i = 1 THEN "" ELSE nav[i - 1].id,
                                       next |-> IF i = Len(nav) THEN "" ELSE nav[i + 1].id]
<1> DEFINE Is(j) == IF j = 0 THEN \A k \in DOMAIN nav : nav[k].id # nav[i].id
                    ELSE nav[j].id = nav[i].id
           at == CHOOSE j \in (DOMAIN nav) \cup {0} : Is(j)
<1>1. Len(nav) \in Nat /\ DOMAIN nav = 1..Len(nav) /\ i \in 1..Len(nav)
  BY DEF Listing
<1>2. Is(i) /\ i \in (DOMAIN nav) \cup {0}
  BY <1>1
<1>3. at \in (DOMAIN nav) \cup {0} /\ Is(at)
  <2> HIDE DEF Is
  <2> QED BY <1>2
<1>4. Neighbours(nav, nav[i].id) = [previous |-> IF at > 1 THEN nav[at - 1].id ELSE "",
                                    next |-> IF at >= 1 /\ at < Len(nav) THEN nav[at + 1].id ELSE ""]
  BY DEF Neighbours
<1> HIDE DEF at
<1>5. at = i
  BY <1>1, <1>3 DEF Listing, DistinctIds
<1>6. /\ at > 1 <=> i # 1
      /\ at >= 1 /\ at < Len(nav) <=> i # Len(nav)
  BY <1>1, <1>5
<1> HIDE DEF Is
<1> QED BY <1>4, <1>5, <1>6

\* The list computed again from the address is the one the learner came from.
LEMMA NavFollows ==
  ASSUME seen.stored \in Stored \cup {<<>>}, filters \in Filters
  PROVE  NavFollowsTheList
<1> DEFINE list == Filtered
           cat == Catalog
           search == ToParams(filters)
           nav == NavQuestions(cat, search, seen.solved, seen.bookmarks)
<1>1. Listing(list) /\ Listing(cat)
  BY FilteredFacts
<1>2. list = FilterQuestions(cat, filters, seen.solved, seen.bookmarks)
  BY DEF Filtered
<1>3. nav = list
  <2>1. CASE HasParams(search)
    <3> DEFINE g == Parse(search)
    <3>1. \A q, solved, bookmarks :
            PassesFilters(q, g, solved, bookmarks) <=> PassesFilters(q, filters, solved, bookmarks)
      BY ParsedParams
    <3>2. nav = FilterQuestions(cat, g, seen.solved, seen.bookmarks)
      BY <2>1 DEF NavQuestions
    <3> HIDE DEF g, cat, list, nav
    <3>3. {i \in DOMAIN cat : PassesFilters(cat[i], g, seen.solved, seen.bookmarks)}
            = {i \in DOMAIN cat : PassesFilters(cat[i], filters, seen.solved, seen.bookmarks)}
      BY <3>1
    <3> QED BY <3>2, <3>3, <1>2 DEF FilterQuestions
  <2>2. CASE ~HasParams(search)
    <3>1. \A q, solved, bookmarks : PassesFilters(q, filters, solved, bookmarks)
      BY <2>2, NoParams DEF HasParams
    <3>2. nav = cat
      BY <2>2 DEF NavQuestions
    <3> HIDE DEF cat, list, nav
    <3>3. {i \in DOMAIN cat : PassesFilters(cat[i], filters, seen.solved, seen.bookmarks)} = DOMAIN cat
      BY <3>1
    <3>4. Kept(cat, DOMAIN cat) = cat
      BY <1>1, KeptAll DEF Listing
    <3> QED BY <3>2, <3>3, <3>4, <1>2 DEF FilterQuestions
  <2> QED BY <2>1, <2>2
<1> HIDE DEF list, nav
<1>4. \A i \in DOMAIN list : Neighbours(nav, list[i].id)
         = [previous |-> IF i = 1 THEN "" ELSE list[i - 1].id,
            next |-> IF i = Len(list) THEN "" ELSE list[i + 1].id]
  BY <1>1, <1>3, NeighboursAre
<1> QED BY <1>4 DEF NavFollowsTheList, list, nav

-----------------------------------------------------------------------------
\* The invariant.

Store(s) ==
  /\ DOMAIN s = {"solved", "bookmarks", "attempts", "stored"}
  /\ s = [x \in DOMAIN s |-> s[x]]
  /\ s.solved \subseteq BuiltInIds /\ s.bookmarks \subseteq Practised
  /\ s.stored \in Stored \cup {<<>>}

\* What the page has read was stored, and it is what is stored unless an event is
\* on its way.
StorageFits == Store(storage) /\ Store(seen) /\ told \in BOOLEAN /\ PageIsFresh

AddressTypes ==
  /\ route \in {"list", "learn", "interview", "practice"} /\ page \in Nat \ {0}
  /\ filters \in Filters /\ url \in Addresses /\ target \in Addresses \cup {None}
  /\ suppress \in BOOLEAN /\ overtaken \in BOOLEAN

\* The address stands for the filters, or a navigation to such an address is
\* under way, unless a link has overtaken it.
AddressFollows ==
  route = "list" /\ ~overtaken =>
    url = ToParams(filters) \/ (target # None /\ target = ToParams(filters))
AddressFits == AddressTypes /\ AddressFollows

UsedFits ==
  /\ used \in [DOMAIN Most -> Nat]
  /\ \A kind \in DOMAIN Most : used[kind] <= Most[kind]

ListInv == StorageFits /\ AddressFits /\ UsedFits /\ VerdictIsFair

-----------------------------------------------------------------------------
\* The two effects.

\* The address of the default filters has no parameters.
LEMMA DefaultParams == ToParams(DefaultFilters) = {}
<1> DEFINE f == DefaultFilters
           u == ToParams(f)
<1>1. f.bookmarkedOnly = FALSE /\ Trimmed[f.text] = "" /\ f.difficulty = "All" /\ f.type = "All"
      /\ f.language = "All" /\ f.company = "All" /\ f.status = "All" /\ f.category = "All"
  BY TrimAssumption DEF DefaultFilters
<1> HIDE DEF f
<1>2. StandFor(u, f)
  <2>1. f.bookmarkedOnly \in BOOLEAN
    BY <1>1
  <2> QED BY <2>1, ParamsAre
<1> HIDE DEF u
<1>3. u = {}
  BY <1>1, <1>2 DEF StandFor
<1> QED BY <1>3 DEF u, f

\* What an address is, and that it parses to filters.
LEMMA AddressFacts ==
  /\ {} \in Addresses
  /\ \A f \in Filters : ToParams(f) \in Addresses
  /\ Links \subseteq Addresses
  /\ None \notin Addresses
  /\ \A u \in Addresses : Parse(u) \in Filters
<1>1. \A f \in Filters : ToParams(f) \in Addresses
  BY DEF Addresses
<1>2. {} \in Addresses
  BY <1>1, DefaultIsFilters, DefaultParams
<1>3. Links \subseteq Addresses
  BY DEF Addresses
<1>4. ASSUME NEW u \in Addresses PROVE Parse(u) \in Filters
  <2>1. CASE u \in Links
    BY <2>1, LinkIsFilters
  <2>2. CASE u \notin Links
    <3>1. PICK f \in Filters : u = ToParams(f)
      BY <2>2 DEF Addresses
    <3>2. Parse(ToParams(f)) \in Filters
      BY ParsedParams
    <3> QED BY <3>1, <3>2
  <2> QED BY <2>1, <2>2
<1> QED BY <1>1, <1>2, <1>3, <1>4, ListAssumption

\* What the effects leave: the address that was rendered, or the one asked for,
\* stands for the filters, or the filters are those of the rendered address.
LEMMA EffectsFit ==
  ASSUME NEW f \in Filters, NEW u \in Addresses, NEW fresh \in BOOLEAN,
         NEW pending \in Addresses \cup {None}, NEW flag \in BOOLEAN,
         Effects(f, u, fresh, pending, flag)
  PROVE  /\ filters' \in Filters /\ url' = u /\ target' \in Addresses \cup {None}
         /\ suppress' \in BOOLEAN /\ overtaken' = FALSE
         /\ ToParams(filters') = ToParams(f)
         /\ u = ToParams(f) \/ (target' # None /\ target' = ToParams(f))
         /\ fresh \/ filters' = f
<1> DEFINE asks == ToParams(f) # u
           marked == flag \/ asks
<1>1. /\ url' = u /\ overtaken' = FALSE
      /\ target' = IF asks THEN ToParams(f) ELSE pending
      /\ suppress' = IF fresh THEN FALSE ELSE marked
      /\ filters' = IF fresh /\ ~marked THEN Parse(u) ELSE f
  BY DEF Effects
<1>2. ToParams(f) \in Addresses /\ Parse(u) \in Filters /\ None \notin Addresses
  BY AddressFacts
<1>3. ~asks => ToParams(Parse(u)) = ToParams(f)
  BY ParsedParams
<1>4. ToParams(filters') = ToParams(f)
  BY <1>1, <1>3
<1> QED BY <1>1, <1>2, <1>4

-----------------------------------------------------------------------------
\* The steps, by what they do.

Submitted ==
  \E id \in JudgedIds : \E rows, right :
    /\ Judge(id, rows, right) /\ right \in BOOLEAN
    /\ ValidateResult(rows, Entry(id).expected, Entry(id).ordered) <=> right
VisitedList ==
  /\ route # "list" /\ session = None /\ UNCHANGED <<storage, last, used>>
  /\ \E u \in Links : Opened(u)
Started ==
  route # "practice" /\ \E what, pool, size, modes : Start(what, pool, size, modes)

StepOf ==
  \/ Submitted \/ EditStored \/ Hear \/ ToggleBookmark
  \/ \E f \in Filters : Choose(f)
  \/ Commit \/ Navigate
  \/ \E p \in Nat \ {0} : GoTo(p)
  \/ \E v \in {"learn", "interview"} : Visit(v)
  \/ VisitedList \/ FillForm \/ Started
  \/ UNCHANGED learnerVars

\* Each step is of one of the kinds above.
LEMMA StepKinds ==
  ASSUME ListInv, [ListNext]_learnerVars
  PROVE  StepOf
<1>1. CASE SubmitAny
  <2>1. PICK id \in JudgedIds : \/ \E rows \in RightAnswers(id) : Judge(id, rows, TRUE)
                               \/ \E rows \in WrongAnswers(id) : Judge(id, rows, FALSE)
    BY <1>1 DEF SubmitAny
  <2>2. ASSUME NEW rows \in RightAnswers(id), Judge(id, rows, TRUE) PROVE Submitted
    <3>1. ValidateResult(rows, Entry(id).expected, Entry(id).ordered)
      BY RightIsAccepted
    <3> QED BY <2>2, <3>1 DEF Submitted
  <2>3. ASSUME NEW rows \in WrongAnswers(id), Judge(id, rows, FALSE) PROVE Submitted
    <3>1. ~ValidateResult(rows, Entry(id).expected, Entry(id).ordered)
      BY WrongIsRefused
    <3> QED BY <2>3, <3>1 DEF Submitted
  <2> QED BY <2>1, <2>2, <2>3 DEF StepOf
<1>2. CASE Submit
  <2>1. PICK id \in Practised : \/ Judge(id, Entry(id).expected, TRUE)
                               \/ Judge(id, Tail(Entry(id).expected), FALSE)
    BY <1>2 DEF Submit
  <2>2. id \in JudgedIds
    BY ListAssumption
  <2>3. /\ ValidateResult(Entry(id).expected, Entry(id).expected, Entry(id).ordered)
        /\ ~ValidateResult(Tail(Entry(id).expected), Entry(id).expected, Entry(id).ordered)
    BY <2>2, LaterAnswers
  <2>4. Submitted
    BY <2>1, <2>2, <2>3 DEF Submitted
  <2> QED BY <2>4 DEF StepOf
<1>3. CASE EditStored \/ Hear \/ ToggleBookmark \/ Commit \/ Navigate \/ FillForm
  BY <1>3 DEF StepOf
<1>4. CASE SetFilter \/ ToggleBookmarkedOnly \/ ClearFilters
  <2>0. filters \in Filters
    BY DEF ListInv, AddressFits, AddressTypes
  <2>1. CASE SetFilter
    <3>1. PICK c \in Picks : Choose([filters EXCEPT ![c[1]] = c[2]])
      BY <2>1 DEF SetFilter
    <3>2. [filters EXCEPT ![c[1]] = c[2]] \in Filters
      BY <2>0, PickIsFilters
    <3> QED BY <3>1, <3>2 DEF StepOf
  <2>2. CASE ToggleBookmarkedOnly
    <3>1. [filters EXCEPT !.bookmarkedOnly = ~@] \in Filters
      BY <2>0 DEF Filters
    <3> QED BY <2>2, <3>1 DEF StepOf, ToggleBookmarkedOnly
  <2>3. CASE ClearFilters
    <3>1. filters.bookmarkedOnly \in BOOLEAN
      BY <2>0 DEF Filters
    <3>2. [DefaultFilters EXCEPT !.bookmarkedOnly = filters.bookmarkedOnly] \in Filters
      BY <3>1, DefaultIsFilters DEF Filters
    <3> QED BY <2>3, <3>2 DEF StepOf, ClearFilters
  <2> QED BY <1>4, <2>1, <2>2, <2>3
<1>5. CASE NextPage \/ PreviousPage
  <2>0. page \in Nat \ {0} /\ seen.stored \in Stored \cup {<<>>}
    BY DEF ListInv, AddressFits, AddressTypes, StorageFits, Store
  <2> DEFINE T == TotalPages(Filtered)
  <2>1. T \in Nat \ {0}
    BY <2>0, FilteredFacts, PagesFit
  <2> HIDE DEF T
  <2>2. CASE NextPage
    <3>1. GoTo(MinOf(page + 1, T))
      BY <2>2 DEF NextPage, T
    <3>2. MinOf(page + 1, T) \in Nat \ {0}
      BY <2>0, <2>1 DEF MinOf
    <3> QED BY <3>1, <3>2 DEF StepOf
  <2>3. CASE PreviousPage
    <3>1. GoTo(page - 1) /\ MinOf(page, T) > 1
      BY <2>3 DEF PreviousPage, SafePage, T
    <3>2. page - 1 \in Nat \ {0}
      BY <2>0, <2>1, <3>1 DEF MinOf
    <3> QED BY <3>1, <3>2 DEF StepOf
  <2> QED BY <1>5, <2>2, <2>3
<1>6. CASE VisitLearn \/ VisitInterview
  BY <1>6 DEF StepOf, VisitLearn, VisitInterview
<1>7. CASE VisitList
  BY <1>7 DEF StepOf, VisitList, VisitedList
<1>8. CASE StartFiltered \/ StartBookmarked \/ StartPreset \/ StartWeakArea \/ StartStage
           \/ StartTopic \/ StartInterview
  <2>1. Started
    <3>1. CASE StartFiltered
      BY <3>1 DEF StartFiltered, Started
    <3>2. CASE StartBookmarked
      BY <3>2 DEF StartBookmarked, Started
    <3>3. CASE StartPreset
      BY <3>3 DEF StartPreset, Started
    <3>4. CASE StartWeakArea
      BY <3>4 DEF StartWeakArea, Started
    <3>5. CASE StartStage
      BY <3>5 DEF StartStage, Started
    <3>6. CASE StartTopic
      BY <3>6 DEF StartTopic, Started
    <3>7. CASE StartInterview
      BY <3>7 DEF StartInterview, Started
    <3> QED BY <1>8, <3>1, <3>2, <3>3, <3>4, <3>5, <3>6, <3>7
  <2> QED BY <2>1 DEF StepOf
<1>9. CASE UNCHANGED learnerVars
  BY <1>9 DEF StepOf
<1> QED BY <1>1, <1>2, <1>3, <1>4, <1>5, <1>6, <1>7, <1>8, <1>9 DEF ListNext

\* The list opens on what is stored, unfiltered.
LEMMA ListInitFits ==
  ASSUME ListInit
  PROVE  ListInv
<1>1. StorageFits
  <2>1. /\ DOMAIN storage = {"solved", "bookmarks", "attempts", "stored"}
        /\ storage = [x \in DOMAIN storage |-> storage[x]]
        /\ storage.solved = {} /\ storage.bookmarks = {} /\ storage.stored = <<>>
    BY DEF ListInit
  <2>2. Store(storage)
    BY <2>1 DEF Store
  <2> QED BY <2>2 DEF ListInit, StorageFits, PageIsFresh
<1>2. AddressFits
  <2>1. filters = DefaultFilters /\ url = {} /\ target = None /\ route = "list" /\ page = 1
    BY DEF ListInit
  <2>2. filters \in Filters /\ url \in Addresses /\ url = ToParams(filters)
    BY <2>1, DefaultIsFilters, DefaultParams, AddressFacts
  <2>5. page \in Nat \ {0}
    BY <2>1
  <2>6. suppress \in BOOLEAN /\ overtaken \in BOOLEAN
    BY DEF ListInit
  <2>3. AddressTypes
    BY <2>1, <2>2, <2>5, <2>6 DEF AddressTypes
  <2>4. AddressFollows
    BY <2>2 DEF AddressFollows
  <2> QED BY <2>3, <2>4 DEF AddressFits
<1>3. UsedFits
  BY ListAssumption DEF ListInit, Fresh, UsedFits
<1>4. VerdictIsFair
  BY DEF ListInit, VerdictIsFair
<1> QED BY <1>1, <1>2, <1>3, <1>4 DEF ListInv

\* Changing one part of what is stored keeps the rest.
LEMMA StorePart ==
  ASSUME NEW s, Store(s), NEW t,
         \/ \E part, other : /\ part \subseteq BuiltInIds
                             /\ t = [s EXCEPT !.solved = part, !.attempts = other]
         \/ \E part \in SUBSET Practised : t = [s EXCEPT !.bookmarks = part]
         \/ \E part \in Stored : t = [s EXCEPT !.stored = part]
  PROVE  Store(t)
<1>1. CASE \E part, other : /\ part \subseteq BuiltInIds
                            /\ t = [s EXCEPT !.solved = part, !.attempts = other]
  BY <1>1 DEF Store
<1>2. CASE \E part \in SUBSET Practised : t = [s EXCEPT !.bookmarks = part]
  BY <1>2 DEF Store
<1>3. CASE \E part \in Stored : t = [s EXCEPT !.stored = part]
  BY <1>3 DEF Store
<1> QED BY <1>1, <1>2, <1>3

\* The page reads what is stored, and who changed it tells.
LEMMA StorageStep ==
  ASSUME ListInv, StepOf
  PROVE  StorageFits'
<1>0. Store(storage) /\ Store(seen) /\ told \in BOOLEAN /\ (~told => seen = storage)
  BY DEF ListInv, StorageFits, PageIsFresh
<1>1. CASE Submitted
  <2>0. PICK id \in JudgedIds : \E rows, right : Judge(id, rows, right)
    BY <1>1 DEF Submitted
  <2>1. PICK rows, right : Judge(id, rows, right)
    BY <2>0
  <2>2. id \in BuiltInIds
    BY DEF JudgedIds
  <2>3. PICK part, other : /\ part \subseteq BuiltInIds
                           /\ storage' = [storage EXCEPT !.solved = part, !.attempts = other]
    <3> DEFINE correct == ValidateResult(rows, Entry(id).expected, Entry(id).ordered)
               part == IF correct THEN storage.solved \cup {id} ELSE storage.solved
               old == AttemptsOf(storage.attempts, id)
               other == (id :> [all |-> old.all + 1,
                                correct |-> old.correct + (IF correct THEN 1 ELSE 0)]) @@ storage.attempts
    <3>1. storage' = [storage EXCEPT !.solved = part, !.attempts = other]
      BY <2>1 DEF Judge
    <3>2. part \subseteq BuiltInIds
      BY <2>2, <1>0 DEF Store
    <3> HIDE DEF part, other
    <3> QED BY <3>1, <3>2
  <2>4. Store(storage')
    BY <1>0, <2>3, StorePart
  <2>5. seen' = seen /\ told' = TRUE
    BY <2>1 DEF Judge
  <2> QED BY <1>0, <2>4, <2>5 DEF StorageFits, PageIsFresh, Store
<1>2. CASE EditStored
  <2>1. PICK list \in Stored : storage' = [storage EXCEPT !.stored = list]
    BY <1>2 DEF EditStored
  <2>2. Store(storage')
    BY <1>0, <2>1, StorePart
  <2>3. seen' = seen /\ told' = TRUE
    BY <1>2 DEF EditStored
  <2> QED BY <1>0, <2>2, <2>3 DEF StorageFits, PageIsFresh, Store
<1>3. CASE Hear
  BY <1>0, <1>3 DEF Hear, Heard, StorageFits, PageIsFresh, Store
<1>4. CASE ToggleBookmark
  <2>1. PICK id \in Practised :
          LET old == storage.bookmarks
              toggled == IF id \in old THEN old \ {id} ELSE old \cup {id}
          IN /\ storage' = [storage EXCEPT !.bookmarks = toggled]
             /\ seen' = [seen EXCEPT !.bookmarks = toggled]
    BY <1>4 DEF ToggleBookmark
  <2> DEFINE old == storage.bookmarks
             toggled == IF id \in old THEN old \ {id} ELSE old \cup {id}
  <2>2. toggled \in SUBSET Practised
    BY <1>0 DEF Store
  <2>3. /\ storage' = [storage EXCEPT !.bookmarks = toggled]
        /\ seen' = [seen EXCEPT !.bookmarks = toggled]
    BY <2>1
  <2> HIDE DEF toggled
  <2>4. Store(storage') /\ Store(seen')
    BY <1>0, <2>2, <2>3, StorePart
  <2>5. told' = told
    BY <1>4 DEF ToggleBookmark
  <2> QED BY <1>0, <2>3, <2>4, <2>5 DEF StorageFits, PageIsFresh, Store
<1>5. CASE \E v \in {"learn", "interview"} : Visit(v)
  BY <1>0, <1>5 DEF Visit, StorageFits, PageIsFresh, Store
<1>6. CASE VisitedList
  BY <1>0, <1>6 DEF VisitedList, Opened, StorageFits, PageIsFresh, Store
<1>7. CASE \/ \E f \in Filters : Choose(f)
           \/ Commit \/ Navigate
           \/ \E p \in Nat \ {0} : GoTo(p)
           \/ FillForm \/ Started
           \/ UNCHANGED learnerVars
  <2>1. UNCHANGED <<storage, seen, told>>
    <3>1. CASE \E f \in Filters : Choose(f)
      BY <3>1 DEF Choose
    <3>2. CASE Commit
      BY <3>2 DEF Commit
    <3>3. CASE Navigate
      BY <3>3 DEF Navigate
    <3>4. CASE \E p \in Nat \ {0} : GoTo(p)
      BY <3>4 DEF GoTo
    <3>5. CASE FillForm
      BY <3>5 DEF FillForm
    <3>6. CASE Started
      BY <3>6 DEF Started, Start
    <3>7. CASE UNCHANGED learnerVars
      BY <3>7 DEF learnerVars
    <3> QED BY <1>7, <3>1, <3>2, <3>3, <3>4, <3>5, <3>6, <3>7
  <2> QED BY <1>0, <2>1 DEF StorageFits, PageIsFresh, Store
<1> QED BY <1>1, <1>2, <1>3, <1>4, <1>5, <1>6, <1>7 DEF StepOf

\* The effects and the learner keep address and filters following each other.
LEMMA AddressStep ==
  ASSUME ListInv, StepOf
  PROVE  AddressFits'
<1>0. /\ route \in {"list", "learn", "interview", "practice"} /\ page \in Nat \ {0}
      /\ filters \in Filters /\ url \in Addresses /\ target \in Addresses \cup {None}
      /\ suppress \in BOOLEAN /\ overtaken \in BOOLEAN
      /\ route = "list" /\ ~overtaken =>
           url = ToParams(filters) \/ (target # None /\ target = ToParams(filters))
  BY DEF ListInv, AddressFits, AddressTypes, AddressFollows
<1>1. CASE \E f \in Filters : Choose(f)
  <2>1. PICK f \in Filters : Choose(f)
    BY <1>1
  <2>2. Effects(f, url, FALSE, target, suppress) /\ page' = 1 /\ route' = route
    BY <2>1 DEF Choose
  <2>3. FALSE \in BOOLEAN /\ f \in Filters
    OBVIOUS
  <2>4. /\ filters' \in Filters /\ url' = url /\ target' \in Addresses \cup {None}
        /\ suppress' \in BOOLEAN /\ overtaken' = FALSE
        /\ ToParams(filters') = ToParams(f)
        /\ url = ToParams(f) \/ (target' # None /\ target' = ToParams(f))
    BY <1>0, <2>2, <2>3, EffectsFit
  <2>5. /\ route' \in {"list", "learn", "interview", "practice"} /\ url' \in Addresses
        /\ url' = ToParams(filters') \/ (target' # None /\ target' = ToParams(filters'))
    BY <1>0, <2>2, <2>4
  <2>6. page' \in Nat \ {0}
    BY <2>2
  <2>7. suppress' \in BOOLEAN /\ overtaken' \in BOOLEAN
    BY <2>4
  <2>8. AddressTypes'
    BY <2>4, <2>5, <2>6, <2>7 DEF AddressTypes
  <2>9. AddressFollows'
    BY <2>4, <2>5 DEF AddressFollows
  <2> QED BY <2>8, <2>9 DEF AddressFits
<1>2. CASE Commit
  <2>1. CASE target = url
    <3>1. target' = None /\ UNCHANGED <<filters, url, suppress, page, overtaken, route>>
      BY <1>2, <2>1 DEF Commit
    <3> QED BY <1>0, <2>1, <3>1 DEF AddressFits, AddressTypes, AddressFollows
  <2>2. CASE target # url
    <3>1. /\ Effects(filters, target, TRUE, None, suppress)
          /\ page' = (IF filters' = filters THEN page ELSE 1) /\ route' = route
          /\ target \in Addresses
      BY <1>0, <1>2, <2>2 DEF Commit
    <3>2. TRUE \in BOOLEAN /\ None \in Addresses \cup {None}
      OBVIOUS
    <3>3. /\ filters' \in Filters /\ url' = target /\ target' \in Addresses \cup {None}
          /\ suppress' \in BOOLEAN /\ overtaken' = FALSE
          /\ ToParams(filters') = ToParams(filters)
          /\ target = ToParams(filters) \/ (target' # None /\ target' = ToParams(filters))
      BY <1>0, <3>1, <3>2, EffectsFit
    <3>4. /\ route' \in {"list", "learn", "interview", "practice"} /\ url' \in Addresses
          /\ url' = ToParams(filters') \/ (target' # None /\ target' = ToParams(filters'))
      BY <1>0, <3>1, <3>3
    <3>6. page' \in Nat \ {0}
      BY <1>0, <3>1
    <3>7. suppress' \in BOOLEAN /\ overtaken' \in BOOLEAN
      BY <3>3
    <3>8. AddressTypes'
      BY <3>3, <3>4, <3>6, <3>7 DEF AddressTypes
    <3>9. AddressFollows'
      BY <3>3, <3>4 DEF AddressFollows
    <3> QED BY <3>8, <3>9 DEF AddressFits
  <2> QED BY <2>1, <2>2
<1>3. CASE Navigate
  <2>1. /\ target' \in Links /\ overtaken' = (overtaken \/ target # None)
        /\ UNCHANGED <<filters, url, suppress, page, route>>
    BY <1>3 DEF Navigate
  <2> QED BY <1>0, <2>1, AddressFacts DEF AddressFits, AddressTypes, AddressFollows
<1>4. CASE \E v \in {"learn", "interview"} : Visit(v)
  <2>1. /\ route' \in {"learn", "interview"} /\ LeaveList
    BY <1>4 DEF Visit
  <2>2. /\ filters' \in Filters /\ url' \in Addresses /\ target' = None /\ suppress' = FALSE
        /\ page' = 1 /\ overtaken' = FALSE
    BY <2>1, AddressFacts, DefaultIsFilters DEF LeaveList
  <2>3. route' # "list" /\ route' \in {"list", "learn", "interview", "practice"}
    BY <2>1
  <2>6. page' \in Nat \ {0}
    BY <2>2
  <2>7. suppress' \in BOOLEAN /\ overtaken' \in BOOLEAN
    BY <2>2
  <2>4. AddressTypes'
    BY <2>2, <2>3, <2>6, <2>7 DEF AddressTypes
  <2>5. AddressFollows'
    BY <2>3 DEF AddressFollows
  <2> QED BY <2>4, <2>5 DEF AddressFits
<1>5. CASE VisitedList
  <2>1. PICK u \in Links : Opened(u)
    BY <1>5 DEF VisitedList
  <2>2. u \in Addresses /\ Parse(u) \in Filters
    BY AddressFacts
  <2>3. /\ Effects(Parse(u), u, TRUE, None, FALSE) /\ page' = 1 /\ route' = "list"
    BY <2>1 DEF Opened
  <2>4. TRUE \in BOOLEAN /\ FALSE \in BOOLEAN /\ None \in Addresses \cup {None}
    OBVIOUS
  <2>5. /\ filters' \in Filters /\ url' = u /\ target' \in Addresses \cup {None}
        /\ suppress' \in BOOLEAN /\ overtaken' = FALSE
        /\ ToParams(filters') = ToParams(Parse(u))
        /\ u = ToParams(Parse(u)) \/ (target' # None /\ target' = ToParams(Parse(u)))
    BY <2>2, <2>3, <2>4, EffectsFit
  <2>6. /\ route' \in {"list", "learn", "interview", "practice"} /\ url' \in Addresses
        /\ url' = ToParams(filters') \/ (target' # None /\ target' = ToParams(filters'))
    BY <2>2, <2>3, <2>5
  <2>10. page' \in Nat \ {0}
    BY <2>3
  <2>7. suppress' \in BOOLEAN /\ overtaken' \in BOOLEAN
    BY <2>5
  <2>8. AddressTypes'
    BY <2>5, <2>6, <2>7, <2>10 DEF AddressTypes
  <2>9. AddressFollows'
    BY <2>5, <2>6 DEF AddressFollows
  <2> QED BY <2>8, <2>9 DEF AddressFits
<1>6. CASE Started
  <2>1. route' = "practice" /\ LeaveList
    BY <1>6 DEF Started, Start
  <2>2. /\ filters' \in Filters /\ url' \in Addresses /\ target' = None /\ suppress' = FALSE
        /\ page' = 1 /\ overtaken' = FALSE
    BY <2>1, AddressFacts, DefaultIsFilters DEF LeaveList
  <2>3. route' # "list" /\ route' \in {"list", "learn", "interview", "practice"}
    BY <2>1
  <2>6. page' \in Nat \ {0}
    BY <2>2
  <2>7. suppress' \in BOOLEAN /\ overtaken' \in BOOLEAN
    BY <2>2
  <2>4. AddressTypes'
    BY <2>2, <2>3, <2>6, <2>7 DEF AddressTypes
  <2>5. AddressFollows'
    BY <2>3 DEF AddressFollows
  <2> QED BY <2>4, <2>5 DEF AddressFits
<1>7. CASE \E p \in Nat \ {0} : GoTo(p)
  <2>1. page' \in Nat \ {0} /\ UNCHANGED <<route, filters, url, target, suppress, overtaken>>
    BY <1>7 DEF GoTo
  <2> QED BY <1>0, <2>1 DEF AddressFits, AddressTypes, AddressFollows
<1>8. CASE Submitted \/ EditStored \/ Hear \/ ToggleBookmark \/ FillForm \/ UNCHANGED learnerVars
  <2>1. UNCHANGED <<route, listVars>>
    <3>1. CASE Submitted
      BY <3>1 DEF Submitted, Judge
    <3>2. CASE EditStored
      BY <3>2 DEF EditStored
    <3>3. CASE Hear
      BY <3>3 DEF Hear
    <3>4. CASE ToggleBookmark
      BY <3>4 DEF ToggleBookmark
    <3>5. CASE FillForm
      BY <3>5 DEF FillForm
    <3>6. CASE UNCHANGED learnerVars
      BY <3>6 DEF learnerVars, listVars
    <3> QED BY <1>8, <3>1, <3>2, <3>3, <3>4, <3>5, <3>6
  <2> QED BY <1>0, <2>1 DEF AddressFits, AddressTypes, AddressFollows, listVars
<1> QED BY <1>1, <1>2, <1>3, <1>4, <1>5, <1>6, <1>7, <1>8 DEF StepOf

\* No step spends more than its bound.
LEMMA UsedStep ==
  ASSUME ListInv, StepOf
  PROVE  UsedFits'
<1>0. /\ used \in [DOMAIN Most -> Nat] /\ \A kind \in DOMAIN Most : used[kind] <= Most[kind]
      /\ Most \in [{"submit", "edit", "choice", "visit"} -> Nat]
  BY ListAssumption DEF ListInv, UsedFits
<1>1. ASSUME NEW k \in DOMAIN Most, Spend(k) PROVE UsedFits'
  <2>1. used[k] < Most[k] /\ used' = [used EXCEPT ![k] = @ + 1]
    BY <1>1 DEF Spend
  <2>2. \A kind \in DOMAIN Most : used[kind] \in Nat /\ Most[kind] \in Nat
    BY <1>0
  <2> QED BY <1>0, <2>1, <2>2 DEF UsedFits
<1>2. CASE used' = used
  BY <1>0, <1>2 DEF UsedFits
<1>3. /\ "submit" \in DOMAIN Most /\ "edit" \in DOMAIN Most
      /\ "choice" \in DOMAIN Most /\ "visit" \in DOMAIN Most
  BY <1>0
<1>4. CASE Submitted
  BY <1>1, <1>3, <1>4 DEF Submitted, Judge
<1>5. CASE EditStored
  BY <1>1, <1>3, <1>5 DEF EditStored
<1>6. CASE ToggleBookmark
  BY <1>1, <1>3, <1>6 DEF ToggleBookmark
<1>7. CASE \E f \in Filters : Choose(f)
  BY <1>1, <1>3, <1>7 DEF Choose
<1>8. CASE Navigate
  BY <1>1, <1>3, <1>8 DEF Navigate
<1>9. CASE \E v \in {"learn", "interview"} : Visit(v)
  BY <1>1, <1>3, <1>9 DEF Visit
<1>10. CASE FillForm
  BY <1>1, <1>3, <1>10 DEF FillForm
<1>11. CASE Hear \/ Commit \/ (\E p \in Nat \ {0} : GoTo(p)) \/ VisitedList \/ Started
            \/ UNCHANGED learnerVars
  <2>1. CASE Hear
    BY <1>2, <2>1 DEF Hear
  <2>2. CASE Commit
    BY <1>2, <2>2 DEF Commit
  <2>3. CASE \E p \in Nat \ {0} : GoTo(p)
    BY <1>2, <2>3 DEF GoTo
  <2>4. CASE VisitedList
    BY <1>2, <2>4 DEF VisitedList
  <2>5. CASE Started
    BY <1>2, <2>5 DEF Started, Start
  <2>6. CASE UNCHANGED learnerVars
    BY <1>2, <2>6 DEF learnerVars
  <2> QED BY <1>11, <2>1, <2>2, <2>3, <2>4, <2>5, <2>6
<1> QED BY <1>4, <1>5, <1>6, <1>7, <1>8, <1>9, <1>10, <1>11 DEF StepOf

\* The last verdict is right: every answer is judged against its own question.
LEMMA VerdictStep ==
  ASSUME ListInv, StepOf
  PROVE  VerdictIsFair'
<1>0. last # None => last.verdict = last.right
  BY DEF ListInv, VerdictIsFair
<1>1. CASE Submitted
  <2>0. PICK id \in JudgedIds :
          \E rows, right :
            /\ Judge(id, rows, right) /\ right \in BOOLEAN
            /\ ValidateResult(rows, Entry(id).expected, Entry(id).ordered) <=> right
    BY <1>1 DEF Submitted
  <2>1. PICK rows, right :
          /\ Judge(id, rows, right) /\ right \in BOOLEAN
          /\ ValidateResult(rows, Entry(id).expected, Entry(id).ordered) <=> right
    BY <2>0
  <2> DEFINE verdict == ValidateResult(rows, Entry(id).expected, Entry(id).ordered)
  <2>2. last' = [right |-> right, verdict |-> verdict]
    BY <2>1 DEF Judge
  <2>3. verdict \in BOOLEAN
    BY DEF ValidateResult, RowsEqualInOrder, RowsEqualIgnoringOrder
  <2>4. verdict = right
    <3> HIDE DEF verdict
    <3> QED BY <2>1, <2>3 DEF verdict
  <2> HIDE DEF verdict
  <2>5. last'.verdict = verdict /\ last'.right = right
    BY <2>2
  <2> QED BY <2>4, <2>5 DEF VerdictIsFair
<1>2. CASE ~Submitted
  <2>1. last' = last
    <3>1. CASE EditStored
      BY <3>1 DEF EditStored
    <3>2. CASE Hear
      BY <3>2 DEF Hear
    <3>3. CASE ToggleBookmark
      BY <3>3 DEF ToggleBookmark
    <3>4. CASE \E f \in Filters : Choose(f)
      BY <3>4 DEF Choose
    <3>5. CASE Commit
      BY <3>5 DEF Commit
    <3>6. CASE Navigate
      BY <3>6 DEF Navigate
    <3>7. CASE \E p \in Nat \ {0} : GoTo(p)
      BY <3>7 DEF GoTo
    <3>8. CASE \E v \in {"learn", "interview"} : Visit(v)
      BY <3>8 DEF Visit
    <3>9. CASE VisitedList
      BY <3>9 DEF VisitedList
    <3>10. CASE FillForm
      BY <3>10 DEF FillForm
    <3>11. CASE Started
      BY <3>11 DEF Started, Start
    <3>12. CASE UNCHANGED learnerVars
      BY <3>12 DEF learnerVars
    <3> QED BY <1>2, <3>1, <3>2, <3>3, <3>4, <3>5, <3>6, <3>7, <3>8, <3>9, <3>10, <3>11, <3>12 DEF StepOf
  <2> QED BY <1>0, <2>1 DEF VerdictIsFair
<1> QED BY <1>1, <1>2

\* The invariant holds in every reachable state.
THEOREM ListInvariant == ListSpec => []ListInv
<1>1. ListInit => ListInv
  BY ListInitFits
<1>2. ListInv /\ [ListNext]_learnerVars => ListInv'
  <2> SUFFICES ASSUME ListInv, [ListNext]_learnerVars PROVE ListInv'
    OBVIOUS
  <2>1. StepOf
    BY StepKinds
  <2>2. StorageFits' /\ AddressFits' /\ UsedFits' /\ VerdictIsFair'
    BY <2>1, StorageStep, AddressStep, UsedStep, VerdictStep
  <2> QED BY <2>2 DEF ListInv
<1> QED BY <1>1, <1>2, PTL DEF ListSpec

\* The invariant says that list, address, neighbours and storage agree.
LEMMA InvariantMeans ==
  ASSUME ListInv
  PROVE  ListIsConsistent
<1>1. ListTypeOK
  <2>1. \A kind \in DOMAIN Most : used[kind] \in 0..Most[kind]
    BY ListAssumption DEF ListInv, UsedFits
  <2> QED BY <2>1 DEF ListInv, StorageFits, Store, AddressFits, AddressTypes, AddressFollows, ListTypeOK
<1>2. PageIsShown
  BY PagesShow DEF ListInv, StorageFits, Store, AddressFits, AddressTypes, AddressFollows
<1>3. NavFollowsTheList
  BY NavFollows DEF ListInv, StorageFits, Store, AddressFits, AddressTypes, AddressFollows
<1>4. UrlShowsFilters
  BY DEF ListInv, AddressFits, AddressTypes, AddressFollows, UrlShowsFilters
<1>5. PageIsFresh
  BY DEF ListInv, StorageFits
<1> QED BY <1>1, <1>2, <1>3, <1>4, <1>5 DEF ListIsConsistent

\* The page that is shown is never empty while the list is not and each question is
\* on one page; the neighbours of a question are the list's; the address stands for the
\* filters; and a page that has heard every event shows what is stored.
THEOREM PagesTellOneStory == ListSpec => []ListIsConsistent
<1>1. ListInv => ListIsConsistent
  BY InvariantMeans
<1> QED BY <1>1, ListInvariant, PTL

\* Right answers are accepted in any order the query leaves open, wrong ones refused.
THEOREM VerdictsAreFair == ListSpec => []VerdictIsFair
<1>1. ListInv => VerdictIsFair
  BY DEF ListInv
<1> QED BY <1>1, ListInvariant, PTL

\* A step that is not a choice or a visit leaves what the filters ask for.
LEMMA FilterStep ==
  ASSUME ListInv, StepOf
  PROVE  used' = used /\ route' = route => ToParams(filters') = ToParams(filters)
<1>0. /\ used \in [DOMAIN Most -> Nat] /\ Most \in [{"submit", "edit", "choice", "visit"} -> Nat]
      /\ filters \in Filters /\ target \in Addresses \cup {None} /\ suppress \in BOOLEAN
  BY ListAssumption DEF ListInv, UsedFits, AddressFits, AddressTypes, AddressFollows
<1>1. \A k \in DOMAIN Most : Spend(k) => used' # used
  <2> SUFFICES ASSUME NEW k \in DOMAIN Most, Spend(k) PROVE used' # used
    OBVIOUS
  <2>1. used'[k] = used[k] + 1 /\ used[k] \in Nat
    BY <1>0 DEF Spend
  <2>2. used'[k] # used[k]
    BY <2>1
  <2> QED BY <2>2
<1>2. CASE \E f \in Filters : Choose(f)
  BY <1>0, <1>1, <1>2 DEF Choose
<1>3. CASE Commit
  <2>1. CASE target = url
    BY <1>3, <2>1 DEF Commit
  <2>2. CASE target # url
    <3>1. Effects(filters, target, TRUE, None, suppress) /\ target \in Addresses
      BY <1>0, <1>3, <2>2 DEF Commit
    <3>2. TRUE \in BOOLEAN /\ None \in Addresses \cup {None}
      OBVIOUS
    <3> QED BY <1>0, <3>1, <3>2, EffectsFit
  <2> QED BY <2>1, <2>2
<1>4. CASE \/ Submitted \/ EditStored \/ Hear \/ ToggleBookmark \/ Navigate
           \/ \E p \in Nat \ {0} : GoTo(p)
           \/ FillForm \/ UNCHANGED learnerVars
  <2>1. filters' = filters
    <3>1. CASE Submitted
      BY <3>1 DEF Submitted, Judge, listVars
    <3>2. CASE EditStored
      BY <3>2 DEF EditStored, listVars
    <3>3. CASE Hear
      BY <3>3 DEF Hear, listVars
    <3>4. CASE ToggleBookmark
      BY <3>4 DEF ToggleBookmark, listVars
    <3>5. CASE Navigate
      BY <3>5 DEF Navigate
    <3>6. CASE \E p \in Nat \ {0} : GoTo(p)
      BY <3>6 DEF GoTo
    <3>7. CASE FillForm
      BY <3>7 DEF FillForm, listVars
    <3>8. CASE UNCHANGED learnerVars
      BY <3>8 DEF learnerVars
    <3> QED BY <1>4, <3>1, <3>2, <3>3, <3>4, <3>5, <3>6, <3>7, <3>8
  <2> QED BY <2>1
<1>5. CASE \E v \in {"learn", "interview"} : Visit(v)
  BY <1>5 DEF Visit
<1>6. CASE VisitedList
  BY <1>6 DEF VisitedList, Opened
<1>7. CASE Started
  BY <1>7 DEF Started, Start
<1> QED BY <1>2, <1>3, <1>4, <1>5, <1>6, <1>7 DEF StepOf

\* Only the learner changes what the filters ask for.
THEOREM FiltersAreTheLearners == ListSpec => OnlyTheLearnerFilters
<1>1. ListInv /\ [ListNext]_learnerVars =>
        [used' = used /\ route' = route => ToParams(filters') = ToParams(filters)]_learnerVars
  BY StepKinds, FilterStep
<1> QED BY <1>1, ListInvariant, PTL DEF ListSpec, OnlyTheLearnerFilters

-----------------------------------------------------------------------------
\* Sessions.

\* at names the places that the questions of pool have in list, in their order.
Drawn(pool, list, at) ==
  /\ at \in [1..Len(pool) -> 1..Len(list)]
  /\ \A i, j \in 1..Len(pool) : i < j => at[i] < at[j]
  /\ \A i \in 1..Len(pool) : pool[i] = list[at[i]]

\* A filtered list of different ids is drawn from the list it filters.
LEMMA KeptIsDrawn ==
  ASSUME NEW list, Listing(list), NEW places \in SUBSET DOMAIN list
  PROVE  /\ Listing(Kept(list, places))
         /\ \E at : Drawn(Kept(list, places), list, at)
         /\ \A i \in DOMAIN Kept(list, places) : \E p \in places : Kept(list, places)[i] = list[p]
<1> DEFINE pool == Kept(list, places)
<1>1. Len(list) \in Nat /\ DOMAIN list = 1..Len(list)
  BY DEF Listing
<1>2. /\ IsSequence(pool) /\ Len(pool) \in Nat /\ DOMAIN pool = 1..Len(pool)
      /\ \A i \in DOMAIN pool : \E p \in places : pool[i] = list[p]
  BY <1>1, KeptFacts
<1>3. DistinctIds(pool)
  <2>1. \A p, q \in places : list[p].id = list[q].id => p = q
    BY DEF Listing, DistinctIds
  <2> QED BY <1>1, <2>1, KeptIds
<1>4. PICK at : Picked(pool, list, places, at)
  BY <1>1, KeptPicks
<1> HIDE DEF pool
<1>5. Drawn(pool, list, at)
  BY <1>1, <1>4 DEF Picked, Drawn
<1>6. Listing(pool)
  BY <1>2, <1>3 DEF Listing
<1> QED BY <1>2, <1>5, <1>6 DEF pool

\* What is drawn from what is drawn from a list is drawn from the list.
LEMMA DrawnTwice ==
  ASSUME NEW some, NEW pool, NEW list, NEW at, NEW bt,
         Len(some) \in Nat, Len(pool) \in Nat, Len(list) \in Nat,
         Drawn(pool, list, at), Drawn(some, pool, bt)
  PROVE  Drawn(some, list, [i \in 1..Len(some) |-> at[bt[i]]])
<1>1. \A i \in 1..Len(some) : bt[i] \in 1..Len(pool) /\ at[bt[i]] \in 1..Len(list)
  BY DEF Drawn
<1> QED BY <1>1 DEF Drawn

\* pos names the questions of pool that ids are of.
Asks(ids, pool, pos, ordered) ==
  /\ DOMAIN ids = 1..Len(ids) /\ pos \in [1..Len(ids) -> 1..Len(pool)]
  /\ \A i \in 1..Len(ids) : ids[i] = pool[pos[i]].id
  /\ \A i, j \in 1..Len(ids) : pos[i] = pos[j] => i = j
  /\ ordered => \A i, j \in 1..Len(ids) : i < j => pos[i] < pos[j]

\* The first ones of a sequence are as many as are asked for.
LEMMA FirstOnes ==
  ASSUME NEW s, NEW n \in Nat, NEW count \in 0..n
  PROVE  LET first == SubSeq([i \in 1..n |-> s[i]], 1, count)
         IN Len(first) = count /\ DOMAIN first = 1..count /\ \A i \in 1..count : first[i] = s[i]
<1> DEFINE t == [i \in 1..n |-> s[i]]
           first == SubSeq(t, 1, count)
           S == {t[i] : i \in 1..n}
<1>1. \A i \in 1..count : t[i] \in S /\ t[i] = s[i]
  OBVIOUS
<1> HIDE DEF t, S
<1>2. /\ first \in Seq(S) /\ Len(first) = IF 1 <= count THEN count - 1 + 1 ELSE 0
      /\ \A i \in 1..(count - 1 + 1) : first[i] = t[1 + i - 1]
  BY <1>1, SubSeqProperties
<1> HIDE DEF first
<1>3. Len(first) = count /\ DOMAIN first = 1..Len(first)
  BY <1>2, LenProperties
<1>4. \A i \in 1..count : first[i] = s[i]
  BY <1>1, <1>2
<1> QED BY <1>3, <1>4 DEF first, t

\* A selection has as many questions as it can, none twice, in order unless shuffled.
LEMMA SelectionAsks ==
  ASSUME NEW pool, Listing(pool), NEW size \in Nat, NEW mode,
         NEW ids \in Selections(IdsOf(pool), size, mode)
  PROVE  /\ Len(ids) = MinOf(size, Len(pool))
         /\ \E pos : Asks(ids, pool, pos, mode = "sequential")
<1> DEFINE n == Len(pool)
           all == IdsOf(pool)
           count == MinOf(size, n)
<1>1. n \in Nat /\ DOMAIN pool = 1..n
  BY DEF Listing
<1>2. all = [i \in 1..n |-> pool[i].id]
  BY <1>1 DEF IdsOf
<1>3. Len(all) = n /\ DOMAIN all = 1..n
  <2>1. all = [i \in 1..n |-> all[i]]
    BY <1>2
  <2> HIDE DEF all
  <2> QED BY <1>1, <2>1, FunctionIsSequence
<1>4. count \in 0..n /\ count \in Nat
  BY <1>1 DEF MinOf
<1> HIDE DEF count, n
<1>5. ids \in IF mode = "sequential" THEN {SubSeq(all, 1, count)}
              ELSE {SubSeq([i \in 1..n |-> all[p[i]]], 1, count) : p \in Arrangements(1..n)}
  BY <1>3 DEF Selections, count, n
<1> HIDE DEF all
<1>6. CASE mode = "sequential"
  <2>1. all = [i \in 1..n |-> all[i]]
    BY <1>2
  <2>2. /\ Len(ids) = count /\ DOMAIN ids = 1..count
        /\ \A i \in 1..count : ids[i] = all[i]
    <3>1. ids = SubSeq([i \in 1..n |-> all[i]], 1, count)
      BY <1>5, <1>6, <2>1
    <3> QED BY <1>1, <1>4, <3>1, FirstOnes
  <2> DEFINE pos == [i \in 1..count |-> i]
  <2>3. pos \in [1..count -> 1..n] /\ \A i \in 1..count : pos[i] = i
    BY <1>1, <1>4
  <2>4. \A i \in 1..count : ids[i] = pool[i].id
    BY <1>1, <1>2, <1>4, <2>2
  <2> HIDE DEF pos
  <2>5. Asks(ids, pool, pos, mode = "sequential")
    BY <2>2, <2>3, <2>4 DEF Asks, n
  <2> QED BY <2>2, <2>5 DEF count, n
<1>7. CASE mode # "sequential"
  <2>1. PICK p \in Arrangements(1..n) : ids = SubSeq([i \in 1..n |-> all[p[i]]], 1, count)
    BY <1>5, <1>7
  <2>2. p \in [1..n -> 1..n] /\ \A i, j \in 1..n : p[i] = p[j] => i = j
    BY <1>1, IntervalSize DEF Arrangements
  <2> DEFINE s == [i \in 1..n |-> all[p[i]]]
  <2>3. s = [i \in 1..n |-> s[i]] /\ \A i \in 1..n : s[i] = all[p[i]]
    OBVIOUS
  <2> HIDE DEF s
  <2>4. /\ Len(ids) = count /\ DOMAIN ids = 1..count
        /\ \A i \in 1..count : ids[i] = s[i]
    <3>1. ids = SubSeq([i \in 1..n |-> s[i]], 1, count)
      BY <2>1, <2>3 DEF s
    <3> QED BY <1>1, <1>4, <3>1, FirstOnes
  <2> DEFINE pos == [i \in 1..count |-> p[i]]
  <2>5. pos \in [1..count -> 1..n] /\ \A i \in 1..count : i \in 1..n /\ pos[i] = p[i]
    BY <1>1, <1>4, <2>2
  <2>6. \A i \in 1..count : ids[i] = pool[p[i]].id
    BY <1>2, <2>2, <2>3, <2>4, <2>5
  <2> HIDE DEF pos
  <2>7. Asks(ids, pool, pos, mode = "sequential")
    BY <1>7, <2>2, <2>4, <2>5, <2>6 DEF Asks, n
  <2> QED BY <2>4, <2>7 DEF count, n
<1> QED BY <1>6, <1>7

\* What StartedAsOffered says of a session, over the ids of the catalogue.
AsOffered(names, asked, solved) ==
  LET ids == asked.ids
      place == [i \in DOMAIN ids |-> CHOOSE j \in DOMAIN names : names[j] = ids[i]]
  IN /\ Len(ids) = MinOf(asked.size, asked.offered)
     /\ \A i \in DOMAIN ids : \E j \in DOMAIN names : names[j] = ids[i]
     /\ \A i, j \in DOMAIN ids : ids[i] = ids[j] => i = j
     /\ asked.mode = "sequential" => \A i \in 2..Len(ids) : place[i - 1] < place[i]
     /\ asked.what = "weak" => \A i \in DOMAIN ids : ids[i] \notin solved

\* StartedAsOffered says AsOffered of the session there is.
LEMMA OfferedMeans ==
  StartedAsOffered <=> (session # None => AsOffered(IdsOf(Catalog), session, seen.solved))
BY DEF StartedAsOffered, AsOffered

\* The same of the state a step leads to: a cited lemma speaks of one state.
LEMMA OfferedMeansNext ==
  StartedAsOffered' <=> (session' # None => AsOffered(IdsOf(Catalog'), session', seen'.solved))
BY DEF StartedAsOffered, AsOffered

\* A session whose questions are drawn from the catalogue is as its button offered.
LEMMA StartFits ==
  ASSUME ListInv, NEW what, NEW pool, NEW size \in Nat, NEW modes,
         Start(what, pool, size, modes),
         Listing(pool), NEW at, Drawn(pool, Catalog, at),
         what = "weak" => \A i \in DOMAIN pool : pool[i].id \notin seen.solved
  PROVE  StartedAsOffered'
<1>0. PICK mode \in modes : \E ids \in Selections(IdsOf(pool), size, mode) :
        session' = [what |-> what, offered |-> Len(pool), size |-> size, mode |-> mode, ids |-> ids]
  BY DEF Start
<1>1. PICK ids \in Selections(IdsOf(pool), size, mode) :
        session' = [what |-> what, offered |-> Len(pool), size |-> size, mode |-> mode, ids |-> ids]
  BY <1>0
<1>2. /\ session'.what = what /\ session'.offered = Len(pool) /\ session'.size = size
      /\ session'.mode = mode /\ session'.ids = ids /\ seen' = seen
  BY <1>1 DEF Start
<1>3. Len(ids) = MinOf(size, Len(pool))
  BY SelectionAsks
<1>4. PICK pos : Asks(ids, pool, pos, mode = "sequential")
  BY SelectionAsks
<1> DEFINE cat == Catalog
           names == IdsOf(cat)
<1>5. Catalog' = cat
  BY <1>2 DEF Catalog
<1>6. Listing(cat)
  BY FilteredFacts DEF ListInv, StorageFits, Store
<1>7. Drawn(pool, cat, at)
  OBVIOUS
<1> HIDE DEF cat
<1>8. DOMAIN names = 1..Len(cat) /\ \A j \in 1..Len(cat) : names[j] = cat[j].id
  BY <1>6 DEF Listing, IdsOf
<1>9. /\ DOMAIN ids = 1..Len(ids) /\ Len(ids) \in Nat
      /\ \A i \in 1..Len(ids) : /\ pos[i] \in 1..Len(pool) /\ at[pos[i]] \in 1..Len(cat)
                                /\ ids[i] = pool[pos[i]].id /\ ids[i] = names[at[pos[i]]]
  <2>1. Len(ids) \in Nat
    BY <1>3 DEF MinOf, Listing
  <2>2. \A i \in 1..Len(ids) : pos[i] \in 1..Len(pool) /\ ids[i] = pool[pos[i]].id
    BY <1>4 DEF Asks
  <2>3. \A k \in 1..Len(pool) : at[k] \in 1..Len(cat) /\ pool[k] = cat[at[k]]
    BY <1>7 DEF Drawn
  <2> QED BY <1>4, <1>8, <2>1, <2>2, <2>3 DEF Asks
<1>10. \A j, k \in 1..Len(cat) : names[j] = names[k] => j = k
  BY <1>6, <1>8 DEF Listing, DistinctIds
<1>11. \A k, m \in 1..Len(pool) : k < m => at[k] < at[m]
  BY <1>7 DEF Drawn
<1> HIDE DEF names
<1> DEFINE place == [i \in DOMAIN ids |-> CHOOSE j \in DOMAIN names : names[j] = ids[i]]
<1>12. \A i \in 1..Len(ids) : place[i] = at[pos[i]]
  <2> SUFFICES ASSUME NEW i \in 1..Len(ids) PROVE place[i] = at[pos[i]]
    OBVIOUS
  <2> DEFINE j == CHOOSE j \in DOMAIN names : names[j] = ids[i]
  <2>1. at[pos[i]] \in DOMAIN names /\ names[at[pos[i]]] = ids[i]
    BY <1>8, <1>9
  <2>2. j \in DOMAIN names /\ names[j] = ids[i]
    BY <2>1
  <2>3. place[i] = j
    BY <1>9
  <2> HIDE DEF j
  <2> QED BY <1>8, <1>10, <2>1, <2>2, <2>3
<1> HIDE DEF place
<1>13. \A i \in DOMAIN ids : \E j \in DOMAIN names : names[j] = ids[i]
  BY <1>8, <1>9
<1>14. \A i, j \in DOMAIN ids : ids[i] = ids[j] => i = j
  <2> SUFFICES ASSUME NEW i \in 1..Len(ids), NEW j \in 1..Len(ids), ids[i] = ids[j] PROVE i = j
    BY <1>9
  <2>1. at[pos[i]] = at[pos[j]]
    BY <1>9, <1>10
  <2>2. pos[i] = pos[j]
    <3>1. pos[i] \in 1..Len(pool) /\ pos[j] \in 1..Len(pool)
      BY <1>9
    <3>2. at[pos[i]] \in Int /\ at[pos[j]] \in Int
      BY <1>9
    <3>3. ~(pos[i] < pos[j]) /\ ~(pos[j] < pos[i])
      BY <1>11, <2>1, <3>1, <3>2
    <3> QED BY <3>1, <3>3
  <2> QED BY <2>2, <1>4 DEF Asks
<1>15. mode = "sequential" => \A i \in 2..Len(ids) : place[i - 1] < place[i]
  <2> SUFFICES ASSUME mode = "sequential", NEW i \in 2..Len(ids) PROVE place[i - 1] < place[i]
    OBVIOUS
  <2>1. i - 1 \in 1..Len(ids) /\ i \in 1..Len(ids) /\ i - 1 < i
    BY <1>9
  <2>2. pos[i - 1] < pos[i]
    BY <1>4, <2>1 DEF Asks
  <2>3. at[pos[i - 1]] < at[pos[i]]
    BY <1>9, <1>11, <2>1, <2>2
  <2> QED BY <1>12, <2>1, <2>3
<1>16. what = "weak" => \A i \in DOMAIN ids : ids[i] \notin seen.solved
  <2>1. DOMAIN pool = 1..Len(pool)
    BY DEF Listing
  <2> QED BY <1>9, <2>1
<1>17. /\ Len(ids) = MinOf(size, Len(pool))
       /\ \A i \in DOMAIN ids : \E j \in DOMAIN names : names[j] = ids[i]
       /\ \A i, j \in DOMAIN ids : ids[i] = ids[j] => i = j
       /\ mode = "sequential" => \A i \in 2..Len(ids) : place[i - 1] < place[i]
       /\ what = "weak" => \A i \in DOMAIN ids : ids[i] \notin seen.solved
  BY <1>3, <1>13, <1>14, <1>15, <1>16
<1>18. IdsOf(Catalog') = names
  BY <1>5 DEF names
<1>19. place = [i \in DOMAIN session'.ids |-> CHOOSE j \in DOMAIN names : names[j] = session'.ids[i]]
  BY <1>2 DEF place
<1>20. AsOffered(names, session', seen.solved)
  BY <1>2, <1>17, <1>19 DEF AsOffered
<1>21. AsOffered(IdsOf(Catalog'), session', seen'.solved)
  BY <1>2, <1>18, <1>20
<1> QED BY <1>21, OfferedMeansNext

\* What a button can ask for is drawn from the catalogue.
LEMMA FilterIsDrawn ==
  ASSUME NEW cat, Listing(cat), NEW f, NEW solved, NEW bookmarks
  PROVE  LET pool == FilterQuestions(cat, f, solved, bookmarks)
         IN Listing(pool) /\ \E at : Drawn(pool, cat, at)
<1> DEFINE places == {i \in DOMAIN cat : PassesFilters(cat[i], f, solved, bookmarks)}
<1>1. places \in SUBSET DOMAIN cat
  OBVIOUS
<1> HIDE DEF places
<1>2. Listing(Kept(cat, places)) /\ \E at : Drawn(Kept(cat, places), cat, at)
  BY <1>1, KeptIsDrawn
<1> QED BY <1>2 DEF FilterQuestions, places

\* The stages of a path ask for numbers of questions.
Sized(path) == \A s \in DOMAIN path : path[s].size \in Nat

\* Two, three or four stages with sizes are a path with sizes.
LEMMA StagesSized ==
  ASSUME NEW m1, NEW m2, NEW m3, NEW m4, NEW a \in Nat, NEW b \in Nat, NEW c \in Nat, NEW d \in Nat
  PROVE  /\ Sized(<<Stage(m1, a), Stage(m2, b)>>)
         /\ Sized(<<Stage(m1, a), Stage(m2, b), Stage(m3, c)>>)
         /\ Sized(<<Stage(m1, a), Stage(m2, b), Stage(m3, c), Stage(m4, d)>>)
<1>1. /\ Stage(m1, a).size \in Nat /\ Stage(m2, b).size \in Nat
      /\ Stage(m3, c).size \in Nat /\ Stage(m4, d).size \in Nat
  BY DEF Stage
<1> QED BY <1>1 DEF Sized

\* Each stage of a learning path has a size.
LEMMA PathSizes ==
  ASSUME NEW id \in DOMAIN LearningPaths, NEW s \in DOMAIN LearningPaths[id]
  PROVE  LearningPaths[id][s].size \in Nat
<1>1. Sized(SqlFoundations)
  BY StagesSized DEF SqlFoundations
<1>2. Sized(SqlAdvanced) /\ Sized(PysparkFoundations) /\ Sized(PysparkAdvanced)
  BY StagesSized DEF SqlAdvanced, PysparkFoundations, PysparkAdvanced
<1>3. Sized(DataEngineeringCore)
  BY StagesSized DEF DataEngineeringCore
<1>4. Sized(InterviewPreparation)
  BY StagesSized DEF InterviewPreparation
<1>5. Sized(LearningPaths[id])
  BY <1>1, <1>2, <1>3, <1>4 DEF LearningPaths
<1> QED BY <1>5 DEF Sized

\* Each preset has a size.
LEMMA PresetSizes ==
  /\ \A p \in PracticePresets : p.size \in Nat
  /\ \A id \in DOMAIN InterviewPresets : InterviewPresets[id].size \in Nat
<1>1. \A p \in PracticePresets : p.size \in Nat
  BY DEF PracticePresets, Preset
<1>2. \A id \in DOMAIN InterviewPresets : InterviewPresets[id].size \in Nat
  BY DEF InterviewPresets, InterviewPreset
<1> QED BY <1>1, <1>2

\* The pool of the interview form is drawn from the catalogue.
LEMMA InterviewIsDrawn ==
  ASSUME NEW cat, Listing(cat), NEW answers
  PROVE  LET pool == InterviewPool(cat, answers)
         IN Listing(pool) /\ \E at : Drawn(pool, cat, at)
<1> DEFINE f == [DefaultFilters EXCEPT !.type = answers.type, !.difficulty = answers.difficulty,
                                       !.category = answers.category]
           filtered == FilterQuestions(cat, f, {}, {})
           allowed == InterviewPresets[answers.preset].difficulties
           places == {i \in DOMAIN filtered : Within(filtered[i].difficulty, allowed)}
           pool == Kept(filtered, places)
<1>1. InterviewPool(cat, answers) = IF answers.preset = "custom" THEN filtered ELSE pool
  BY DEF InterviewPool
<1>2. Listing(filtered) /\ \E at : Drawn(filtered, cat, at)
  BY FilterIsDrawn
<1> HIDE DEF filtered
<1>3. places \in SUBSET DOMAIN filtered
  OBVIOUS
<1> HIDE DEF places
<1>4. Listing(pool) /\ \E at : Drawn(pool, filtered, at)
  BY <1>2, <1>3, KeptIsDrawn
<1> HIDE DEF pool
<1>5. \E at : Drawn(pool, cat, at)
  <2>1. PICK at : Drawn(filtered, cat, at)
    BY <1>2
  <2>2. PICK bt : Drawn(pool, filtered, bt)
    BY <1>4
  <2>3. Len(pool) \in Nat /\ Len(filtered) \in Nat /\ Len(cat) \in Nat
    BY <1>2, <1>4 DEF Listing
  <2>4. Drawn(pool, cat, [i \in 1..Len(pool) |-> at[bt[i]]])
    BY <2>1, <2>2, <2>3, DrawnTwice
  <2> QED BY <2>4
<1> QED BY <1>1, <1>2, <1>4, <1>5

\* The form of the interview page asks for a number of questions.
FormFits ==
  route = "interview" =>
    /\ DOMAIN form = {"preset", "count", "type", "difficulty", "category"}
    /\ form = [x \in DOMAIN form |-> form[x]]
    /\ form.count \in Nat

\* The form of the interview page keeps its types.
LEMMA FormStep ==
  ASSUME ListInv, FormFits, [ListNext]_learnerVars
  PROVE  FormFits'
<1>0. StepOf
  BY StepKinds
<1>1. ASSUME NEW id \in DOMAIN InterviewPresets, form' = ApplyPreset(id) PROVE FormFits'
  BY <1>1, PresetSizes DEF FormFits, ApplyPreset
<1>2. CASE FillForm
  <2>1. route = "interview" /\ route' = route
    BY <1>2 DEF FillForm
  <2>2. /\ DOMAIN form = {"preset", "count", "type", "difficulty", "category"}
        /\ form = [x \in DOMAIN form |-> form[x]] /\ form.count \in Nat
    BY <2>1 DEF FormFits
  <2>3. ASSUME NEW n \in Nat, form' = Customised("count", n) PROVE FormFits'
    BY <2>2, <2>3 DEF FormFits, Customised
  <2>4. ASSUME NEW key \in {"type", "difficulty", "category"}, NEW value, form' = Customised(key, value)
        PROVE  FormFits'
    BY <2>2, <2>4 DEF FormFits, Customised
  <2>5. InterviewSizes \subseteq Nat
    BY DEF InterviewSizes
  <2> QED BY <1>1, <1>2, <2>3, <2>4, <2>5 DEF FillForm
<1>3. CASE \E v \in {"learn", "interview"} : Visit(v)
  <2>1. CASE Visit("learn")
    BY <2>1 DEF Visit, FormFits
  <2>2. CASE Visit("interview")
    <3>1. form' = ApplyPreset("sql-interview")
      BY <2>2 DEF Visit
    <3>2. "sql-interview" \in DOMAIN InterviewPresets
      BY DEF InterviewPresets
    <3> QED BY <1>1, <3>1, <3>2
  <2> QED BY <1>3, <2>1, <2>2
<1>4. CASE VisitedList \/ Started
  <2>1. route' # "interview"
    BY <1>4 DEF VisitedList, Opened, Started, Start
  <2> QED BY <2>1 DEF FormFits
<1>5. CASE ~ (FillForm \/ (\E v \in {"learn", "interview"} : Visit(v)) \/ VisitedList \/ Started)
  <2>1. route' = route /\ form' = form
    <3>1. CASE Submitted
      BY <3>1 DEF Submitted, Judge
    <3>2. CASE EditStored
      BY <3>2 DEF EditStored
    <3>3. CASE Hear
      BY <3>3 DEF Hear
    <3>4. CASE ToggleBookmark
      BY <3>4 DEF ToggleBookmark
    <3>5. CASE \E f \in Filters : Choose(f)
      BY <3>5 DEF Choose
    <3>6. CASE Commit
      BY <3>6 DEF Commit
    <3>7. CASE Navigate
      BY <3>7 DEF Navigate
    <3>8. CASE \E p \in Nat \ {0} : GoTo(p)
      BY <3>8 DEF GoTo
    <3>9. CASE UNCHANGED learnerVars
      BY <3>9 DEF learnerVars
    <3> QED BY <1>0, <1>5, <3>1, <3>2, <3>3, <3>4, <3>5, <3>6, <3>7, <3>8, <3>9 DEF StepOf
  <2> QED BY <2>1 DEF FormFits
<1> QED BY <1>2, <1>3, <1>4, <1>5

\* The sizes that the setup dialog offers are numbers.
LEMMA SizesAreNumbers ==
  ASSUME NEW n \in Nat
  PROVE  SetupSizes(n) \subseteq Nat
BY DEF SetupSizes

\* Each button starts a session of questions drawn from the catalogue.
LEMMA OfferStep ==
  ASSUME ListInv, FormFits, StartedAsOffered, [ListNext]_learnerVars
  PROVE  StartedAsOffered'
<1>0. Listing(Catalog) /\ Listing(Filtered)
  BY FilteredFacts DEF ListInv, StorageFits, Store
<1> DEFINE cat == Catalog
<1>1. ASSUME NEW what, NEW pool, NEW size \in Nat, NEW modes, Start(what, pool, size, modes),
             Listing(pool), \E at : Drawn(pool, cat, at),
             what = "weak" => \A i \in DOMAIN pool : pool[i].id \notin seen.solved
      PROVE  StartedAsOffered'
  BY <1>1, StartFits
<1>2. CASE StartFiltered
  <2>1. PICK n \in SetupSizes(Len(Filtered)) : Start("list", Filtered, n, Both)
    BY <1>2 DEF StartFiltered
  <2>2. n \in Nat
    BY <1>0, SizesAreNumbers DEF Listing
  <2>3. \E at : Drawn(Filtered, cat, at)
    BY <1>0, FilterIsDrawn DEF Filtered
  <2>4. "list" # "weak"
    OBVIOUS
  <2> HIDE DEF cat
  <2> QED BY <1>0, <1>1, <2>1, <2>2, <2>3, <2>4
<1>3. CASE StartBookmarked
  <2> DEFINE pool == Bookmarked
             places == {i \in DOMAIN cat : cat[i].id \in seen.bookmarks}
  <2>1. PICK n \in SetupSizes(Len(pool)) : Start("bookmarked", pool, n, Both)
    BY <1>3 DEF StartBookmarked
  <2>2. pool = Kept(cat, places) /\ places \in SUBSET DOMAIN cat
    BY DEF Bookmarked
  <2> HIDE DEF pool, places, cat
  <2>3. Listing(pool) /\ \E at : Drawn(pool, cat, at)
    BY <1>0, <2>2, KeptIsDrawn DEF cat
  <2>4. n \in Nat /\ "bookmarked" # "weak"
    BY <2>3, SizesAreNumbers DEF Listing
  <2> QED BY <1>1, <2>1, <2>3, <2>4
<1>4. CASE StartPreset
  <2>1. PICK p \in PracticePresets : Start("preset", ResolvePresetQuestions(cat, p), p.size, {p.mode})
    BY <1>4 DEF StartPreset
  <2> DEFINE pool == ResolvePresetQuestions(cat, p)
  <2>2. Listing(pool) /\ \E at : Drawn(pool, cat, at)
    BY <1>0, FilterIsDrawn DEF ResolvePresetQuestions
  <2>3. p.size \in Nat /\ "preset" # "weak"
    BY PresetSizes
  <2> HIDE DEF pool, cat
  <2>4. Start("preset", pool, p.size, {p.mode})
    BY <2>1 DEF pool
  <2> QED BY <1>1, <2>2, <2>3, <2>4
<1>5. CASE StartWeakArea
  <2>1. PICK areas, i : LET pool == WeakAreaPool(cat, seen.solved, areas[i])
                        IN Start("weak", pool, MinOf(WEAK_PRACTICE_SIZE, Len(pool)), {"sequential"})
    BY <1>5 DEF StartWeakArea
  <2> DEFINE pool == WeakAreaPool(cat, seen.solved, areas[i])
             places == {k \in DOMAIN cat : /\ cat[k].category = areas[i].category
                                           /\ cat[k].id \notin seen.solved}
             size == MinOf(WEAK_PRACTICE_SIZE, Len(pool))
  <2>2. Start("weak", pool, size, {"sequential"})
    BY <2>1
  <2>3. pool = Kept(cat, places)
    BY DEF WeakAreaPool
  <2>4. places \in SUBSET DOMAIN cat /\ \A k \in places : cat[k].id \notin seen.solved
    OBVIOUS
  <2> HIDE DEF pool, places, cat
  <2>5. /\ Listing(pool) /\ \E at : Drawn(pool, cat, at)
        /\ \A k \in DOMAIN pool : \E p \in places : pool[k] = cat[p]
    BY <1>0, <2>3, <2>4, KeptIsDrawn DEF cat
  <2>6. \A k \in DOMAIN pool : pool[k].id \notin seen.solved
    BY <2>4, <2>5
  <2>7. size \in Nat
    BY <2>5 DEF MinOf, WEAK_PRACTICE_SIZE, Listing
  <2> HIDE DEF size
  <2> QED BY <1>1, <2>2, <2>5, <2>6, <2>7
<1>6. CASE StartStage
  <2>1. PICK id \in DOMAIN LearningPaths : \E s \in DOMAIN LearningPaths[id] :
          LET stage == LearningPaths[id][s]
          IN Start("stage", Pool(cat, stage.match), stage.size, {"sequential"})
    BY <1>6 DEF StartStage
  <2>2. PICK s \in DOMAIN LearningPaths[id] :
          LET stage == LearningPaths[id][s]
          IN Start("stage", Pool(cat, stage.match), stage.size, {"sequential"})
    BY <2>1
  <2> DEFINE stage == LearningPaths[id][s]
             pool == Pool(cat, stage.match)
             places == {i \in DOMAIN cat : Matches(cat[i], stage.match)}
  <2>3. stage.size \in Nat /\ "stage" # "weak"
    BY PathSizes
  <2>4. Start("stage", pool, stage.size, {"sequential"})
    BY <2>2
  <2>5. pool = Kept(cat, places) /\ places \in SUBSET DOMAIN cat
    BY DEF Pool
  <2> HIDE DEF pool, places, cat, stage
  <2>6. Listing(pool) /\ \E at : Drawn(pool, cat, at)
    BY <1>0, <2>5, KeptIsDrawn DEF cat
  <2> QED BY <1>1, <2>3, <2>4, <2>6
<1>7. CASE StartTopic
  <2>1. PICK name : \E n \in SetupSizes(Len(TopicPool(cat, name))) :
                      Start("topic", TopicPool(cat, name), n, Both)
    BY <1>7 DEF StartTopic
  <2> DEFINE pool == TopicPool(cat, name)
             places == {i \in DOMAIN cat : cat[i].category = name}
  <2>2. PICK n \in SetupSizes(Len(pool)) : Start("topic", pool, n, Both)
    BY <2>1
  <2>3. pool = Kept(cat, places) /\ places \in SUBSET DOMAIN cat
    BY DEF TopicPool
  <2> HIDE DEF pool, places, cat
  <2>4. Listing(pool) /\ \E at : Drawn(pool, cat, at)
    BY <1>0, <2>3, KeptIsDrawn DEF cat
  <2>5. n \in Nat /\ "topic" # "weak"
    BY <2>4, SizesAreNumbers DEF Listing
  <2> QED BY <1>1, <2>2, <2>4, <2>5
<1>8. CASE StartInterview
  <2> DEFINE pool == InterviewPool(cat, form)
             size == MinOf(form.count, Len(pool))
  <2>1. route = "interview" /\ Start("interview", pool, size, Both)
    BY <1>8 DEF StartInterview
  <2>2. Listing(pool) /\ \E at : Drawn(pool, cat, at)
    BY <1>0, InterviewIsDrawn
  <2>3. size \in Nat /\ "interview" # "weak"
    <3>1. form.count \in Nat
      BY <2>1 DEF FormFits
    <3> HIDE DEF pool
    <3> QED BY <2>2, <3>1 DEF MinOf, Listing
  <2> HIDE DEF pool, cat, size
  <2> QED BY <1>1, <2>1, <2>2, <2>3
<1>9. CASE ~ (StartFiltered \/ StartBookmarked \/ StartPreset \/ StartWeakArea \/ StartStage
              \/ StartTopic \/ StartInterview)
  <2>1. session' = None \/ UNCHANGED <<session, seen>>
    <3>1. CASE SubmitAny
      BY <3>1 DEF SubmitAny, Judge
    <3>2. CASE Submit
      BY <3>2 DEF Submit, Judge
    <3>3. CASE EditStored \/ Hear
      BY <3>3 DEF EditStored, Hear
    <3>4. CASE SetFilter \/ ToggleBookmarkedOnly \/ ClearFilters
      BY <3>4 DEF SetFilter, ToggleBookmarkedOnly, ClearFilters, Choose, OnList
    <3>5. CASE Commit \/ Navigate
      BY <3>5 DEF Commit, Navigate, OnList
    <3>6. CASE NextPage \/ PreviousPage
      BY <3>6 DEF NextPage, PreviousPage, GoTo, OnList
    <3>7. CASE ToggleBookmark
      BY <3>7 DEF ToggleBookmark, OnList
    <3>8. CASE VisitLearn \/ VisitInterview
      BY <3>8 DEF VisitLearn, VisitInterview, Visit
    <3>9. CASE VisitList
      BY <3>9 DEF VisitList, Opened
    <3>10. CASE FillForm
      BY <3>10 DEF FillForm
    <3>11. CASE UNCHANGED learnerVars
      BY <3>11 DEF learnerVars
    <3> QED BY <1>9, <3>1, <3>2, <3>3, <3>4, <3>5, <3>6, <3>7, <3>8, <3>9, <3>10, <3>11 DEF ListNext
  <2>2. CASE session' = None
    BY <2>2 DEF StartedAsOffered
  <2>3. CASE UNCHANGED <<session, seen>>
    <3>1. Catalog' = Catalog
      BY <2>3 DEF Catalog
    <3>2. session' = session /\ seen' = seen
      BY <2>3
    <3>3. session # None => AsOffered(IdsOf(Catalog), session, seen.solved)
      BY OfferedMeans
    <3> QED BY <3>1, <3>2, <3>3, OfferedMeansNext
  <2> QED BY <2>1, <2>2, <2>3
<1> QED BY <1>2, <1>3, <1>4, <1>5, <1>6, <1>7, <1>8, <1>9

\* A session has as many questions as its button offered, none twice, all of
\* them enabled, in the catalogue's order unless it is shuffled.
THEOREM SessionsAreAsOffered == ListSpec => []StartedAsOffered
<1>1. ListInit => FormFits /\ StartedAsOffered
  BY DEF ListInit, FormFits, StartedAsOffered
<1>2. ListInv /\ FormFits /\ StartedAsOffered /\ [ListNext]_learnerVars => FormFits' /\ StartedAsOffered'
  BY FormStep, OfferStep
<1> QED BY <1>1, <1>2, ListInvariant, PTL DEF ListSpec
===============================================================================
