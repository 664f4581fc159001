----------------------------- MODULE LearnerViews -----------------------------
(***************************************************************************)
(* What the learner's pages compute from the catalogue, the solved and       *)
(* bookmarked questions and the attempts: filters and the address that        *)
(* carries them, the order of sessions, learning paths, topics, weak areas,   *)
(* interviews, landing pages and the dashboard (src/lib/learning.ts,          *)
(* questionFilter.ts, landingPages.ts, dashboard.ts and their pages).         *)
(* A catalogue is a sequence of what QuestionBank calls `about` records.      *)
(***************************************************************************)
EXTENDS QuestionBank
Seqs == INSTANCE SequencesExt

CONSTANTS
  Trimmed,   \* what trim() leaves of each text that can be typed
  Finds      \* the ids of the questions that each trimmed text occurs in

\* What is trimmed stays as it is, the empty text too.
ASSUME TrimAssumption ==
  /\ "" \in DOMAIN Trimmed /\ Trimmed[""] = ""
  /\ \A t \in DOMAIN Trimmed :
       Trimmed[t] \in DOMAIN Trimmed /\ Trimmed[Trimmed[t]] = Trimmed[t]

Difficulties == <<"Easy", "Medium", "Hard">>
MinOf(a, b) == IF a < b THEN a ELSE b
Percent(part, whole) == IF whole = 0 THEN 0 ELSE (200 * part + whole) \div (2 * whole)   \* Math.round
IdsOf(pool) == [i \in DOMAIN pool |-> pool[i].id]
Among(pool, ids) == Cardinality({i \in DOMAIN pool : pool[i].id \in ids})
Categories(pool) == {pool[i].category : i \in DOMAIN pool}

Sorted(set, Precedes(_, _)) == SortSeq(Sets!FoldSet(LAMBDA a, s : Append(s, a), <<>>, set), Precedes)

\* The questions at some places of a list, in their order.
Kept(pool, places) ==
  LET kept[n \in 0..Len(pool)] ==
        IF n = 0 THEN <<>>
        ELSE IF n \in places THEN Append(kept[n - 1], pool[n]) ELSE kept[n - 1]
  IN kept[Len(pool)]

\* The first question of each id.
Distinct(pool) ==
  Kept(pool, {i \in DOMAIN pool : \A j \in 1..(i - 1) : pool[j].id # pool[i].id})

CombineQuestionCatalogs(stored) ==
  LET firsts == Distinct(stored)
  IN BuiltIn \o Kept(firsts, {i \in DOMAIN firsts : firsts[i].id \notin BuiltInIds})
ActiveCatalog(stored) ==
  LET all == CombineQuestionCatalogs(stored)
  IN Kept(all, {i \in DOMAIN all : all[i].enabled})
-------------------------------------------------------------------------------
DefaultFilters ==
  [text |-> "", difficulty |-> "All", type |-> "All", language |-> "All", company |-> "All",
   status |-> "All", category |-> "All", bookmarkedOnly |-> FALSE]

\* An address is its parameters.
ToParams(f) ==
  {p \in {<<"difficulty", f.difficulty>>, <<"type", f.type>>, <<"language", f.language>>,
          <<"company", f.company>>, <<"status", f.status>>, <<"category", f.category>>} : p[2] # "All"}
  \cup {<<"q", t>> : t \in {Trimmed[f.text]} \ {""}}
  \cup (IF f.bookmarkedOnly THEN {<<"bookmarked", "1">>} ELSE {})

HasParams(params) == params # {}

Value(params, key, default) ==
  IF \E p \in params : p[1] = key THEN (CHOOSE p \in params : p[1] = key)[2] ELSE default
Parse(params) ==
  [text |-> Value(params, "q", ""), difficulty |-> Value(params, "difficulty", "All"),
   type |-> Value(params, "type", "All"), language |-> Value(params, "language", "All"),
   company |-> Value(params, "company", "All"), status |-> Value(params, "status", "All"),
   category |-> Value(params, "category", "All"),
   bookmarkedOnly |-> Value(params, "bookmarked", "0") = "1"]

Admits(choice, value) == choice \in {"All", value}
PassesFilters(q, f, solved, bookmarks) ==
  /\ f.bookmarkedOnly => q.id \in bookmarks
  /\ Trimmed[f.text] # "" => q.id \in Finds[Trimmed[f.text]]
  /\ Admits(f.difficulty, q.difficulty)
  /\ Admits(f.type, q.type)
  /\ f.language \in q.languages \cup {"All"}
  /\ f.company \in q.companies \cup {"All"}
  /\ Admits(f.status, IF q.id \in solved THEN "Solved" ELSE "Unsolved")
  /\ Admits(f.category, q.category)
FilterQuestions(catalog, f, solved, bookmarks) ==
  Kept(catalog, {i \in DOMAIN catalog : PassesFilters(catalog[i], f, solved, bookmarks)})

\* Previous and next on a question's page, opened with the address of a list.
NavQuestions(active, search, solved, bookmarks) ==
  IF HasParams(search) THEN FilterQuestions(active, Parse(search), solved, bookmarks) ELSE active
Neighbours(nav, id) ==
  LET at == CHOOSE i \in (DOMAIN nav) \cup {0} :
              IF i = 0 THEN \A j \in DOMAIN nav : nav[j].id # id ELSE nav[i].id = id
  IN [previous |-> IF at > 1 THEN nav[at - 1].id ELSE "",
      next |-> IF at >= 1 /\ at < Len(nav) THEN nav[at + 1].id ELSE ""]

\* What a session may ask, of a pool of ids: its first ones, or any of them in
\* any order.
Selections(ids, size, mode) ==
  LET count == MinOf(size, Len(ids))
  IN IF mode = "sequential" THEN {SubSeq(ids, 1, count)}
     ELSE {SubSeq([i \in DOMAIN ids |-> ids[p[i]]], 1, count) : p \in Arrangements(DOMAIN ids)}
-------------------------------------------------------------------------------
\* An empty set of a stage or of a landing page excludes nothing.
Of(types, categories, difficulties) ==
  [types |-> types, categories |-> categories, difficulties |-> difficulties]
Within(value, allowed) == allowed = {} \/ value \in allowed
Matches(q, match) ==
  /\ Within(q.type, match.types)
  /\ Within(q.category, match.categories)
  /\ Within(q.difficulty, match.difficulties)
Pool(catalog, match) == Kept(catalog, {i \in DOMAIN catalog : Matches(catalog[i], match)})
Stage(match, size) == [match |-> match, size |-> size]

SqlFoundations ==
  <<Stage(Of({"SQL"}, {"Filtering", "Aggregation", "Conditional Aggregation"}, {}), 5),
    Stage(Of({"SQL"}, {"Joins", "Self Join", "Subqueries", "CTEs"}, {}), 5),
    Stage(Of({"SQL"}, {"Window Functions", "Ranking", "Top-N"}, {}), 5),
    Stage(Of({"SQL"}, {"Data Quality", "Duplicates", "NULL Handling", "Date Filtering",
                       "Date Operations", "Conditional Logic", "Data Cleaning"}, {}), 5)>>
SqlAdvanced ==
  <<Stage(Of({"SQL"}, {}, {"Medium"}), 8), Stage(Of({"SQL"}, {}, {"Hard"}), 5)>>
PysparkFoundations ==
  <<Stage(Of({"PySpark"}, {}, {"Easy"}), 3),
    Stage(Of({"PySpark"}, {"Aggregation", "Data Cleaning", "Data Quality"}, {}), 5),
    Stage(Of({"PySpark"}, {"Window Functions", "Joins", "Conditional Logic"}, {}), 5)>>
PysparkAdvanced ==
  <<Stage(Of({"PySpark"}, {}, {"Medium"}), 4), Stage(Of({"PySpark"}, {}, {"Hard"}), 4)>>
DataEngineeringCore ==
  <<Stage(Of({}, {"Data Engineering", "Data Quality", "Data Cleaning", "Duplicates"}, {}), 5),
    Stage(Of({}, {"Aggregation", "Conditional Aggregation", "Joins", "Conditional Logic"}, {}), 8),
    Stage(Of({}, {"Window Functions", "CTEs", "Subqueries", "Ranking"}, {}), 8)>>
InterviewPreparation ==
  <<Stage(Of({"SQL"}, {}, {"Medium", "Hard"}), 5), Stage(Of({"PySpark"}, {}, {"Medium", "Hard"}), 5),
    Stage(Of({}, {}, {"Medium", "Hard"}), 10)>>
LearningPaths ==
  [id \in {"sql-foundations", "sql-advanced", "pyspark-foundations", "pyspark-advanced",
            "data-engineering-core", "interview-prep"} |->
     CASE id = "sql-foundations" -> SqlFoundations
       [] id = "sql-advanced" -> SqlAdvanced
       [] id = "pyspark-foundations" -> PysparkFoundations
       [] id = "pyspark-advanced" -> PysparkAdvanced
       [] id = "data-engineering-core" -> DataEngineeringCore
       [] id = "interview-prep" -> InterviewPreparation]

GetPathPool(catalog, path) ==
  Distinct(Seqs!FlattenSeq([s \in DOMAIN path |-> Pool(catalog, path[s].match)]))
GetPathProgress(pool, solved) ==
  [completed |-> Among(pool, solved), total |-> Len(pool),
   rate |-> Percent(Among(pool, solved), Len(pool))]

\* The stage that the path page offers: the first that is not complete, else
\* the first that has questions; 0 when there is none.
NextStage(catalog, path, solved) ==
  LET pool == [s \in DOMAIN path |-> Pool(catalog, path[s].match)]
      some == {s \in DOMAIN path : pool[s] # <<>>}
      open == {s \in some : Among(pool[s], solved) < Len(pool[s])}
      First(stages) == CHOOSE s \in stages : \A t \in stages : s <= t
  IN IF open # {} THEN First(open) ELSE IF some # {} THEN First(some) ELSE 0
-------------------------------------------------------------------------------
\* The order of localeCompare on the names of the categories.
Alphabet ==
  <<"Aggregation", "Conditional Aggregation", "Conditional Logic", "CTEs", "Data Cleaning",
    "Data Engineering", "Data Quality", "Date Filtering", "Date Operations", "Duplicates",
    "Filtering", "Joins", "NULL Handling", "Ranking", "Self Join", "Subqueries", "Top-N",
    "Window Functions">>
Rank(name) == CHOOSE i \in DOMAIN Alphabet : Alphabet[i] = name

GetTopics(catalog, solved) ==
  LET Profile(name) ==
        LET pool == SelectSeq(catalog, LAMBDA q : q.category = name)
        IN [name |-> name, total |-> Len(pool), completed |-> Among(pool, solved),
            rate |-> Percent(Among(pool, solved), Len(pool)),
            byDifficulty |-> [d \in {"Easy", "Medium", "Hard"} |->
                                Len(SelectSeq(pool, LAMBDA q : q.difficulty = d))]]
      Precedes(a, b) == \/ a.total > b.total
                        \/ a.total = b.total /\ Rank(a.name) < Rank(b.name)
  IN Sorted({Profile(name) : name \in Categories(catalog)}, Precedes)

\* The pool of a topic's page: the categories' slugs differ.
TopicPool(catalog, name) == Kept(catalog, {i \in DOMAIN catalog : catalog[i].category = name})

MIN_WEAK_ATTEMPTED_QUESTIONS == 2
MAX_WEAK_AREAS == 6
WEAK_PRACTICE_SIZE == 10
GetWeakAreas(catalog, solved, attempts) ==
  LET Area(name) ==
        LET pool == TopicPool(catalog, name)
            tried == {q \in {pool[i].id : i \in DOMAIN pool} : q \in solved \/ attempts[q] > 0}
        IN [category |-> name, attempted |-> Cardinality(tried), completed |-> Among(pool, solved),
            remaining |-> IdsOf(SelectSeq(pool, LAMBDA q : q.id \notin solved)),
            rate |-> Percent(Among(pool, solved), Cardinality(tried))]
      weak == {a \in {Area(name) : name \in Categories(catalog)} :
                 /\ a.attempted >= MIN_WEAK_ATTEMPTED_QUESTIONS
                 /\ a.completed < a.attempted}
      Precedes(a, b) ==
        \/ a.rate < b.rate
        \/ a.rate = b.rate /\ Len(a.remaining) > Len(b.remaining)
        \/ /\ a.rate = b.rate /\ Len(a.remaining) = Len(b.remaining)
           /\ Rank(a.category) < Rank(b.category)
      sorted == Sorted(weak, Precedes)
  IN SubSeq(sorted, 1, MinOf(MAX_WEAK_AREAS, Len(sorted)))

\* The pool that the button of a weak area starts.
WeakAreaPoolOfAll(catalog, solved, area) == TopicPool(catalog, area.category)   \* mutant: solved ones as well
WeakAreaPool(catalog, solved, area) ==
  Kept(catalog, {i \in DOMAIN catalog : /\ catalog[i].category = area.category
                                         /\ catalog[i].id \notin solved})
-------------------------------------------------------------------------------
Preset(size, mode, type, difficulty) ==
  [size |-> size, mode |-> mode, type |-> type, difficulty |-> difficulty]
PracticePresets ==
  {Preset(5, "sequential", "All", "All"), Preset(10, "sequential", "All", "All"),
   Preset(20, "sequential", "All", "All"), Preset(10, "sequential", "SQL", "All"),
   Preset(10, "sequential", "PySpark", "All"), Preset(10, "random", "All", "All"),
   Preset(5, "sequential", "All", "Medium")}
ResolvePresetQuestions(catalog, preset) ==
  FilterQuestions(catalog, [DefaultFilters EXCEPT !.type = preset.type, !.difficulty = preset.difficulty],
                  {}, {})

\* The sizes of the setup dialog: 5, 10 and 20 where there are more questions,
\* and all of them.
SetupSizes(available) == {n \in {5, 10, 20} : n < available} \cup {available}

InterviewSizes == {5, 10, 15, 20}
InterviewPreset(size, type, difficulties) ==
  [size |-> size, type |-> type, difficulties |-> difficulties]
InterviewPresets ==
  [id \in {"sql-interview", "pyspark-interview", "data-engineer-interview",
            "mixed-technical-interview"} |->
     CASE id = "sql-interview" -> InterviewPreset(10, "SQL", {})
       [] id = "pyspark-interview" -> InterviewPreset(10, "PySpark", {})
       [] id = "data-engineer-interview" -> InterviewPreset(15, "All", {"Medium", "Hard"})
       [] id = "mixed-technical-interview" -> InterviewPreset(10, "All", {})]

\* The form of the interview page, after a preset has been chosen.
ApplyPreset(id) ==
  [preset |-> id, count |-> InterviewPresets[id].size, type |-> InterviewPresets[id].type,
   difficulty |-> "All", category |-> "All"]
InterviewPool(catalog, form) ==
  LET filtered == FilterQuestions(catalog, [DefaultFilters EXCEPT !.type = form.type,
                                              !.difficulty = form.difficulty,
                                              !.category = form.category], {}, {})
  IN IF form.preset = "custom" THEN filtered
     ELSE LET allowed == InterviewPresets[form.preset].difficulties
          IN Kept(filtered, {i \in DOMAIN filtered : Within(filtered[i].difficulty, allowed)})
-------------------------------------------------------------------------------
Landing(match, paths, siblings) == [match |-> match, paths |-> paths, siblings |-> siblings]
SqlPractice ==
  Landing(Of({"SQL"}, {}, {}), {"sql-foundations", "sql-advanced", "interview-prep"},
          {"sql-interview-prep", "data-analyst-sql", "data-engineering-practice"})
PysparkPractice ==
  Landing(Of({"PySpark"}, {}, {}), {"pyspark-foundations", "pyspark-advanced", "interview-prep"},
          {"pyspark-interview-prep", "big-data-practice", "sql-practice"})
DataEngineeringPractice ==
  Landing(Of({}, {}, {}), {"data-engineering-core", "sql-foundations", "pyspark-foundations"},
          {"sql-practice", "pyspark-practice", "big-data-practice"})
SqlInterviewPrep ==
  Landing(Of({"SQL"}, {}, {"Medium", "Hard"}), {"sql-advanced", "interview-prep"},
          {"sql-practice", "pyspark-interview-prep", "data-engineering-practice"})
PysparkInterviewPrep ==
  Landing(Of({"PySpark"}, {}, {"Medium", "Hard"}), {"pyspark-advanced", "interview-prep"},
          {"pyspark-practice", "sql-interview-prep", "big-data-practice"})
DataAnalystSql ==
  Landing(Of({"SQL"}, {"Filtering", "Aggregation", "Conditional Aggregation", "Window Functions",
                       "Ranking", "Top-N", "NULL Handling", "Date Filtering", "Date Operations",
                       "Conditional Logic"}, {}),
          {"sql-foundations", "sql-advanced"},
          {"sql-practice", "sql-interview-prep", "data-engineering-practice"})
BigDataPractice ==
  Landing(Of({}, {"Aggregation", "Window Functions", "Joins", "CTEs", "Subqueries", "Ranking",
                  "Data Cleaning", "Data Quality", "Data Engineering", "Conditional Aggregation"}, {}),
          {"data-engineering-core", "pyspark-foundations"},
          {"pyspark-practice", "data-engineering-practice", "pyspark-interview-prep"})
LandingPages ==
  ("sql-practice" :> SqlPractice) @@ ("pyspark-practice" :> PysparkPractice)
  @@ ("data-engineering-practice" :> DataEngineeringPractice)
  @@ ("sql-interview-prep" :> SqlInterviewPrep) @@ ("pyspark-interview-prep" :> PysparkInterviewPrep)
  @@ ("data-analyst-sql" :> DataAnalystSql) @@ ("big-data-practice" :> BigDataPractice)

\* Six questions at most, the easy ones first.
SampleQuestions(pool) ==
  LET ranked == Seqs!FlattenSeq([d \in 1..3 |-> SelectSeq(pool, LAMBDA q : q.difficulty = Difficulties[d])])
  IN SubSeq(ranked, 1, MinOf(6, Len(ranked)))
-------------------------------------------------------------------------------
\* The Progress page counts every stored question, the disabled ones and those
\* with the id of a built-in question as well.
ProgressCatalog(stored) == BuiltIn \o stored

\* attempts holds, for each id, the number of attempts and of correct ones.
ComputeDashboardStats(catalog, solved, bookmarks, attempts) ==
  LET Breakdown(pool) == [total |-> Len(pool), solved |-> Among(pool, solved)]
      ids == DOMAIN attempts
  IN [total |-> Len(catalog), solved |-> Among(catalog, solved),
      unsolved |-> Len(catalog) - Among(catalog, solved),
      byDifficulty |-> [d \in {"Easy", "Medium", "Hard"} |->
                          Breakdown(SelectSeq(catalog, LAMBDA q : q.difficulty = d))],
      byType |-> [t \in {"SQL", "PySpark"} |-> Breakdown(SelectSeq(catalog, LAMBDA q : q.type = t))],
      bookmarked |-> Cardinality(bookmarks),
      attempts |-> Sets!MapThenSumSet(LAMBDA id : attempts[id].all, ids),
      correct |-> Sets!MapThenSumSet(LAMBDA id : attempts[id].correct, ids)]
===============================================================================
