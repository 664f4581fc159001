------------------------------ MODULE QuestionList -----------------------------
(***************************************************************************)
(* The learner's pages over what the browser stores: the list of questions    *)
(* with its filters and its address (src/App.tsx), the learning and the       *)
(* interview page with the sessions they start, and another tab in which      *)
(* answers are judged and the stored questions change.                        *)
(***************************************************************************)
EXTENDS LearnerViews

CONSTANTS
  None,        \* no pending navigation, no form, no session, no submission
  Stored,      \* the lists of stored questions that an administrator may leave
  Practised,   \* the questions whose answers are submitted again and bookmarked
  Picks,       \* the values of one filter each that the learner picks
  Links,       \* the addresses of the list that links and the Back button hold
  Most, MaxSteps   \* bounds of a run: how many steps of each kind, and of all kinds

\* What the filters and the address can be, and what the constants are: a stored
\* list is a list, typed texts can be trimmed, and no address is None.
Keys == {"difficulty", "type", "language", "company", "status", "category"}
Offered(key) == {"All"} \cup {c[2] : c \in {d \in Picks \cup UNION Links : d[1] = key}}
Filters ==
  [text : DOMAIN Trimmed, difficulty : Offered("difficulty"), type : Offered("type"),
   language : Offered("language"), company : Offered("company"), status : Offered("status"),
   category : Offered("category"), bookmarkedOnly : BOOLEAN]
Addresses == Links \cup {ToParams(f) : f \in Filters}

ASSUME ListAssumption ==
  /\ \A list \in Stored : IsSequence(list)
  /\ Practised \subseteq JudgedIds
  /\ \A c \in Picks : c[1] \in Keys \/ (c[1] = "text" /\ c[2] \in DOMAIN Trimmed)
  /\ \A u \in Links : \A p \in u : p[1] = "q" => p[2] \in DOMAIN Trimmed
  /\ None \notin Addresses
  /\ Most \in [{"submit", "edit", "choice", "visit"} -> Nat]

VARIABLES
  storage,   \* localStorage: solved and bookmarked ids, attempts, stored questions
  seen,      \* what the page read from it last
  told,      \* an event of another tab is on its way to the page
  last,      \* the last submission: was the answer right, and the verdict
  route,     \* the page that is open: "list", "learn", "interview" or "practice"
  filters, url, target, suppress,   \* state, rendered address, pending address, suppressUrlSync
  page,      \* currentPage
  overtaken, \* a link has replaced a navigation that the page asked for
  form,      \* the form of the interview page
  session,   \* the session that a button has started: offered, size, mode and ids
  used       \* submissions, edits, choices and visits so far

learnerVars ==
  <<storage, seen, told, last, route, filters, url, target, suppress, page, overtaken, form, session, used>>
listVars == <<filters, url, target, suppress, page, overtaken>>

Fresh == used = [kind \in DOMAIN Most |-> 0]
Spend(kind) ==
  /\ used[kind] < Most[kind] /\ Sets!MapThenSumSet(LAMBDA k : used[k], DOMAIN used) < MaxSteps
  /\ used' = [used EXCEPT ![kind] = @ + 1]

PAGE_SIZE == 10
\* Bound of a run: the pages are explored with submissions to these questions.
Explored == DOMAIN storage.attempts \subseteq Practised
NoAttempts == [all |-> 0, correct |-> 0]
Catalog == ActiveCatalog(seen.stored)
Filtered == FilterQuestions(Catalog, filters, seen.solved, seen.bookmarks)
TotalPages(pool) == IF pool = <<>> THEN 1 ELSE (Len(pool) + PAGE_SIZE - 1) \div PAGE_SIZE
SafePageUnclamped(current, pool) == current   \* mutant: currentPage is used as it is
SafePage(current, pool) == MinOf(current, TotalPages(pool))
PageOf(current, pool) ==
  SubSeq(pool, (SafePage(current, pool) - 1) * PAGE_SIZE + 1,
         MinOf(SafePage(current, pool) * PAGE_SIZE, Len(pool)))

\* The effects of a commit, in their order: the address is brought to the
\* filters, then the filters are brought to a new address unless the page has
\* asked for it.
EffectsReordered(f, u, fresh, pending, flag) ==   \* mutant: the filters are brought to the address first
  LET asks == ToParams(f) # u
  IN /\ url' = u /\ overtaken' = FALSE
     /\ target' = IF asks THEN ToParams(f) ELSE pending
     /\ suppress' = IF fresh THEN asks ELSE flag \/ asks
     /\ filters' = IF fresh /\ ~flag THEN Parse(u) ELSE f
Effects(f, u, fresh, pending, flag) ==
  LET asks == ToParams(f) # u
      marked == flag \/ asks
  IN /\ url' = u /\ overtaken' = FALSE
     /\ target' = IF asks THEN ToParams(f) ELSE pending
     /\ suppress' = IF fresh THEN FALSE ELSE marked
     /\ filters' = IF fresh /\ ~marked THEN Parse(u) ELSE f

Opened(u) ==
  /\ route' = "list" /\ page' = 1 /\ seen' = storage /\ told' = FALSE
  /\ form' = None /\ session' = None
  /\ Effects(Parse(u), u, TRUE, None, FALSE)

ListInit ==
  /\ storage = [solved |-> {}, bookmarks |-> {}, attempts |-> << >>, stored |-> << >>]
  /\ seen = storage /\ told = FALSE /\ last = None
  /\ route = "list" /\ filters = DefaultFilters /\ url = {} /\ target = None
  /\ suppress = FALSE /\ page = 1 /\ overtaken = FALSE /\ form = None /\ session = None
  /\ Fresh
-------------------------------------------------------------------------------
\* Another tab.

AttemptsOf(attempts, id) == IF id \in DOMAIN attempts THEN attempts[id] ELSE NoAttempts
Judge(id, rows, right) ==
  LET q == Entry(id)
      correct == ValidateResult(rows, q.expected, q.ordered)
      old == AttemptsOf(storage.attempts, id)
  IN /\ Spend("submit") /\ session = None
     /\ last' = [right |-> right, verdict |-> correct]
     /\ storage' = [storage EXCEPT
          !.solved = IF correct THEN @ \cup {id} ELSE @,
          !.attempts = (id :> [all |-> old.all + 1,
                               correct |-> old.correct + (IF correct THEN 1 ELSE 0)]) @@ @]
     /\ told' = TRUE
     /\ UNCHANGED <<seen, route, form, session>> /\ UNCHANGED listVars

\* The first submission is any answer to any question; later ones are a right
\* and a wrong answer to the practised questions.
SubmitAny ==
  /\ Fresh
  /\ \E id \in JudgedIds :
       \/ \E rows \in RightAnswers(id) : Judge(id, rows, TRUE)
       \/ \E rows \in WrongAnswers(id) : Judge(id, rows, FALSE)
Submit ==
  /\ ~Fresh
  /\ Explored
  /\ \E id \in Practised :
       \/ Judge(id, Entry(id).expected, TRUE)
       \/ Judge(id, Tail(Entry(id).expected), FALSE)

EditStored ==
  /\ Spend("edit") /\ session = None /\ Explored
  /\ \E list \in Stored \ {storage.stored} : storage' = [storage EXCEPT !.stored = list]
  /\ told' = TRUE
  /\ UNCHANGED <<seen, last, route, form, session>> /\ UNCHANGED listVars

\* The storage event: every listener of the page reads its part again.
Heard == storage
Hear ==
  /\ told /\ session = None
  /\ seen' = Heard /\ told' = FALSE
  /\ UNCHANGED <<storage, last, route, form, session, used>> /\ UNCHANGED listVars
-------------------------------------------------------------------------------
\* The list.

OnList == route = "list" /\ session = None /\ Explored
OnLearn == route = "learn" /\ session = None

\* Filters change: the commit resets the page and runs the first effect.
Choose(f) ==
  /\ OnList /\ Spend("choice") /\ f # filters
  /\ page' = 1
  /\ Effects(f, url, FALSE, target, suppress)
  /\ UNCHANGED <<storage, seen, told, last, route, form, session>>
SetFilter == \E c \in Picks : Choose([filters EXCEPT ![c[1]] = c[2]])
ToggleBookmarkedOnly == Choose([filters EXCEPT !.bookmarkedOnly = ~@])
ClearFilters == Choose([DefaultFilters EXCEPT !.bookmarkedOnly = filters.bookmarkedOnly])

\* A navigation to the list, asked by the page or by a link, is rendered.
Commit ==
  /\ OnList /\ target # None
  /\ IF target = url THEN target' = None /\ UNCHANGED <<filters, url, suppress, page, overtaken>>
     ELSE /\ Effects(filters, target, TRUE, None, suppress)
          /\ page' = IF filters' = filters THEN page ELSE 1
  /\ UNCHANGED <<storage, seen, told, last, route, form, session, used>>

Navigate ==
  /\ OnList /\ Spend("choice")
  /\ target' \in Links /\ overtaken' = (overtaken \/ target # None)
  /\ UNCHANGED <<storage, seen, told, last, route, filters, url, suppress, page, form, session>>

GoTo(p) ==
  /\ OnList /\ page' = p
  /\ UNCHANGED <<storage, seen, told, last, route, filters, url, target, suppress, overtaken, form, session, used>>
NextPage ==
  \E pool \in {Filtered} :
    SafePage(page, pool) < TotalPages(pool) /\ GoTo(MinOf(page + 1, TotalPages(pool)))
PreviousPage == \E pool \in {Filtered} : SafePage(page, pool) > 1 /\ GoTo(page - 1)

ToggleBookmark ==
  /\ OnList /\ Spend("choice")
  /\ \E id \in Practised :
       LET stored == storage.bookmarks
           toggled == IF id \in stored THEN stored \ {id} ELSE stored \cup {id}
       IN /\ storage' = [storage EXCEPT !.bookmarks = toggled]
          /\ seen' = [seen EXCEPT !.bookmarks = toggled]
  /\ UNCHANGED <<told, last, route, form, session>> /\ UNCHANGED listVars
-------------------------------------------------------------------------------
\* Visits of other pages.

LeaveList ==
  /\ filters' = DefaultFilters /\ url' = {} /\ target' = None /\ suppress' = FALSE
  /\ page' = 1 /\ overtaken' = FALSE
Visit(v) ==
  /\ session = None /\ Explored /\ route # v /\ Spend("visit")
  /\ route' = v /\ LeaveList /\ seen' = storage /\ told' = FALSE
  /\ form' = IF v = "interview" THEN ApplyPreset("sql-interview") ELSE None
  /\ UNCHANGED <<storage, last, session>>
VisitLearn == Visit("learn")
VisitInterview == Visit("interview")
VisitList ==
  /\ route # "list" /\ session = None /\ Explored
  /\ \E u \in Links : Opened(u)
  /\ UNCHANGED <<storage, last, used>>

Customised(key, value) == [form EXCEPT ![key] = value, !.preset = "custom"]
FillForm ==
  /\ route = "interview" /\ session = None /\ Spend("choice")
  /\ \/ \E id \in DOMAIN InterviewPresets : form' = ApplyPreset(id)
     \/ \E n \in InterviewSizes : form' = Customised("count", n)
     \/ \E t \in {"All", "SQL", "PySpark"} : form' = Customised("type", t)
     \/ \E d \in {"All", "Easy", "Medium", "Hard"} : form' = Customised("difficulty", d)
     \/ \E c \in {"All", "Joins"} : form' = Customised("category", c)
  /\ UNCHANGED <<storage, seen, told, last, route, session>> /\ UNCHANGED listVars

\* A button starts a session and leaves the page.  \E pool \in {...} names a pool
\* that is computed once.  A shuffle is told apart only
\* for pools of up to MaxShuffled questions.
MaxShuffled == 3
Start(what, pool, size, modes) ==
  /\ session = None /\ pool # <<>> /\ Explored
  /\ \E mode \in modes :
       /\ mode = "random" => Len(pool) <= MaxShuffled
       /\ \E ids \in Selections(IdsOf(pool), size, mode) :
            session' = [what |-> what, offered |-> Len(pool), size |-> size, mode |-> mode, ids |-> ids]
  /\ route' = "practice" /\ form' = None /\ LeaveList
  /\ UNCHANGED <<storage, seen, told, last, used>>
Both == {"sequential", "random"}

StartFiltered ==
  route = "list" /\ \E pool \in {Filtered} :
    \E n \in SetupSizes(Len(pool)) : Start("list", pool, n, Both)
Bookmarked ==
  LET catalog == Catalog
  IN Kept(catalog, {i \in DOMAIN catalog : catalog[i].id \in seen.bookmarks})
StartBookmarked ==
  route = "list" /\ \E pool \in {Bookmarked} :
    \E n \in SetupSizes(Len(pool)) : Start("bookmarked", pool, n, Both)
StartPreset ==
  route = "learn" /\ \E p \in PracticePresets : \E pool \in {ResolvePresetQuestions(Catalog, p)} :
    Start("preset", pool, p.size, {p.mode})
WeakAreas(catalog) ==
  GetWeakAreas(catalog, seen.solved,
               [id \in {catalog[i].id : i \in DOMAIN catalog} |-> AttemptsOf(seen.attempts, id).all])
StartWeakArea ==
  route = "learn" /\ \E catalog \in {Catalog} : \E areas \in {WeakAreas(catalog)} :
    \E i \in DOMAIN areas : \E pool \in {WeakAreaPool(catalog, seen.solved, areas[i])} :
      Start("weak", pool, MinOf(WEAK_PRACTICE_SIZE, Len(pool)), {"sequential"})
StartStage ==
  route = "learn" /\ \E id \in DOMAIN LearningPaths : \E s \in DOMAIN LearningPaths[id] :
    \E stage \in {LearningPaths[id][s]} : \E pool \in {Pool(Catalog, stage.match)} :
      Start("stage", pool, stage.size, {"sequential"})
StartTopic ==
  route = "learn" /\ \E catalog \in {Catalog} : \E name \in Categories(catalog) :
    \E pool \in {TopicPool(catalog, name)} :
      \E n \in SetupSizes(Len(pool)) : Start("topic", pool, n, Both)
StartInterview ==
  route = "interview" /\ \E pool \in {InterviewPool(Catalog, form)} :
    Start("interview", pool, MinOf(form.count, Len(pool)), Both)

ListNext ==
  \/ SubmitAny \/ Submit \/ EditStored \/ Hear
  \/ SetFilter \/ ToggleBookmarkedOnly \/ ClearFilters \/ Commit \/ Navigate
  \/ NextPage \/ PreviousPage \/ ToggleBookmark
  \/ VisitLearn \/ VisitInterview \/ VisitList \/ FillForm
  \/ StartFiltered \/ StartBookmarked \/ StartPreset \/ StartWeakArea \/ StartStage
  \/ StartTopic \/ StartInterview

\* The router renders a navigation and the browser delivers its events.
Fairness == WF_learnerVars(Commit) /\ WF_learnerVars(Hear)
ListSpec == ListInit /\ [][ListNext]_learnerVars /\ Fairness
-------------------------------------------------------------------------------
(***************************************************************************)
(* Properties.                                                               *)
(***************************************************************************)

\* The shapes of the page's state.
ListTypeOK ==
  /\ storage.solved \subseteq BuiltInIds /\ storage.bookmarks \subseteq Practised
  /\ storage.stored \in Stored \cup {<<>>}
  /\ route \in {"list", "learn", "interview", "practice"} /\ page \in Nat \ {0}
  /\ told \in BOOLEAN /\ suppress \in BOOLEAN /\ overtaken \in BOOLEAN
  /\ filters \in Filters /\ url \in Addresses /\ target \in Addresses \cup {None}
  /\ \A kind \in DOMAIN Most : used[kind] \in 0..Most[kind]

\* Whatever order its query leaves open, the answer of a question's reference
\* solution is accepted, and an answer with a row too few, too many or in the
\* wrong place is refused (validateResult against the expected rows).
VerdictIsFair == last # None => last.verdict = last.right

\* Each question of the list is on one page, by its place, and the page that is shown
\* is never empty while the list is not, also after another tab has made the
\* list shorter (safeCurrentPage).
PageIsShown ==
  \A list \in {Filtered} : \A pages \in {[p \in 1..TotalPages(list) |-> PageOf(p, list)]} :
    /\ list # <<>> => PageOf(page, list) # <<>>
    /\ \A i \in DOMAIN list : \A p \in DOMAIN pages :
         (\E k \in DOMAIN pages[p] : pages[p][k] = list[i]) <=> p = (i - 1) \div PAGE_SIZE + 1
    /\ Len(list) <= Len(pages) * PAGE_SIZE

\* A question opened from the list has the neighbours it has in the list: the
\* address that the cards carry stands for the filters (discoverySearch).
NavFollowsTheList ==
  route = "list" =>
    \A list \in {Filtered},
       nav \in {NavQuestions(Catalog, ToParams(filters), seen.solved, seen.bookmarks)} :
       \A i \in DOMAIN list :
         Neighbours(nav, list[i].id) = [previous |-> IF i = 1 THEN "" ELSE list[i - 1].id,
                                        next |-> IF i = Len(list) THEN "" ELSE list[i + 1].id]

\* When no navigation is under way the address stands for the filters, unless a
\* link to the rendered address has overtaken the page's own navigation.
UrlShowsFilters ==
  route = "list" /\ target = None /\ ~overtaken => url = ToParams(filters)

\* A page that has heard every event shows what is stored.
PageIsFresh == ~told => seen = storage

\* The pages count alike: the topics and the dashboard's difficulties add up to
\* what the list counts, a path counts a question of two stages once and offers
\* a stage with something left as long as it is not complete, and the dashboard
\* agrees when no stored question is disabled or has a built-in id.
ProgressAddsUp ==
  OnLearn =>
  \A catalog \in {Catalog}, whole \in {ProgressCatalog(seen.stored)} :
  \A solved \in {Among(catalog, seen.solved)}, topics \in {GetTopics(catalog, seen.solved)},
     stats \in {ComputeDashboardStats(whole, seen.solved, seen.bookmarks, seen.attempts)} :
  LET plain == \A i \in DOMAIN seen.stored : seen.stored[i].enabled /\ seen.stored[i].id \notin BuiltInIds
      Added(part(_), keys) == Sets!FoldSet(LAMBDA k, sum : sum + part(k), 0, keys)
  IN /\ Added(LAMBDA i : topics[i].completed, DOMAIN topics) = solved
     /\ Added(LAMBDA i : topics[i].total, DOMAIN topics) = Len(catalog)
     /\ Added(LAMBDA d : stats.byDifficulty[d].solved, DOMAIN stats.byDifficulty) = stats.solved
     /\ plain => stats.total = Len(catalog) /\ stats.solved = solved
     /\ \A id \in DOMAIN LearningPaths :
          \A path \in {LearningPaths[id]} : \A pool \in {GetPathPool(catalog, path)} :
          LET progress == GetPathProgress(pool, seen.solved)
              next == NextStage(catalog, path, seen.solved)
              Open(s) == LET left == Pool(catalog, path[s].match) IN Among(left, seen.solved) < Len(left)
          IN /\ progress.completed <= solved /\ progress.total <= Len(catalog)
             /\ progress.completed < progress.total <=> next # 0 /\ Open(next)

\* A weak area is a category with a question that was tried and not solved; its
\* button starts what the area lists as remaining; and while fewer than six are
\* shown, no such category with two tried questions is missing.
WeakAreasAreHonest ==
  OnLearn =>
  \A catalog \in {Catalog} : \A areas \in {WeakAreas(catalog)} :
  LET Tried(id) == id \in seen.solved \/ AttemptsOf(seen.attempts, id).all > 0
      Failed(name) == {i \in DOMAIN catalog : /\ catalog[i].category = name
                                              /\ Tried(catalog[i].id) /\ catalog[i].id \notin seen.solved}
      shown == {areas[i].category : i \in DOMAIN areas}
  IN /\ \A i \in DOMAIN areas :
          /\ Failed(areas[i].category) # {}
          /\ IdsOf(WeakAreaPool(catalog, seen.solved, areas[i])) = areas[i].remaining
     /\ Len(areas) < MAX_WEAK_AREAS =>
          \A name \in Categories(catalog) \ shown :
            \/ Failed(name) = {}
            \/ Cardinality({i \in DOMAIN catalog : catalog[i].category = name /\ Tried(catalog[i].id)}) < 2

\* A session has as many questions as its button offered, none twice, all of
\* them enabled, in the order of the catalogue unless it is shuffled; one of a
\* weak area has no solved question.
StartedAsOffered ==
  session # None =>
    \A catalog \in {IdsOf(Catalog)} :
    LET ids == session.ids
        place == [i \in DOMAIN ids |-> CHOOSE j \in DOMAIN catalog : catalog[j] = ids[i]]
    IN /\ Len(ids) = MinOf(session.size, session.offered)
       /\ \A i \in DOMAIN ids : \E j \in DOMAIN catalog : catalog[j] = ids[i]
       /\ \A i, j \in DOMAIN ids : ids[i] = ids[j] => i = j
       /\ session.mode = "sequential" => \A i \in 2..Len(ids) : place[i - 1] < place[i]
       /\ session.what = "weak" => \A i \in DOMAIN ids : ids[i] \notin seen.solved

\* While a question fits the type, the difficulty and the category that the
\* interview form shows, an interview can be started: the difficulties of a
\* preset no longer bind a form that was changed by hand.
InterviewOffersWhatItShows ==
  route = "interview" =>
    \A catalog \in {Catalog} :
       (\E i \in DOMAIN catalog : /\ Admits(form.type, catalog[i].type)
                                  /\ Admits(form.difficulty, catalog[i].difficulty)
                                  /\ Admits(form.category, catalog[i].category))
       => InterviewPool(catalog, form) # <<>>

\* A landing page shows six questions, or all that fit it; the pages and paths
\* it links to exist, and each path practises a question of the page.
LandingPagesLead ==
  OnLearn =>
  \A catalog \in {Catalog}, slug \in DOMAIN LandingPages :
  \A landing \in {LandingPages[slug]} : \A pool \in {Pool(catalog, landing.match)} :
    /\ Len(SampleQuestions(pool)) = MinOf(6, Len(pool))
    /\ landing.siblings \subseteq DOMAIN LandingPages \ {slug}
    /\ \A id \in landing.paths :
         Among(GetPathPool(catalog, LearningPaths[id]), {pool[i].id : i \in DOMAIN pool}) > 0

\* Only the learner changes what the filters ask for: no rendered navigation,
\* event or page change undoes a filter or a typed word.
OnlyTheLearnerFilters ==
  [][used' = used /\ route' = route => ToParams(filters') = ToParams(filters)]_learnerVars

\* The address and the filters stop correcting each other, and events arrive.
PageSettles == []<>(session # None \/ (target = None /\ ~told))

\* List, address, neighbours and storage tell the learner one story.
ListIsConsistent == ListTypeOK /\ PageIsShown /\ NavFollowsTheList /\ UrlShowsFilters /\ PageIsFresh

\* The pages agree on what is solved and what is left, and start what they offer.
PagesAgree ==
  /\ ProgressAddsUp /\ WeakAreasAreHonest /\ LandingPagesLead
  /\ StartedAsOffered /\ InterviewOffersWhatItShows

\* Address and filters correct each other, but not the learner, and not for ever.
FiltersComeToRest == OnlyTheLearnerFilters /\ PageSettles
===============================================================================
