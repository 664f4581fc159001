----------------------------- MODULE QuestionBank -----------------------------
(***************************************************************************)
(* A catalogue of questions and the judgement of an answer                    *)
(* (src/lib/validation.ts).  A question is what lists, paths and filters tell *)
(* apart, the answer of its reference solution as a relation, and the result  *)
(* the page expects.  BuiltInQuestions has the ones of the program.           *)
(***************************************************************************)
EXTENDS Integers, Sequences, FiniteSets, TLC
Sets == INSTANCE FiniteSetsExt

CONSTANTS Null,   \* the value of an empty cell, which equals no value
          Bank    \* the built-in catalogue: a sequence of questions

IsSequence(s) == s \in Seq({s[i] : i \in DOMAIN s})

\* The ids of the catalogue differ.
ASSUME BankAssumption ==
  /\ Len(Bank) \in Nat /\ DOMAIN Bank = 1..Len(Bank)
  /\ \A i, j \in DOMAIN Bank : Bank[i].about.id = Bank[j].about.id => i = j

\* The relational operators that the solutions use.  An answer is a set of
\* rows, each with the key of its ORDER BY.
Row(r) == r
Unsorted(r) == <<>>
Select(rows, Columns(_), Key(_)) == {[row |-> Columns(r), key |-> Key(r)] : r \in rows}
Values(rows, column) == {r[column] : r \in rows}
Group(value, rows, column) == [by |-> value, rows |-> {r \in rows : r[column] = value}]
Monthly(rows, column) ==
  {[by |-> m, rows |-> {r \in rows : r[column] \div 100 = m}] : m \in {r[column] \div 100 : r \in rows}}
Sum(rows, column) == Sets!MapThenSumSet(LAMBDA r : r[column], rows)
Total(group, column) == Sum(group.rows, column)
Count(group) == Cardinality(group.rows)
Rounded(a, b) == (2 * a + b) \div (2 * b)
Coalesce(v, default) == IF v = Null THEN default ELSE v
Equal(v, w) == v # Null /\ w # Null /\ v = w
At(x, sorted) == CHOOSE i \in DOMAIN sorted : sorted[i] = x
Before(k, l) == \E i \in DOMAIN k : k[i] < l[i] /\ \A j \in 1..(i - 1) : k[j] = l[j]
Limit(n, answer) ==
  {r \in answer : Cardinality({s \in answer : Before(s.key, r.key)}) < n}

Described(id, type, difficulty, category, languages, companies) ==
  [id |-> id, type |-> type, difficulty |-> difficulty, category |-> category,
   languages |-> languages, companies |-> companies, enabled |-> TRUE]
Judged(id, type, difficulty, category, languages, companies, ordered, answer, expected) ==
  [about |-> Described(id, type, difficulty, category, languages, companies),
   ordered |-> ordered, answer |-> answer, expected |-> expected]
Unjudged(id, type, difficulty, category, languages, companies) ==
  [about |-> Described(id, type, difficulty, category, languages, companies),
   ordered |-> FALSE, answer |-> {}, expected |-> <<>>]
-------------------------------------------------------------------------------
BuiltIn == [i \in DOMAIN Bank |-> Bank[i].about]
BuiltInIds == {Bank[i].about.id : i \in DOMAIN Bank}
Entry(id) == Bank[CHOOSE i \in DOMAIN Bank : Bank[i].about.id = id]
JudgedIds == {id \in BuiltInIds : Entry(id).expected # <<>>}

\* The result that the page expects of a question has the rows of its reference
\* solution's answer, each once; and where the order is judged, it has them in the only
\* order that the ORDER BY allows.
Expects(expected, ordered, answer) ==
  /\ IsSequence(expected) /\ ordered \in BOOLEAN
  /\ \A i, j \in DOMAIN expected : expected[i] = expected[j] => i = j
  /\ IsFiniteSet(answer) /\ Cardinality(answer) = Len(expected)
  /\ \A r, s \in answer : r.row = s.row => r = s
  /\ \A r \in answer : \E i \in DOMAIN expected : expected[i] = r.row
  /\ ordered => \A r, s \in answer, i, j \in DOMAIN expected :
                  expected[i] = r.row /\ expected[j] = s.row /\ i < j => Before(r.key, s.key)

ASSUME ExpectedAssumption ==
  \A id \in JudgedIds : Expects(Entry(id).expected, Entry(id).ordered, Entry(id).answer)
-------------------------------------------------------------------------------
\* validateResult.

\* Every row is paired with the first row of the expected result that equals
\* it and is not taken yet; 0 when there is none.
MatchOfAnyRow(actual, expected) ==   \* mutant: matchedExpected is not read
  [n \in DOMAIN actual |->
     LET equal == {i \in DOMAIN expected : expected[i] = actual[n]}
     IN IF equal = {} THEN 0 ELSE CHOOSE i \in equal : TRUE]
MatchOf(actual, expected) ==
  LET match[n \in DOMAIN actual] ==
        LET free == {i \in DOMAIN expected : expected[i] = actual[n]
                                             /\ \A m \in 1..(n - 1) : match[m] # i}
        IN IF free = {} THEN 0 ELSE CHOOSE i \in free : \A j \in free : i <= j
  IN match

RowsEqualIgnoringOrder(actual, expected) ==
  /\ Len(actual) = Len(expected)
  /\ LET match == MatchOf(actual, expected) IN \A n \in DOMAIN actual : match[n] # 0

RowsEqualInOrder(actual, expected) ==
  /\ Len(actual) = Len(expected)
  /\ \A n \in DOMAIN actual : actual[n] = expected[n]

ValidateResult(actual, expected, orderMatters) ==
  IF orderMatters THEN RowsEqualInOrder(actual, expected)
  ELSE RowsEqualIgnoringOrder(actual, expected)
-------------------------------------------------------------------------------
\* What a right query may return: the rows of the answer, in any order that
\* the solution's ORDER BY leaves open where the order is judged.
Arrangements(set) ==
  {s \in [1..Cardinality(set) -> set] : \A i, j \in DOMAIN s : s[i] = s[j] => i = j}
InOrder(s) == \A i, j \in DOMAIN s : i < j => ~Before(s[j].key, s[i].key)
RightAnswers(id) ==
  LET q == Entry(id)
  IN {[i \in DOMAIN s |-> s[i].row] : s \in {t \in Arrangements(q.answer) : q.ordered => InOrder(t)}}

\* What a query that is not right may return: the result without a row, with a
\* row once more, with one row in place of another, or in another order.
Swapped(s, i, j) == [s EXCEPT ![i] = s[j], ![j] = s[i]]
WrongAnswers(id) ==
  LET s == Entry(id).expected
  IN {SubSeq(s, 1, Len(s) - 1)} \cup {Append(s, s[i]) : i \in DOMAIN s}
     \cup {[s EXCEPT ![p[1]] = s[p[2]]] : p \in {q \in (DOMAIN s) \X (DOMAIN s) : q[1] # q[2]}}
     \cup {Swapped(s, p[1], p[2]) : p \in {q \in (DOMAIN s) \X (DOMAIN s) :
                                            Entry(id).ordered /\ q[1] # q[2]}}
===============================================================================
