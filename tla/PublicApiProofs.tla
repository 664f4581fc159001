----------------------------- MODULE PublicApiProofs -----------------------------
(***************************************************************************)
(* Proofs about what anyone may call without an account: the rate limiter   *)
(* (RateLimit) and product analytics from the tab to the report             *)
(* (ProductAnalytics), for any values of their constants.                   *)
(*                                                                          *)
(* What holds the two-budget theorem together is what the map's entry of a  *)
(* key says of the requests that passed: which of them belong to its        *)
(* window, and how long ago the others were.                                *)
(*                                                                          *)
(* What holds the queue together is `Placed': an event is queued in one tab *)
(* or carried by one request or counted, and never two of them.  Every      *)
(* operation of a tab is shown to take events off its queue in order        *)
(* (`Sends'), and one lemma (QueueStep) shows that such a step keeps the    *)
(* events in place, next to whatever the network does to the requests.      *)
(*                                                                          *)
(* What makes the counters add up is that a sum is the size of a set of     *)
(* units, so that the sums of disjoint parts add and a double sum may be    *)
(* taken in either order.                                                   *)
(***************************************************************************)
EXTENDS RateLimit, ProductAnalytics, FiniteSetTheorems, SequenceTheorems, TLAPS

-------------------------------------------------------------------------------
\* The rate limiter.

Cap(n, limit) == IF n <= limit THEN n ELSE limit

\* The entry of a key is empty only if the map has none, and ends within a
\* window from now.
EntryFits(k) ==
  /\ buckets[k].count = 0 => buckets[k] = NoBucket
  /\ buckets[k].resetAt <= now + Window

\* Of n requests that passed, the last `spent' are in the entry's window, the
\* ones before them before it, and those a whole budget earlier before the
\* window that precedes it.
HistoryFits(f, c) ==
  LET k == Key(f, c)
      s == admitted[k]
      spent == Cap(buckets[k].count, Limit[f])
  IN /\ buckets[k].count = 0 => s = <<>>
     /\ spent <= Len(s)
     /\ \A i \in 1 .. Len(s) :
          /\ s[i] <= now
          /\ s[i] < buckets[k].resetAt
          /\ i + spent > Len(s) => s[i] >= buckets[k].resetAt - Window
          /\ i + spent <= Len(s) => s[i] < buckets[k].resetAt - Window
          /\ i + spent + Limit[f] <= Len(s) => s[i] < buckets[k].resetAt - 2 * Window
          /\ i + 2 * Limit[f] <= Len(s) => s[i + 2 * Limit[f]] > s[i] + Window

\* The window of the sampling counter began with an audited denial.
EvidenceFits(c) ==
  buckets[Denied(c)].count > 0 => audited[c] >= buckets[Denied(c)].resetAt - Window

\* Whoever waits as long as promised outlasts the window.
PromiseFits(k) ==
  promised[k] > 0 /\ buckets[k].count > 0 => buckets[k].resetAt <= promised[k]

RLInv ==
  /\ TypeOK
  /\ TrackedKeysAreBounded
  /\ \A k \in Keys : EntryFits(k)
  /\ \A f \in Families, c \in Clients : HistoryFits(f, c) /\ PromiseFits(Key(f, c))
  /\ \A c \in Clients : EvidenceFits(c)

-------------------------------------------------------------------------------
\* What the map looks like after a request was counted.

LEMMA WindowType == Window \in Nat \ {0}
BY BudgetAssumption DEF Window

LEMMA WindowEnds == \A t \in Nat : 0 <= t + Window
BY WindowType

LEMMA KeysFinite == IsFiniteSet(Keys)
<1>1. IsFiniteSet(Families \cup {"denied"})
  BY BudgetAssumption, FS_AddElement
<1> QED BY <1>1, BudgetAssumption, FS_Product DEF Keys

LEMMA KeyTypes ==
  /\ \A f \in Families, c \in Clients : Key(f, c) \in Keys
  /\ \A c \in Clients : Denied(c) \in Keys
  /\ \A f, g \in Families, c, d \in Clients : Key(f, c) = Key(g, d) => f = g /\ c = d
  /\ \A f \in Families, c, d \in Clients : Key(f, c) # Denied(d)
  /\ \A c, d \in Clients : Denied(c) = Denied(d) => c = d
BY BudgetAssumption DEF Key, Denied, Keys

LEMMA CountedType ==
  ASSUME NEW bs \in [Keys -> Buckets], NEW k \in Keys, now \in Nat
  PROVE  /\ Counted(bs, k) \in Buckets
         /\ Counted(bs, k).count > 0
         /\ Counted(bs, k).resetAt > now
         /\ bs[k].resetAt > now => /\ Counted(bs, k).count = bs[k].count + 1
                                   /\ Counted(bs, k).resetAt = bs[k].resetAt
         /\ bs[k].resetAt <= now => /\ Counted(bs, k).count = 1
                                    /\ Counted(bs, k).resetAt = now + Window
BY WindowType DEF Counted, Current, Buckets

\* Above the cap exactly one key goes, one of those that end first.
LEMMA StoredFacts ==
  ASSUME NEW bs \in [Keys -> Buckets], NEW k \in Keys, now \in Nat,
         Cardinality(Tracked(bs)) <= MaxTrackedKeys,
         NEW next \in Stored(bs, k)
  PROVE  /\ next \in [Keys -> Buckets]
         /\ next[k] = Counted(bs, k)
         /\ \A j \in Keys \ {k} : next[j] = bs[j] \/ next[j] = NoBucket
         /\ Cardinality(Tracked(next)) <= MaxTrackedKeys
         /\ \A v \in Keys \ {k} : next[v] # bs[v] =>
              \A u \in Keys : bs[u].count > 0 => bs[v].resetAt <= bs[u].resetAt
         /\ bs[k].count > 0 => \A j \in Keys \ {k} : next[j] = bs[j]
<1> DEFINE all == [bs EXCEPT ![k] = Counted(bs, k)]
<1>1. all \in [Keys -> Buckets] /\ all[k] = Counted(bs, k) /\ \A j \in Keys \ {k} : all[j] = bs[j]
  BY CountedType
<1>2. NoBucket \in Buckets /\ NoBucket.count = 0
  BY DEF NoBucket, Buckets
<1>3. Tracked(all) = Tracked(bs) \cup {k}
  BY <1>1, CountedType DEF Tracked
<1>4. IsFiniteSet(Tracked(bs)) /\ IsFiniteSet(Tracked(all))
  BY KeysFinite, FS_Subset DEF Tracked
<1>5. Cardinality(Tracked(bs)) \in Nat /\ Cardinality(Tracked(all)) \in Nat
  BY <1>4, FS_CardinalityType
<1>6. Cardinality(Tracked(all)) <= Cardinality(Tracked(bs)) + 1
      /\ (k \in Tracked(bs) => Cardinality(Tracked(all)) = Cardinality(Tracked(bs)))
  <2>1. CASE k \in Tracked(bs)
    <3>1. Tracked(all) = Tracked(bs)
      BY <1>3, <2>1
    <3> QED BY <3>1, <1>5
  <2>2. CASE k \notin Tracked(bs)
    <3>1. Cardinality(Tracked(bs) \cup {k}) = Cardinality(Tracked(bs)) + 1
      BY <2>2, <1>4, FS_AddElement
    <3>2. Cardinality(Tracked(all)) = Cardinality(Tracked(bs)) + 1
      BY <3>1, <1>3
    <3> QED BY <3>2, <1>5, <2>2
  <2> QED BY <2>1, <2>2
<1>7. CASE Cardinality(Tracked(all)) <= MaxTrackedKeys
  <2>1. next = all
    BY <1>7 DEF Stored
  <2> QED BY <2>1, <1>1, <1>7
<1>8. CASE ~(Cardinality(Tracked(all)) <= MaxTrackedKeys)
  <2>1. PICK v \in Soonest(all, k) : next = [all EXCEPT ![v] = NoBucket]
    BY <1>8 DEF Stored
  <2>2. v \in Tracked(all) /\ v # k /\ v \in Keys
    BY <2>1 DEF Soonest, Tracked
  <2>3. next \in [Keys -> Buckets] /\ next[v] = NoBucket /\ \A j \in Keys \ {v} : next[j] = all[j]
    BY <2>1, <2>2, <1>1, <1>2
  <2>4. Tracked(next) = Tracked(all) \ {v}
    BY <2>3, <2>2, <1>2 DEF Tracked
  <2>5. Cardinality(Tracked(next)) = Cardinality(Tracked(all)) - 1
    <3>1. Cardinality(Tracked(all) \ {v}) = Cardinality(Tracked(all)) - 1
      BY <2>2, <1>4, FS_RemoveElement
    <3> QED BY <3>1, <2>4
  <2>6. Cardinality(Tracked(next)) <= MaxTrackedKeys
    BY <2>5, <1>5, <1>6, BudgetAssumption
  <2>7. \A u \in Keys : bs[u].count > 0 => bs[v].resetAt <= bs[u].resetAt
    <3> SUFFICES ASSUME NEW u \in Keys, bs[u].count > 0 PROVE bs[v].resetAt <= bs[u].resetAt
      OBVIOUS
    <3>1. k \notin Tracked(bs)
      BY <1>6, <1>8, <1>5, BudgetAssumption
    <3>2. u # k /\ u \in Tracked(all)
      BY <3>1, <1>1 DEF Tracked
    <3>3. all[v].resetAt <= all[u].resetAt
      BY <2>1, <3>2 DEF Soonest
    <3> QED BY <3>2, <3>3, <2>2, <1>1
  <2>8. ~(bs[k].count > 0)
    BY <1>6, <1>8, <1>5, BudgetAssumption DEF Tracked
  <2> QED BY <2>2, <2>3, <2>6, <2>7, <2>8, <1>1
<1> QED BY <1>7, <1>8

-------------------------------------------------------------------------------
\* The steps of the limiter, seen from one key.

Kept(k) ==
  /\ buckets'[k] = buckets[k]
  /\ admitted'[k] = admitted[k]
  /\ promised'[k] = promised[k]

\* Evicted, or lost with the isolate.
Forgotten(k) == buckets'[k] = NoBucket /\ admitted'[k] = <<>>

\* A request of the key passed.
Passed(f, c) ==
  LET k == Key(f, c)
  IN /\ Allowed(buckets, f, c)
     /\ buckets'[k] = Counted(buckets, k)
     /\ admitted'[k] = Append(admitted[k], now)
     /\ promised'[k] = 0

\* A request of the key was refused.
Refused(f, c) ==
  LET k == Key(f, c)
  IN /\ ~Allowed(buckets, f, c)
     /\ buckets'[k] = Counted(buckets, k)
     /\ admitted'[k] = admitted[k]
     /\ promised'[k] = now + RetryAfter(buckets, k) * Second

\* A denial of the client was counted: it is audited, or in a window that is
\* open.
CountedDenial(c) ==
  LET k == Denied(c)
  IN /\ buckets'[k].count > 0
     /\ buckets'[k].resetAt <= now + Window
     /\ \/ audited'[c] = now
        \/ /\ audited'[c] = audited[c]
           /\ buckets[k].count > 0 /\ buckets[k].resetAt > now
           /\ buckets'[k].resetAt = buckets[k].resetAt
     /\ ~answer'.audit => audited'[c] = audited[c] /\ buckets[k].count > 0
                          /\ buckets[k].resetAt > now

LEMMA RefuseMoves ==
  ASSUME RLInv, NEW f \in Families, NEW c \in Clients, Refuse(f, c)
  PROVE  /\ Refused(f, c)
         /\ \A j \in Keys \ {Key(f, c)} : Kept(j)
         /\ buckets' \in [Keys -> Buckets]
         /\ Cardinality(Tracked(buckets')) <= MaxTrackedKeys
         /\ now' = now /\ audited' = audited /\ served' = served + 1
         /\ answer' = [family |-> f, client |-> c, verdict |-> "refused", audit |-> FALSE]
<1> DEFINE k == Key(f, c)
<1>1. k \in Keys /\ TypeOK /\ Cardinality(Tracked(buckets)) <= MaxTrackedKeys
  BY KeyTypes DEF RLInv, TrackedKeysAreBounded
<1>2. buckets[k].count > 0
  <2>2. buckets[k] \in Buckets /\ Limit[f] \in Nat \ {0} /\ now \in Nat
    BY <1>1, BudgetAssumption DEF TypeOK
  <2>3. Counted(buckets, k) \in Buckets
    BY <1>1, CountedType DEF TypeOK
  <2>4. ~(Counted(buckets, k).count <= Limit[f])
    BY DEF Refuse, Allowed
  <2>1. Counted(buckets, k).count > Limit[f]
    BY <2>2, <2>3, <2>4 DEF Buckets
  <2> QED BY <2>1, <2>2, <1>1, WindowType DEF Counted, Current, Buckets
<1>3. buckets' \in Stored(buckets, k)
  BY DEF Refuse
<1>4. /\ buckets' \in [Keys -> Buckets]
      /\ buckets'[k] = Counted(buckets, k)
      /\ \A j \in Keys \ {k} : buckets'[j] = buckets[j]
      /\ Cardinality(Tracked(buckets')) <= MaxTrackedKeys
  BY <1>1, <1>2, <1>3, StoredFacts DEF TypeOK
<1>5. /\ promised'[k] = now + RetryAfter(buckets, k) * Second
      /\ \A j \in Keys \ {k} : promised'[j] = promised[j]
      /\ admitted' = admitted
  BY <1>1 DEF Refuse, TypeOK
<1> QED BY <1>4, <1>5 DEF Refuse, Refused, Kept, Answer

LEMMA PassMoves ==
  ASSUME RLInv, NEW f \in Families, NEW c \in Clients, Pass(f, c)
  PROVE  /\ Passed(f, c)
         /\ \A j \in Keys \ {Key(f, c)} : Kept(j) \/ Forgotten(j)
         /\ buckets' \in [Keys -> Buckets]
         /\ Cardinality(Tracked(buckets')) <= MaxTrackedKeys
         /\ now' = now /\ audited' = audited /\ served' = served + 1
         /\ answer' = [family |-> f, client |-> c, verdict |-> "passed", audit |-> FALSE]
<1> DEFINE k == Key(f, c)
<1>1. k \in Keys /\ TypeOK /\ Cardinality(Tracked(buckets)) <= MaxTrackedKeys
      /\ \A j \in Keys : EntryFits(j)
  BY KeyTypes DEF RLInv, TrackedKeysAreBounded
<1>2. buckets' \in Stored(buckets, k)
  BY DEF Pass
<1>3. /\ buckets' \in [Keys -> Buckets]
      /\ buckets'[k] = Counted(buckets, k) /\ buckets'[k].count > 0
      /\ \A j \in Keys \ {k} : buckets'[j] = buckets[j] \/ buckets'[j] = NoBucket
      /\ Cardinality(Tracked(buckets')) <= MaxTrackedKeys
  BY <1>1, <1>2, StoredFacts, CountedType DEF TypeOK
<1>4. /\ promised'[k] = 0
      /\ \A j \in Keys \ {k} : promised'[j] = promised[j]
      /\ \A j \in Keys : admitted'[j] =
           IF buckets'[j].count = 0 THEN <<>>
           ELSE IF j = k THEN Append(admitted[j], now) ELSE admitted[j]
  BY <1>1 DEF Pass, Admit, TypeOK
<1>5. admitted'[k] = Append(admitted[k], now)
  <2>1. buckets'[k].count # 0
    BY <1>3, <1>1 DEF Buckets
  <2> QED BY <1>1, <1>4, <2>1
<1>6. ASSUME NEW j \in Keys \ {k} PROVE Kept(j) \/ Forgotten(j)
  <2>1. buckets'[j] = NoBucket => Forgotten(j)
    BY <1>4 DEF Forgotten, NoBucket
  <2>2. buckets'[j] = buckets[j] /\ buckets'[j].count # 0 => Kept(j)
    BY <1>4 DEF Kept
  <2>3. buckets'[j] = buckets[j] /\ buckets'[j].count = 0 => buckets'[j] = NoBucket
    BY <1>1 DEF EntryFits
  <2> QED BY <1>3, <2>1, <2>2, <2>3
<1>7. Allowed(buckets, f, c) /\ now' = now /\ audited' = audited
  BY DEF Pass, Answer
<1>8. served' = served + 1
      /\ answer' = [family |-> f, client |-> c, verdict |-> "passed", audit |-> FALSE]
  BY DEF Pass, Answer
<1>9. Passed(f, c)
  BY <1>3, <1>4, <1>5, <1>7 DEF Passed
<1> QED BY <1>3, <1>6, <1>7, <1>8, <1>9

LEMMA DenyMoves ==
  ASSUME RLInv, NEW c \in Clients, Deny(c)
  PROVE  LET k == Key("admin", c)
         IN /\ Allowed(buckets, "admin", c)
            /\ Passed("admin", c) \/ (Forgotten(k) /\ promised'[k] = 0)
            /\ CountedDenial(c)
            /\ \A b \in Clients \ {c} : audited'[b] = audited[b]
            /\ \A j \in Keys \ {k, Denied(c)} : Kept(j) \/ (Forgotten(j) /\ promised'[j] = promised[j])
            /\ buckets' \in [Keys -> Buckets] /\ audited' \in [Clients -> Nat]
            /\ Cardinality(Tracked(buckets')) <= MaxTrackedKeys
            /\ now' = now /\ served' = served + 1
            /\ answer' \in Answers
            /\ answer'.verdict = "denied" /\ answer'.client = c
<1> DEFINE k == Key("admin", c)
           d == Denied(c)
<1>1. k \in Keys /\ d \in Keys /\ k # d /\ TypeOK /\ "admin" \in Families
      /\ Cardinality(Tracked(buckets)) <= MaxTrackedKeys
      /\ \A j \in Keys : EntryFits(j)
  BY KeyTypes, BudgetAssumption DEF RLInv, TrackedKeysAreBounded
<1>2. PICK charged \in Stored(buckets, k) :
        /\ buckets' \in Stored(charged, d)
        /\ audited' = IF IsSampled(charged, c) THEN [audited EXCEPT ![c] = now] ELSE audited
        /\ Answer("admin", c, "denied", IsSampled(charged, c))
  BY DEF Deny
<1>3. /\ charged \in [Keys -> Buckets]
      /\ charged[k] = Counted(buckets, k) /\ charged[k].count > 0
      /\ \A j \in Keys \ {k} : charged[j] = buckets[j] \/ charged[j] = NoBucket
      /\ Cardinality(Tracked(charged)) <= MaxTrackedKeys
  BY <1>1, StoredFacts, CountedType DEF TypeOK
<1>4. /\ buckets' \in [Keys -> Buckets]
      /\ buckets'[d] = Counted(charged, d) /\ buckets'[d].count > 0
      /\ \A j \in Keys \ {d} : buckets'[j] = charged[j] \/ buckets'[j] = NoBucket
      /\ Cardinality(Tracked(buckets')) <= MaxTrackedKeys
  BY <1>1, <1>2, <1>3, StoredFacts, CountedType DEF TypeOK
<1>5. /\ promised'[k] = 0
      /\ \A j \in Keys \ {k} : promised'[j] = promised[j]
      /\ \A j \in Keys : admitted'[j] =
           IF buckets'[j].count = 0 THEN <<>>
           ELSE IF j = k THEN Append(admitted[j], now) ELSE admitted[j]
  BY <1>1 DEF Deny, Admit, TypeOK
<1>6. \A j \in Keys : buckets'[j] = NoBucket => Forgotten(j)
  BY <1>5 DEF Forgotten, NoBucket
<1>7. Allowed(buckets, "admin", c)
  BY DEF Deny
<1>8. Passed("admin", c) \/ (Forgotten(k) /\ promised'[k] = 0)
  <2>1. CASE buckets'[k] = NoBucket
    BY <2>1, <1>1, <1>5, <1>6
  <2>2. CASE buckets'[k] = charged[k]
    <3>1. buckets'[k].count # 0
      BY <2>2, <1>3, <1>1 DEF Buckets
    <3>2. admitted'[k] = Append(admitted[k], now)
      BY <3>1, <1>5, <1>1
    <3> QED BY <2>2, <3>2, <1>3, <1>5, <1>7 DEF Passed
  <2> QED BY <2>1, <2>2, <1>4, <1>1
<1>9. ASSUME NEW j \in Keys \ {k, d} PROVE Kept(j) \/ (Forgotten(j) /\ promised'[j] = promised[j])
  <2>1. buckets'[j] = buckets[j] /\ buckets'[j].count # 0 => Kept(j)
    BY <1>5 DEF Kept
  <2>2. buckets'[j] = buckets[j] /\ buckets'[j].count = 0 => buckets'[j] = NoBucket
    BY <1>1 DEF EntryFits
  <2>3. buckets'[j] = buckets[j] \/ buckets'[j] = NoBucket
    BY <1>3, <1>4
  <2> QED BY <2>1, <2>2, <2>3, <1>5, <1>6
<1>10. CountedDenial(c)
  <2>1. now \in Nat /\ audited \in [Clients -> Nat]
    BY <1>1 DEF TypeOK
  <2>2. charged[d] = buckets[d] \/ charged[d] = NoBucket
    BY <1>1, <1>3
  <2>3. buckets[d] \in Buckets /\ buckets[d].resetAt <= now + Window
        /\ (buckets[d].count = 0 => buckets[d] = NoBucket)
    BY <1>1 DEF TypeOK, EntryFits
  <2>4. answer'.audit = IsSampled(charged, c)
    BY <1>2 DEF Answer
  <2>5. IsSampled(charged, c) => audited'[c] = now
    BY <1>2, <2>1
  <2>6. ~IsSampled(charged, c) => audited'[c] = audited[c] /\ Counted(charged, d).count # 1
    BY <1>2 DEF IsSampled
  <2>7. charged[d] \in Buckets
    BY <1>1, <1>3
  <2>8. CASE charged[d].resetAt <= now
    <3>1. Counted(charged, d).count = 1 /\ buckets'[d].resetAt = now + Window
      BY <2>8, <1>1, <1>3, <1>4, <2>1, CountedType
    <3>2. audited'[c] = now /\ answer'.audit
      BY <3>1, <2>4, <2>5, <2>6
    <3> QED BY <3>1, <3>2, <1>4, <2>1, WindowType DEF CountedDenial
  <2>9. CASE charged[d].resetAt > now
    <3>1. charged[d] = buckets[d] /\ buckets[d].count > 0
      BY <2>9, <2>1, <2>2, <2>3 DEF NoBucket, Buckets
    <3>2. buckets'[d].resetAt = buckets[d].resetAt
      BY <2>9, <3>1, <1>1, <1>3, <1>4, <2>1, CountedType
    <3> QED BY <3>1, <3>2, <2>3, <2>4, <2>5, <2>6, <2>9, <1>4 DEF CountedDenial
  <2> QED BY <2>7, <2>8, <2>9, <2>1 DEF Buckets
<1>11. \A b \in Clients \ {c} : audited'[b] = audited[b]
  BY <1>1, <1>2 DEF TypeOK
<1>12. audited' \in [Clients -> Nat]
  BY <1>1, <1>2 DEF TypeOK
<1>13. /\ now' = now /\ served' = served + 1
       /\ answer' \in Answers
       /\ answer'.verdict = "denied" /\ answer'.client = c
  <2>1. IsSampled(charged, c) \in BOOLEAN
    BY DEF IsSampled
  <2> QED BY <1>1, <1>2, <2>1 DEF Answer, Answers, Verdicts
<1> QED BY <1>4, <1>7, <1>8, <1>9, <1>10, <1>11, <1>12, <1>13
-------------------------------------------------------------------------------
\* What each kind of step does to the entry of a key and its history.

\* Rounding up loses nothing.
LEMMA RoundedUp ==
  ASSUME NEW t \in Nat, NEW m \in Nat \ {0}
  PROVE  /\ (t + m - 1) \div m \in Nat
         /\ ((t + m - 1) \div m) * m >= t
OBVIOUS

LEMMA RetryOutlasts ==
  ASSUME NEW bs \in [Keys -> Buckets], NEW k \in Keys, now \in Nat
  PROVE  /\ RetryAfter(bs, k) * Second \in Nat
         /\ now + RetryAfter(bs, k) * Second >= Counted(bs, k).resetAt
<1> DEFINE t == Counted(bs, k).resetAt - now
<1>1. t \in Nat /\ now \in Nat /\ Counted(bs, k).resetAt \in Nat
  BY CountedType DEF Buckets
<1>2. Second \in Nat \ {0}
  BY BudgetAssumption
<1>3. RetryAfter(bs, k) = IF t <= Second THEN 1 ELSE (t + Second - 1) \div Second
  BY DEF RetryAfter
<1> HIDE DEF t
<1>4. RetryAfter(bs, k) * Second \in Nat /\ RetryAfter(bs, k) * Second >= t
  <2>1. CASE t <= Second
    BY <1>1, <1>2, <1>3, <2>1
  <2>2. CASE ~(t <= Second)
    BY <1>1, <1>2, <1>3, <2>2, RoundedUp
  <2> QED BY <2>1, <2>2
<1>5. RetryAfter(bs, k) * Second >= Counted(bs, k).resetAt - now
  BY <1>4 DEF t
<1> QED BY <1>1, <1>4, <1>5

LEMMA PassedKeeps ==
  ASSUME RLInv, NEW f \in Families, NEW c \in Clients, Passed(f, c), now' = now
  PROVE  /\ HistoryFits(f, c)'
         /\ PromiseFits(Key(f, c))'
         /\ EntryFits(Key(f, c))'
<1> DEFINE k == Key(f, c)
           b == buckets[k]
           s == admitted[k]
           n == Len(s)
           L == Limit[f]
           spent == Cap(b.count, L)
<1>1. /\ k \in Keys /\ buckets \in [Keys -> Buckets] /\ b \in Buckets /\ s \in Seq(Nat)
      /\ now \in Nat /\ L \in Nat \ {0} /\ n \in Nat /\ Window \in Nat \ {0}
      /\ HistoryFits(f, c)
  BY KeyTypes, WindowType, BudgetAssumption DEF RLInv, TypeOK
<1>2. /\ buckets'[k] = Counted(buckets, k) /\ Counted(buckets, k).count <= L
      /\ admitted'[k] = Append(s, now) /\ promised'[k] = 0
  BY DEF Passed, Allowed
<1>3. /\ Append(s, now) \in Seq(Nat) /\ Len(Append(s, now)) = n + 1
      /\ Append(s, now)[n + 1] = now
      /\ \A i \in 1 .. n : Append(s, now)[i] = s[i] /\ s[i] \in Nat
  BY <1>1
<1>4. PromiseFits(k)'
  BY <1>2 DEF PromiseFits
<1>5. EntryFits(k)'
  <2>1. Counted(buckets, k).count > 0 /\ Counted(buckets, k) \in Buckets
        /\ Counted(buckets, k).resetAt <= now + Window
    <3>1. b.resetAt <= now + Window /\ b.resetAt \in Nat
      BY <1>1 DEF RLInv, EntryFits, Buckets
    <3> QED BY <1>1, <3>1, CountedType
  <2>2. Counted(buckets, k).count # 0
    BY <2>1 DEF Buckets
  <2> QED BY <1>2, <2>1, <2>2 DEF EntryFits
<1>6. CASE b.resetAt > now
  <2>1. buckets'[k].count = b.count + 1 /\ buckets'[k].resetAt = b.resetAt /\ b.count + 1 <= L
    BY <1>1, <1>2, <1>6, CountedType
  <2>2. spent = b.count /\ Cap(buckets'[k].count, L) = b.count + 1
    BY <2>1, <1>1 DEF Cap, Buckets
  <2>3. b.resetAt <= now + Window
    BY <1>1 DEF RLInv, EntryFits
  <2>4. /\ b.count <= n
        /\ \A i \in 1 .. n :
             /\ s[i] <= now
             /\ s[i] < b.resetAt
             /\ i + b.count > n => s[i] >= b.resetAt - Window
             /\ i + b.count <= n => s[i] < b.resetAt - Window
             /\ i + b.count + L <= n => s[i] < b.resetAt - 2 * Window
             /\ i + 2 * L <= n => s[i + 2 * L] > s[i] + Window
    BY <1>1, <2>2 DEF HistoryFits
  <2>5. b.count \in Nat /\ b.resetAt \in Nat
    BY <1>1 DEF Buckets
  <2> DEFINE z == Append(s, now)
  <2>6. ASSUME NEW i \in 1 .. n + 1
        PROVE  /\ z[i] <= now
               /\ z[i] < b.resetAt
               /\ i + (b.count + 1) > n + 1 => z[i] >= b.resetAt - Window
               /\ i + (b.count + 1) <= n + 1 => z[i] < b.resetAt - Window
               /\ i + (b.count + 1) + L <= n + 1 => z[i] < b.resetAt - 2 * Window
               /\ i + 2 * L <= n + 1 => z[i + 2 * L] > z[i] + Window
    <3> HIDE DEF z, n, b, L, s
    <3>0. z[n + 1] = now /\ \A h \in 1 .. n : z[h] = s[h] /\ s[h] \in Nat
      BY <1>3 DEF z, n, s
    <3>1. CASE i = n + 1
      BY <3>0, <3>1, <1>1, <1>6, <2>3, <2>5, <2>1
    <3>2. CASE i \in 1 .. n /\ i + 2 * L # n + 1
      <4>1. z[i] = s[i] /\ s[i] \in Nat /\ i \in Nat
        BY <3>0, <3>2
      <4>2. /\ s[i] <= now
            /\ s[i] < b.resetAt
            /\ i + b.count > n => s[i] >= b.resetAt - Window
            /\ i + b.count <= n => s[i] < b.resetAt - Window
            /\ i + b.count + L <= n => s[i] < b.resetAt - 2 * Window
            /\ i + 2 * L <= n => s[i + 2 * L] > s[i] + Window
        BY <3>2, <2>4
      <4>3. i + 2 * L <= n => i + 2 * L \in 1 .. n
        BY <4>1, <1>1
      <4>4. i + 2 * L <= n => z[i + 2 * L] > z[i] + Window
        BY <4>1, <4>2, <4>3, <3>0
      <4>5. i + 2 * L <= n + 1 => i + 2 * L <= n
        BY <4>1, <3>2, <1>1
      <4> QED BY <4>1, <4>2, <4>4, <4>5, <1>1, <2>5
    <3>3. CASE i \in 1 .. n /\ i + 2 * L = n + 1
      <4>1. s[i] < b.resetAt - 2 * Window
        BY <3>3, <1>1, <2>1, <2>4, <2>5
      <4>2. z[i + 2 * L] = now /\ z[i] = s[i] /\ s[i] \in Nat
        BY <3>3, <3>0
      <4>3. now > s[i] + Window
        BY <4>1, <4>2, <2>3, <1>1, <2>5
      <4>4. /\ s[i] <= now
            /\ s[i] < b.resetAt
            /\ i + b.count <= n => s[i] < b.resetAt - Window
        BY <3>3, <2>4
      <4>5. i + b.count <= n /\ i \in Nat
        BY <3>3, <1>1, <2>1, <2>5
      <4> QED BY <4>1, <4>2, <4>3, <4>4, <4>5, <3>3, <1>1, <2>5
    <3> QED BY <3>1, <3>2, <3>3, <1>1
  <2>7. b.count + 1 <= n + 1 /\ buckets'[k].count # 0
    BY <2>1, <2>4, <2>5, <1>1
  <2>8. HistoryFits(f, c)'
    BY <1>2, <1>3, <2>1, <2>2, <2>6, <2>7 DEF HistoryFits
  <2> QED BY <2>8, <1>4, <1>5
<1>7. CASE b.resetAt <= now
  <2>1. buckets'[k].count = 1 /\ buckets'[k].resetAt = now + Window
    BY <1>1, <1>2, <1>7, CountedType
  <2>2. Cap(buckets'[k].count, L) = 1
    BY <2>1, <1>1 DEF Cap
  <2>3. spent \in Nat /\ spent <= L
    BY <1>1 DEF Cap, Buckets
  <2>4. /\ spent <= n
        /\ \A i \in 1 .. n :
             /\ s[i] < b.resetAt
             /\ i + spent <= n => s[i] < b.resetAt - Window
             /\ i + spent + L <= n => s[i] < b.resetAt - 2 * Window
             /\ i + 2 * L <= n => s[i + 2 * L] > s[i] + Window
    BY <1>1 DEF HistoryFits
  <2>5. b.resetAt \in Nat
    BY <1>1 DEF Buckets
  <2> DEFINE z == Append(s, now)
  <2>6. ASSUME NEW i \in 1 .. n + 1
        PROVE  /\ z[i] <= now
               /\ z[i] < now + Window
               /\ i + 1 > n + 1 => z[i] >= (now + Window) - Window
               /\ i + 1 <= n + 1 => z[i] < (now + Window) - Window
               /\ i + 1 + L <= n + 1 => z[i] < (now + Window) - 2 * Window
               /\ i + 2 * L <= n + 1 => z[i + 2 * L] > z[i] + Window
    <3> HIDE DEF z, n, b, L, s, spent
    <3>0. z[n + 1] = now /\ \A h \in 1 .. n : z[h] = s[h] /\ s[h] \in Nat
      BY <1>3 DEF z, n, s
    <3>1. CASE i = n + 1
      BY <3>0, <3>1, <1>1
    <3>2. CASE i \in 1 .. n
      <4>1. z[i] = s[i] /\ s[i] \in Nat /\ s[i] < b.resetAt
        BY <3>0, <3>2, <2>4
      <4>2. i + L <= n => s[i] < b.resetAt - Window
        BY <3>2, <2>3, <2>4, <1>1
      <4>3. ASSUME i + 2 * L = n + 1 PROVE z[i + 2 * L] > z[i] + Window
        <5>1. s[i] < b.resetAt - Window
          BY <4>2, <4>3, <1>1, <3>2
        <5>2. z[i + 2 * L] = now
          BY <4>3, <3>0
        <5> QED BY <5>1, <5>2, <4>1, <1>1, <1>7, <2>5
      <4>4. ASSUME i + 2 * L <= n PROVE z[i + 2 * L] > z[i] + Window
        <5>1. i + 2 * L \in 1 .. n
          BY <4>4, <3>2, <1>1
        <5>2. s[i + 2 * L] > s[i] + Window
          BY <4>4, <3>2, <2>4
        <5> QED BY <5>1, <5>2, <4>1, <3>0
      <4>5. i + 2 * L <= n + 1 => i + 2 * L <= n \/ i + 2 * L = n + 1
        BY <3>2, <1>1
      <4> QED BY <4>1, <4>2, <4>3, <4>4, <4>5, <1>1, <1>7, <2>5, <3>2
    <3> QED BY <3>1, <3>2, <1>1
  <2>7. HistoryFits(f, c)'
    <3>1. 1 <= n + 1 /\ buckets'[k].count # 0
      BY <1>1, <2>1
    <3> QED BY <1>2, <1>3, <2>1, <2>2, <2>6, <3>1 DEF HistoryFits
  <2> QED BY <2>7, <1>4, <1>5
<1> QED BY <1>1, <1>6, <1>7 DEF Buckets
LEMMA RefusedKeeps ==
  ASSUME RLInv, NEW f \in Families, NEW c \in Clients, Refused(f, c), now' = now
  PROVE  /\ HistoryFits(f, c)'
         /\ PromiseFits(Key(f, c))'
         /\ EntryFits(Key(f, c))'
         /\ buckets[Key(f, c)].resetAt > now
         /\ buckets[Key(f, c)].count >= Limit[f]
<1> DEFINE k == Key(f, c)
           b == buckets[k]
           L == Limit[f]
<1>1. /\ k \in Keys /\ buckets \in [Keys -> Buckets] /\ b \in Buckets
      /\ now \in Nat /\ L \in Nat \ {0} /\ Window \in Nat \ {0}
      /\ HistoryFits(f, c) /\ EntryFits(k)
  BY KeyTypes, WindowType, BudgetAssumption DEF RLInv, TypeOK
<1>2. /\ buckets'[k] = Counted(buckets, k) /\ ~(Counted(buckets, k).count <= L)
      /\ admitted'[k] = admitted[k]
      /\ promised'[k] = now + RetryAfter(buckets, k) * Second
  BY DEF Refused, Allowed
<1>3. b.count \in Nat /\ b.resetAt \in Nat
  BY <1>1 DEF Buckets
<1>4. b.resetAt > now
  <2>1. CASE b.resetAt <= now
    <3>1. Counted(buckets, k).count = 1
      BY <1>1, <2>1, CountedType
    <3> QED BY <3>1, <1>1, <1>2
  <2> QED BY <2>1, <1>1, <1>3
<1>5. /\ buckets'[k].count = b.count + 1 /\ buckets'[k].resetAt = b.resetAt
      /\ b.count >= L
  <2>1. Counted(buckets, k).count = b.count + 1 /\ Counted(buckets, k).resetAt = b.resetAt
    BY <1>1, <1>4, CountedType
  <2> QED BY <2>1, <1>1, <1>2, <1>3
<1>6. Cap(buckets'[k].count, L) = Cap(b.count, L) /\ buckets'[k].count # 0
  BY <1>1, <1>3, <1>5 DEF Cap
<1>7. HistoryFits(f, c)'
  BY <1>1, <1>2, <1>5, <1>6 DEF HistoryFits
<1>8. EntryFits(k)'
  BY <1>1, <1>5, <1>6 DEF EntryFits
<1>9. PromiseFits(k)'
  BY <1>1, <1>2, RetryOutlasts DEF PromiseFits
<1> QED BY <1>4, <1>5, <1>7, <1>8, <1>9

LEMMA KeptKeeps ==
  ASSUME RLInv, NEW k \in Keys, Kept(k), now' \in Nat, now' >= now
  PROVE  /\ EntryFits(k)'
         /\ \A f \in Families, c \in Clients : k = Key(f, c) =>
              HistoryFits(f, c)' /\ PromiseFits(Key(f, c))'
<1>1. /\ buckets[k] \in Buckets /\ now \in Nat /\ Window \in Nat
      /\ admitted[k] \in Seq(Nat) /\ EntryFits(k)
  BY WindowType DEF RLInv, TypeOK
<1>2. EntryFits(k)'
  BY <1>1 DEF EntryFits, Kept, Buckets
<1>3. ASSUME NEW f \in Families, NEW c \in Clients, k = Key(f, c)
      PROVE  HistoryFits(f, c)' /\ PromiseFits(Key(f, c))'
  <2>1. HistoryFits(f, c) /\ PromiseFits(k)
    BY <1>3 DEF RLInv
  <2>2. PromiseFits(k)'
    BY <2>1 DEF PromiseFits, Kept
  <2>3. ASSUME NEW i \in 1 .. Len(admitted[k]) PROVE admitted[k][i] <= now => admitted[k][i] <= now'
    BY <1>1
  <2>4. HistoryFits(f, c)'
    BY <2>1, <2>3, <1>3 DEF HistoryFits, Kept
  <2> QED BY <2>2, <2>4, <1>3
<1> QED BY <1>2, <1>3

LEMMA ForgottenKeeps ==
  ASSUME NEW k \in Keys, Forgotten(k), now' \in Nat
  PROVE  /\ EntryFits(k)'
         /\ \A f \in Families, c \in Clients : k = Key(f, c) =>
              HistoryFits(f, c)' /\ PromiseFits(Key(f, c))'
<1>1. buckets'[k].count = 0 /\ buckets'[k].resetAt = 0 /\ buckets'[k] = NoBucket
      /\ admitted'[k] = <<>> /\ Len(admitted'[k]) = 0
  BY DEF Forgotten, NoBucket
<1>2. EntryFits(k)'
  <2>1. buckets'[k].resetAt <= now' + Window
    <3>1. 0 <= now' + Window
      BY WindowEnds
    <3> QED BY <1>1, <3>1
  <2> QED BY <1>1, <2>1 DEF EntryFits
<1>3. ASSUME NEW f \in Families, NEW c \in Clients, k = Key(f, c)
      PROVE  HistoryFits(f, c)' /\ PromiseFits(Key(f, c))'
  <2>1. Limit[f] \in Nat \ {0} /\ Cap(0, Limit[f]) = 0
    BY BudgetAssumption DEF Cap
  <2>2. PromiseFits(k)'
    BY <1>1 DEF PromiseFits
  <2>3. HistoryFits(f, c)'
    BY <1>1, <1>3, <2>1 DEF HistoryFits
  <2> QED BY <2>2, <2>3, <1>3
<1> QED BY <1>2, <1>3
-------------------------------------------------------------------------------
\* The invariant.

LEMMA RLInit == Init => RLInv
<1> SUFFICES ASSUME Init PROVE RLInv
  OBVIOUS
<1>1. Window \in Nat \ {0}
  BY WindowType
<1>2. TypeOK
  BY <1>1, KeyTypes DEF Init, TypeOK, NoBucket, Buckets
<1>3. \A k \in Keys : buckets[k] = NoBucket /\ admitted[k] = <<>> /\ promised[k] = 0
  BY DEF Init
<1>4. Tracked(buckets) = {}
  BY <1>3 DEF Tracked, NoBucket
<1>5. TrackedKeysAreBounded
  BY <1>4, FS_EmptySet, BudgetAssumption DEF TrackedKeysAreBounded
<1>6. \A k \in Keys : EntryFits(k)
  BY <1>1, <1>2, <1>3 DEF EntryFits, NoBucket, TypeOK
<1>7. ASSUME NEW f \in Families, NEW c \in Clients
      PROVE  HistoryFits(f, c) /\ PromiseFits(Key(f, c))
  <2>1. Limit[f] \in Nat \ {0} /\ Cap(0, Limit[f]) = 0 /\ Key(f, c) \in Keys
    BY BudgetAssumption, KeyTypes DEF Cap
  <2> QED BY <1>3, <2>1 DEF HistoryFits, PromiseFits, NoBucket
<1>8. \A c \in Clients : EvidenceFits(c)
  BY <1>3, KeyTypes DEF EvidenceFits, NoBucket
<1> QED BY <1>2, <1>5, <1>6, <1>7, <1>8 DEF RLInv

\* A request of one key: its own case is given, the others kept or forgotten.
LEMMA RequestKeeps ==
  ASSUME RLInv, NEW f \in Families, NEW c \in Clients, now' = now,
         Passed(f, c) \/ Refused(f, c),
         \A j \in Keys \ {Key(f, c)} : Kept(j) \/ Forgotten(j)
  PROVE  /\ \A k \in Keys : EntryFits(k)'
         /\ \A g \in Families, d \in Clients : HistoryFits(g, d)' /\ PromiseFits(Key(g, d))'
<1>1. now \in Nat /\ now' \in Nat /\ now' >= now
  BY DEF RLInv, TypeOK
<1>2. HistoryFits(f, c)' /\ PromiseFits(Key(f, c))' /\ EntryFits(Key(f, c))'
  BY PassedKeeps, RefusedKeeps
<1>3. ASSUME NEW j \in Keys \ {Key(f, c)}
      PROVE  /\ EntryFits(j)'
             /\ \A g \in Families, d \in Clients : j = Key(g, d) =>
                  HistoryFits(g, d)' /\ PromiseFits(Key(g, d))'
  <2>1. CASE Kept(j)
    BY <1>1, <2>1, KeptKeeps
  <2>2. CASE Forgotten(j)
    BY <1>1, <2>2, ForgottenKeeps
  <2> QED BY <2>1, <2>2
<1>4. ASSUME NEW g \in Families, NEW d \in Clients
      PROVE  HistoryFits(g, d)' /\ PromiseFits(Key(g, d))'
  <2>1. CASE Key(g, d) = Key(f, c)
    <3>1. g = f /\ d = c
      BY <2>1, KeyTypes
    <3> QED BY <3>1, <1>2
  <2>2. CASE Key(g, d) # Key(f, c)
    <3>1. Key(g, d) \in Keys \ {Key(f, c)}
      BY <2>2, KeyTypes
    <3> QED BY <3>1, <1>3
  <2> QED BY <2>1, <2>2
<1> QED BY <1>2, <1>3, <1>4

\* The same when only the keys' own cases are known.
LEMMA KeysKeep ==
  ASSUME RLInv, now' \in Nat, now' >= now,
         \A j \in Keys : Kept(j) \/ Forgotten(j)
  PROVE  /\ \A k \in Keys : EntryFits(k)'
         /\ \A g \in Families, d \in Clients : HistoryFits(g, d)' /\ PromiseFits(Key(g, d))'
<1>1. ASSUME NEW j \in Keys
      PROVE  /\ EntryFits(j)'
             /\ \A g \in Families, d \in Clients : j = Key(g, d) =>
                  HistoryFits(g, d)' /\ PromiseFits(Key(g, d))'
  <2>1. CASE Kept(j)
    BY <2>1, KeptKeeps
  <2>2. CASE Forgotten(j)
    BY <2>2, ForgottenKeeps
  <2> QED BY <2>1, <2>2
<1> QED BY <1>1, KeyTypes

\* The sampling counters of other clients lose nothing but their entries.
LEMMA EvidenceStays ==
  ASSUME NEW c \in Clients, EvidenceFits(c), audited'[c] = audited[c],
         Kept(Denied(c)) \/ Forgotten(Denied(c))
  PROVE  EvidenceFits(c)'
BY DEF EvidenceFits, Kept, Forgotten, NoBucket

LEMMA RequestTypes ==
  ASSUME TypeOK, Next
  PROVE  /\ now' \in Nat /\ now' >= now
         /\ served' \in Nat /\ answer' \in Answers
         /\ promised' \in [Keys -> Nat]
         /\ admitted' \in [Keys -> Seq(Nat)]
<1>1. /\ now \in Nat /\ served \in Nat /\ answer \in Answers
      /\ promised \in [Keys -> Nat] /\ admitted \in [Keys -> Seq(Nat)]
      /\ buckets \in [Keys -> Buckets] /\ "admin" \in Families
  BY BudgetAssumption DEF TypeOK
<1>2. ASSUME NEW k \in Keys, Admit(k)
      PROVE  promised' \in [Keys -> Nat] /\ admitted' \in [Keys -> Seq(Nat)]
  BY <1>1, <1>2 DEF Admit
<1>3. ASSUME NEW f \in Families, NEW c \in Clients, NEW v \in Verdicts, NEW a \in BOOLEAN,
             Answer(f, c, v, a)
      PROVE  now' = now /\ served' \in Nat /\ answer' \in Answers
  BY <1>1, <1>3 DEF Answer, Answers
<1>4. ASSUME NEW f \in Families, NEW c \in Clients, Refuse(f, c)
      PROVE  /\ now' \in Nat /\ now' >= now
             /\ served' \in Nat /\ answer' \in Answers
             /\ promised' \in [Keys -> Nat]
             /\ admitted' \in [Keys -> Seq(Nat)]
  <2>1. now' = now /\ served' \in Nat /\ answer' \in Answers
    BY <1>3, <1>4 DEF Refuse, Verdicts
  <2> DEFINE wait == RetryAfter(buckets, Key(f, c)) * Second
  <2>2. wait \in Nat
    BY <1>1, KeyTypes, RetryOutlasts
  <2>3. promised' = [promised EXCEPT ![Key(f, c)] = now + wait] /\ admitted' = admitted
    BY <1>4 DEF Refuse
  <2> HIDE DEF wait
  <2>4. now + wait \in Nat
    BY <1>1, <2>2
  <2>5. promised' \in [Keys -> Nat]
    BY <1>1, <2>3, <2>4
  <2>6. now' \in Nat /\ now' >= now /\ admitted' \in [Keys -> Seq(Nat)]
    BY <1>1, <2>1, <2>3
  <2> QED BY <2>1, <2>5, <2>6
<1>5. ASSUME NEW f \in Families, NEW c \in Clients, Pass(f, c)
      PROVE  /\ now' \in Nat /\ now' >= now
             /\ served' \in Nat /\ answer' \in Answers
             /\ promised' \in [Keys -> Nat]
             /\ admitted' \in [Keys -> Seq(Nat)]
  <2>1. now' = now /\ served' \in Nat /\ answer' \in Answers
    BY <1>3, <1>5 DEF Pass, Verdicts
  <2> QED BY <1>1, <1>2, <1>5, <2>1, KeyTypes DEF Pass
<1>6. ASSUME NEW c \in Clients, Deny(c)
      PROVE  /\ now' \in Nat /\ now' >= now
             /\ served' \in Nat /\ answer' \in Answers
             /\ promised' \in [Keys -> Nat]
             /\ admitted' \in [Keys -> Seq(Nat)]
  <2>1. PICK a \in BOOLEAN : Answer("admin", c, "denied", a)
    <3>1. PICK charged \in Stored(buckets, Key("admin", c)) :
            Answer("admin", c, "denied", IsSampled(charged, c))
      BY <1>6 DEF Deny
    <3>2. IsSampled(charged, c) \in BOOLEAN
      BY DEF IsSampled
    <3> QED BY <3>1, <3>2
  <2>2. now' = now /\ served' \in Nat /\ answer' \in Answers
    BY <1>1, <1>3, <2>1 DEF Verdicts
  <2> QED BY <1>1, <1>2, <1>6, <2>2, KeyTypes DEF Deny
<1>7. CASE Recycle
  BY <1>1, <1>7 DEF Recycle
<1>8. CASE Tick
  BY <1>1, <1>8 DEF Tick
<1> QED BY <1>4, <1>5, <1>6, <1>7, <1>8 DEF Next

LEMMA RLStep == RLInv /\ [Next]_vars => RLInv'
<1> SUFFICES ASSUME RLInv, [Next]_vars PROVE RLInv'
  OBVIOUS
<1>1. CASE UNCHANGED vars
  BY <1>1 DEF vars, RLInv, TypeOK, TrackedKeysAreBounded, EntryFits, HistoryFits, PromiseFits,
              EvidenceFits, Tracked
<1>2. CASE Next
  <2>0. /\ now' \in Nat /\ now' >= now
        /\ served' \in Nat /\ answer' \in Answers
        /\ promised' \in [Keys -> Nat]
        /\ admitted' \in [Keys -> Seq(Nat)]
    BY <1>2, RequestTypes DEF RLInv
  <2>1. ASSUME NEW f \in Families, NEW c \in Clients, Refuse(f, c) \/ Pass(f, c)
        PROVE  RLInv'
    <3>1. /\ Passed(f, c) \/ Refused(f, c)
          /\ \A j \in Keys \ {Key(f, c)} : Kept(j) \/ Forgotten(j)
          /\ buckets' \in [Keys -> Buckets]
          /\ Cardinality(Tracked(buckets')) <= MaxTrackedKeys
          /\ now' = now /\ audited' = audited
      BY <2>1, RefuseMoves, PassMoves
    <3>2. TypeOK' /\ TrackedKeysAreBounded'
      BY <2>0, <3>1 DEF TypeOK, TrackedKeysAreBounded, RLInv, Tracked
    <3>3. /\ \A k \in Keys : EntryFits(k)'
          /\ \A g \in Families, d \in Clients : HistoryFits(g, d)' /\ PromiseFits(Key(g, d))'
      BY <3>1, RequestKeeps
    <3>4. \A d \in Clients : EvidenceFits(d)'
      BY <3>1, EvidenceStays, KeyTypes DEF RLInv
    <3> QED BY <3>2, <3>3, <3>4 DEF RLInv
  <2>2. ASSUME NEW c \in Clients, Deny(c)
        PROVE  RLInv'
    <3> DEFINE k == Key("admin", c)
    <3>0. "admin" \in Families /\ k \in Keys /\ Denied(c) \in Keys /\ k # Denied(c)
      BY KeyTypes, BudgetAssumption
    <3>1. /\ Passed("admin", c) \/ (Forgotten(k) /\ promised'[k] = 0)
          /\ CountedDenial(c)
          /\ \A b \in Clients \ {c} : audited'[b] = audited[b]
          /\ \A j \in Keys \ {k, Denied(c)} : Kept(j) \/ Forgotten(j)
          /\ buckets' \in [Keys -> Buckets] /\ audited' \in [Clients -> Nat]
          /\ Cardinality(Tracked(buckets')) <= MaxTrackedKeys
          /\ now' = now
      BY <2>2, DenyMoves
    <3>2. TypeOK' /\ TrackedKeysAreBounded'
      BY <2>0, <3>1 DEF TypeOK, TrackedKeysAreBounded, RLInv, Tracked
    <3>3. EntryFits(Denied(c))'
      <4>1. buckets'[Denied(c)] \in Buckets
        BY <3>0, <3>1
      <4> QED BY <3>1, <4>1 DEF EntryFits, CountedDenial, Buckets
    <3>4. EntryFits(k)' /\ HistoryFits("admin", c)' /\ PromiseFits(k)'
      BY <2>0, <3>0, <3>1, PassedKeeps, ForgottenKeeps
    <3>5. ASSUME NEW j \in Keys \ {k, Denied(c)}
          PROVE  /\ EntryFits(j)'
                 /\ \A g \in Families, d \in Clients : j = Key(g, d) =>
                      HistoryFits(g, d)' /\ PromiseFits(Key(g, d))'
      <4>1. CASE Kept(j)
        BY <2>0, <4>1, KeptKeeps
      <4>2. CASE Forgotten(j)
        BY <2>0, <4>2, ForgottenKeeps
      <4> QED BY <3>1, <4>1, <4>2
    <3>6. \A j \in Keys : EntryFits(j)'
      BY <3>3, <3>4, <3>5
    <3>7. ASSUME NEW g \in Families, NEW d \in Clients
          PROVE  HistoryFits(g, d)' /\ PromiseFits(Key(g, d))'
      <4>1. CASE Key(g, d) = k
        <5>1. g = "admin" /\ d = c
          BY <3>0, <4>1, KeyTypes
        <5> QED BY <5>1, <3>4
      <4>2. CASE Key(g, d) # k
        <5>1. Key(g, d) \in Keys \ {k, Denied(c)}
          BY <4>2, KeyTypes
        <5> QED BY <5>1, <3>5
      <4> QED BY <4>1, <4>2
    <3>8. EvidenceFits(c)'
      <4>1. /\ EvidenceFits(c) /\ now \in Nat /\ Window \in Nat
            /\ audited[c] \in Nat /\ buckets[Denied(c)] \in Buckets
            /\ buckets'[Denied(c)] \in Buckets
        BY <3>0, <3>1, WindowType DEF RLInv, TypeOK
      <4> QED BY <3>1, <4>1 DEF EvidenceFits, CountedDenial, Buckets
    <3>9. ASSUME NEW d \in Clients \ {c} PROVE EvidenceFits(d)'
      <4>1. Denied(d) \in Keys \ {k, Denied(c)}
        BY <3>0, KeyTypes
      <4> QED BY <3>1, <4>1, EvidenceStays DEF RLInv
    <3> QED BY <3>2, <3>6, <3>7, <3>8, <3>9 DEF RLInv
  <2>3. CASE Recycle
    <3>1. \A j \in Keys : Forgotten(j)
      BY <2>3 DEF Recycle, Forgotten
    <3>2. /\ \A k \in Keys : EntryFits(k)'
          /\ \A g \in Families, d \in Clients : HistoryFits(g, d)' /\ PromiseFits(Key(g, d))'
      BY <2>0, <3>1, KeysKeep
    <3>3. buckets' \in [Keys -> Buckets] /\ Tracked(buckets') = {}
      BY <2>3 DEF Recycle, Tracked, NoBucket, Buckets
    <3>4. TypeOK' /\ TrackedKeysAreBounded'
      <4>1. Cardinality(Tracked(buckets')) <= MaxTrackedKeys
        BY <3>3, FS_EmptySet, BudgetAssumption
      <4>2. audited' = audited
        BY <2>3 DEF Recycle
      <4> QED BY <2>0, <3>3, <4>1, <4>2 DEF TypeOK, TrackedKeysAreBounded, RLInv, Tracked
    <3>5. \A d \in Clients : EvidenceFits(d)'
      BY <2>3, <3>1, EvidenceStays, KeyTypes DEF RLInv, Recycle
    <3> QED BY <3>2, <3>4, <3>5 DEF RLInv
  <2>4. CASE Tick
    <3>1. \A j \in Keys : Kept(j)
      BY <2>4 DEF Tick, Kept
    <3>2. /\ \A k \in Keys : EntryFits(k)'
          /\ \A g \in Families, d \in Clients : HistoryFits(g, d)' /\ PromiseFits(Key(g, d))'
      BY <2>0, <3>1, KeysKeep
    <3>3. TypeOK' /\ TrackedKeysAreBounded'
      BY <2>0, <2>4 DEF Tick, TypeOK, TrackedKeysAreBounded, RLInv, Tracked
    <3>4. \A d \in Clients : EvidenceFits(d)'
      BY <2>4, <3>1, EvidenceStays, KeyTypes DEF RLInv, Tick
    <3> QED BY <3>2, <3>3, <3>4 DEF RLInv
  <2> QED BY <1>2, <2>1, <2>2, <2>3, <2>4 DEF Next
<1> QED BY <1>1, <1>2

LEMMA RLInvariant == Spec => []RLInv
BY RLInit, RLStep, PTL DEF Spec
-------------------------------------------------------------------------------
\* The theorems.

\* Every variable of the limiter keeps its type (server/rateLimit.ts,
\* consume and shouldAuditDenied).
THEOREM LimiterTypes == Spec => []TypeOK
<1>1. RLInv => TypeOK
  BY DEF RLInv
<1> QED BY <1>1, RLInvariant, PTL

\* Whatever the requests, their order and their times, a client never gets
\* more than two budgets through within a window's length (consume).
THEOREM TwoBudgets == Spec => []AtMostTwoBudgets
<1>1. RLInv => AtMostTwoBudgets
  BY DEF RLInv, HistoryFits, AtMostTwoBudgets
<1> QED BY <1>1, RLInvariant, PTL

\* The map never holds more keys than its cap (evictOldest).
THEOREM BoundedKeys == Spec => []TrackedKeysAreBounded
<1>1. RLInv => TrackedKeysAreBounded
  BY DEF RLInv
<1> QED BY <1>1, RLInvariant, PTL

\* peek and consume decide alike.
THEOREM Foretelling == Spec => []PeekForetellsConsume
<1>1. ASSUME RLInv, NEW f \in Families, NEW c \in Clients
      PROVE  PeekAllowed(buckets, f, c) <=> Allowed(buckets, f, c)
  <2> DEFINE b == buckets[Key(f, c)]
  <2>1. /\ b \in Buckets /\ b.count \in Nat /\ b.resetAt \in Nat /\ now \in Nat
        /\ Limit[f] \in Nat \ {0} /\ buckets \in [Keys -> Buckets] /\ Key(f, c) \in Keys
        /\ (b.count = 0 => b = NoBucket)
    BY <1>1, KeyTypes, BudgetAssumption DEF RLInv, TypeOK, EntryFits, Buckets
  <2>2. CASE b.resetAt > now
    <3>1. b.count # 0 /\ Counted(buckets, Key(f, c)).count = b.count + 1
      BY <2>1, <2>2, CountedType DEF NoBucket
    <3> QED BY <2>1, <2>2, <3>1 DEF PeekAllowed, Allowed
  <2>3. CASE b.resetAt <= now
    <3>1. Counted(buckets, Key(f, c)).count = 1
      BY <2>1, <2>3, CountedType
    <3> QED BY <2>1, <2>3, <3>1 DEF PeekAllowed, Allowed
  <2> QED BY <2>1, <2>2, <2>3
<1>2. RLInv => PeekForetellsConsume
  BY <1>1 DEF PeekForetellsConsume
<1> QED BY <1>2, RLInvariant, PTL

\* Which step gave an answer, and which client it was for.
LEMMA AnswerOf ==
  ASSUME RLInv, Next, served' # served
  PROVE  \/ \E f \in Families, c \in Clients :
              Refuse(f, c) /\ answer'.family = f /\ answer'.client = c /\ answer'.verdict = "refused"
         \/ \E f \in Families, c \in Clients : Pass(f, c) /\ answer'.verdict = "passed"
         \/ \E c \in Clients : Deny(c) /\ answer'.client = c /\ answer'.verdict = "denied"
<1>1. ASSUME NEW f \in Families, NEW c \in Clients, Refuse(f, c)
      PROVE  answer'.family = f /\ answer'.client = c /\ answer'.verdict = "refused"
  BY <1>1 DEF Refuse, Answer
<1>2. ASSUME NEW f \in Families, NEW c \in Clients, Pass(f, c) PROVE answer'.verdict = "passed"
  BY <1>2 DEF Pass, Answer
<1>3. ASSUME NEW c \in Clients, Deny(c)
      PROVE  answer'.client = c /\ answer'.verdict = "denied"
  BY <1>3, DenyMoves
<1> QED BY <1>1, <1>2, <1>3 DEF Next, Recycle, Tick

LEMMA RefusalFacts ==
  ASSUME RLInv, [Next]_vars, NEW f \in Families, NEW c \in Clients, Answered(f, c, "refused")
  PROVE  /\ Len(admitted[Key(f, c)]) >= Limit[f]
         /\ admitted[Key(f, c)][Len(admitted[Key(f, c)]) - Limit[f] + 1] > now - Window
         /\ promised[Key(f, c)] > 0 => now < promised[Key(f, c)]
<1> DEFINE k == Key(f, c)
           s == admitted[k]
<1>1. Next /\ served' # served
  BY DEF Answered, vars
<1>2. Refuse(f, c)
  BY <1>1, AnswerOf DEF Answered
<1>3. Refused(f, c) /\ now' = now
  BY <1>2, RefuseMoves
<1>4. buckets[k].resetAt > now /\ buckets[k].count >= Limit[f]
  BY <1>3, RefusedKeeps
<1>5. /\ Limit[f] \in Nat \ {0} /\ s \in Seq(Nat) /\ Len(s) \in Nat /\ now \in Nat
      /\ buckets[k].count \in Nat /\ buckets[k].resetAt \in Nat /\ promised[k] \in Nat
      /\ Window \in Nat /\ HistoryFits(f, c) /\ PromiseFits(k)
  BY BudgetAssumption, KeyTypes, WindowType DEF RLInv, TypeOK, Buckets
<1>6. Cap(buckets[k].count, Limit[f]) = Limit[f]
  BY <1>4, <1>5 DEF Cap
<1>7. Limit[f] <= Len(s)
  BY <1>5, <1>6 DEF HistoryFits
<1>8. Len(s) - Limit[f] + 1 \in 1 .. Len(s)
  BY <1>5, <1>7
<1>9. ASSUME NEW i \in 1 .. Len(s), i + Limit[f] > Len(s) PROVE s[i] >= buckets[k].resetAt - Window
  BY <1>5, <1>6, <1>9 DEF HistoryFits
<1>10. s[Len(s) - Limit[f] + 1] >= buckets[k].resetAt - Window
  <2> DEFINE i == Len(s) - Limit[f] + 1
  <2>1. i \in 1 .. Len(s) /\ i + Limit[f] > Len(s)
    BY <1>5, <1>8
  <2> HIDE DEF i
  <2>2. s[i] >= buckets[k].resetAt - Window
    BY <1>9, <2>1
  <2> QED BY <2>2 DEF i
<1>11. s[Len(s) - Limit[f] + 1] \in Nat
  BY <1>5, <1>8
<1>12. promised[k] > 0 => now < promised[k]
  BY <1>4, <1>5 DEF PromiseFits
<1> DEFINE i == Len(s) - Limit[f] + 1
           reset == buckets[k].resetAt
<1>13. s[i] \in Nat /\ s[i] >= reset - Window /\ reset > now /\ reset \in Nat
  BY <1>4, <1>5, <1>10, <1>11
<1> HIDE DEF i, reset
<1>14. s[i] > now - Window
  BY <1>5, <1>13
<1> QED BY <1>7, <1>12, <1>14 DEF i

\* A 429 means that a whole budget of the client's own requests on that route
\* passed within the window before it: no other route, client or eviction
\* causes one (consume, the key's namespace).
THEOREM OwnBudget == Spec => NoUndueRefusal
<1>1. RLInv /\ [Next]_vars =>
        [\A f \in Families, c \in Clients : Answered(f, c, "refused") =>
           LET s == admitted[Key(f, c)]
           IN /\ Len(s) >= Limit[f]
              /\ s[Len(s) - Limit[f] + 1] > now - Window]_vars
  BY RefusalFacts
<1> QED BY <1>1, RLInvariant, PTL DEF Spec, NoUndueRefusal

\* A client that waits for Retry-After is not refused (consume).
THEOREM HonestRetry == Spec => RetryAfterIsHonest
<1>1. RLInv /\ [Next]_vars =>
        [\A f \in Families, c \in Clients :
           Answered(f, c, "refused") /\ promised[Key(f, c)] > 0
             => now < promised[Key(f, c)]]_vars
  BY RefusalFacts
<1> QED BY <1>1, RLInvariant, PTL DEF Spec, RetryAfterIsHonest

\* A denial without an audit row follows an audited one of the same client
\* within a window (shouldAuditDenied).
THEOREM Evidence == Spec => SilenceIsShort
<1>1. ASSUME RLInv, [Next]_vars, NEW c \in Clients,
             Answered("admin", c, "denied"), ~answer'.audit
      PROVE  audited[c] > now - Window
  <2>1. Next /\ served' # served
    BY <1>1 DEF Answered, vars
  <2>2. Deny(c)
    BY <1>1, <2>1, AnswerOf DEF Answered
  <2>3. buckets[Denied(c)].count > 0 /\ buckets[Denied(c)].resetAt > now
    BY <1>1, <2>2, DenyMoves DEF CountedDenial
  <2>4. /\ EvidenceFits(c) /\ audited[c] \in Nat /\ now \in Nat /\ Window \in Nat
        /\ buckets[Denied(c)] \in Buckets
    BY <1>1, KeyTypes, WindowType DEF RLInv, TypeOK
  <2> QED BY <2>3, <2>4 DEF EvidenceFits, Buckets
<1>2. RLInv /\ [Next]_vars =>
        [\A c \in Clients :
           Answered("admin", c, "denied") /\ ~answer'.audit => audited[c] > now - Window]_vars
  BY <1>1
<1> QED BY <1>2, RLInvariant, PTL DEF Spec, SilenceIsShort
\* Counting a request drops an open window only if all that remain are open.
LEMMA OpenWindowsLast ==
  ASSUME NEW bs \in [Keys -> Buckets], NEW k \in Keys, now \in Nat,
         \A j \in Keys : bs[j].count = 0 => bs[j] = NoBucket,
         Cardinality(Tracked(bs)) <= MaxTrackedKeys,
         NEW next \in Stored(bs, k),
         NEW v \in Keys, bs[v].resetAt > now, next[v].count = 0,
         NEW u \in Keys, next[u].count > 0
  PROVE  next[u].resetAt > now
<1>1. next[k] = Counted(bs, k) /\ next[k].count > 0 /\ next[k].resetAt > now
      /\ next \in [Keys -> Buckets]
  BY StoredFacts, CountedType
<1>2. v # k /\ bs[v].count # 0
  BY <1>1 DEF NoBucket, Buckets
<1>3. \A w \in Keys : bs[w].count > 0 => bs[v].resetAt <= bs[w].resetAt
  <2>1. next[v] # bs[v]
    BY <1>2
  <2>2. \A x \in Keys \ {k} : next[x] # bs[x] =>
          \A w \in Keys : bs[w].count > 0 => bs[x].resetAt <= bs[w].resetAt
    BY StoredFacts
  <2> QED BY <1>2, <2>1, <2>2
<1>4. CASE u # k
  <2>1. next[u] = bs[u] \/ next[u] = NoBucket
    BY <1>4, StoredFacts
  <2>2. next[u] = bs[u]
    BY <2>1 DEF NoBucket
  <2>3. bs[v].resetAt <= bs[u].resetAt
    BY <1>3, <2>2
  <2> QED BY <2>2, <2>3 DEF Buckets
<1> QED BY <1>1, <1>4

\* An eviction lifts no budget in use while it could drop one that has
\* expired (evictOldest).
THEOREM GentleEviction == Spec => EvictionSparesOpenWindows
<1>1. ASSUME RLInv, [Next]_vars, served' # served,
             NEW v \in Keys, buckets[v].resetAt > now, buckets'[v].count = 0,
             NEW u \in Keys, buckets'[u].count > 0
      PROVE  buckets'[u].resetAt > now
  <2>1. /\ buckets \in [Keys -> Buckets] /\ now \in Nat
        /\ Cardinality(Tracked(buckets)) <= MaxTrackedKeys
        /\ \A j \in Keys : buckets[j].count = 0 => buckets[j] = NoBucket
    BY <1>1 DEF RLInv, TypeOK, TrackedKeysAreBounded, EntryFits
  <2>2. ASSUME NEW f \in Families, NEW c \in Clients, Refuse(f, c) \/ Pass(f, c)
        PROVE  buckets'[u].resetAt > now
    <3>1. buckets' \in Stored(buckets, Key(f, c))
      BY <2>2 DEF Refuse, Pass
    <3> QED BY <1>1, <2>1, <3>1, KeyTypes, OpenWindowsLast
  <2>3. ASSUME NEW c \in Clients, Deny(c)
        PROVE  buckets'[u].resetAt > now
    <3> DEFINE k == Key("admin", c)
               d == Denied(c)
    <3>0. k \in Keys /\ d \in Keys
      BY KeyTypes, BudgetAssumption
    <3>1. PICK charged \in Stored(buckets, k) : buckets' \in Stored(charged, d)
      BY <2>3 DEF Deny
    <3>2. /\ charged \in [Keys -> Buckets]
          /\ charged[k] = Counted(buckets, k) /\ charged[k].count > 0 /\ charged[k].resetAt > now
          /\ \A j \in Keys \ {k} : charged[j] = buckets[j] \/ charged[j] = NoBucket
          /\ Cardinality(Tracked(charged)) <= MaxTrackedKeys
      BY <2>1, <3>0, <3>1, StoredFacts, CountedType
    <3>3. \A j \in Keys : charged[j].count = 0 => charged[j] = NoBucket
      <4>1. charged[k].count # 0
        BY <3>0, <3>2 DEF Buckets
      <4> QED BY <2>1, <3>2, <4>1
    <3>4. /\ buckets'[d] = Counted(charged, d) /\ buckets'[d].count > 0 /\ buckets'[d].resetAt > now
          /\ \A j \in Keys \ {d} : buckets'[j] = charged[j] \/ buckets'[j] = NoBucket
      BY <2>1, <3>0, <3>1, <3>2, StoredFacts, CountedType
    <3>5. CASE charged[v].count = 0
      <4>1. \A w \in Keys : charged[w].count > 0 => charged[w].resetAt > now
        BY <1>1, <2>1, <3>0, <3>1, <3>5, OpenWindowsLast
      <4>2. u # d => buckets'[u] = charged[u]
        BY <1>1, <3>4 DEF NoBucket
      <4> QED BY <1>1, <3>4, <4>1, <4>2
    <3>6. CASE charged[v].count # 0
      <4>1. charged[v].resetAt > now
        BY <1>1, <3>2, <3>6 DEF NoBucket
      <4> QED BY <1>1, <2>1, <3>0, <3>1, <3>2, <3>3, <4>1, OpenWindowsLast
    <3> QED BY <3>5, <3>6
  <2> QED BY <1>1, <2>2, <2>3, AnswerOf DEF vars
<1>2. RLInv /\ [Next]_vars =>
        [served' # served =>
           \A v \in Keys :
             buckets[v].resetAt > now /\ buckets'[v].count = 0 =>
               \A u \in Keys : buckets'[u].count > 0 => buckets'[u].resetAt > now]_vars
  BY <1>1
<1> QED BY <1>2, RLInvariant, PTL DEF Spec, EvictionSparesOpenWindows

\* What a client may spend, what the limiter stores, and what peek says of it.
THEOREM KeptBounds == Spec => []BoundsAreKept
<1>1. AtMostTwoBudgets /\ TrackedKeysAreBounded /\ PeekForetellsConsume => BoundsAreKept
  BY DEF BoundsAreKept
<1> QED BY <1>1, TwoBudgets, BoundedKeys, Foretelling, PTL

\* A refusal is deserved, and ends when it says.
THEOREM HonestRefusals == Spec => RefusalsAreHonest
BY OwnBudget, HonestRetry DEF RefusalsAreHonest

\* A full map hides no client for long and frees none early.
THEOREM HarmlessEviction == Spec => EvictionIsHarmless
BY Evidence, GentleEviction DEF EvictionIsHarmless

-------------------------------------------------------------------------------
\* Product analytics: the queues.

TabState == [queue : Seq(Queued), available : {"unknown", "yes", "no"},
             probe : {"none", "pending", "answered"},
             flush : [Flushes -> {"idle", "probe", "send"}], hidden : BOOLEAN, open : BOOLEAN]
PostType == [tab : Tabs, flush : {Unawaited} \cup Flushes, batch : Seq(Queued),
             phase : {"sent", "parsed"}, day : Days]

IdsOf(queue) == {queue[i].id : i \in 1 .. Len(queue)}
Rising(queue) == \A i, j \in 1 .. Len(queue) : i < j => queue[i].id < queue[j].id

\* A tab keeps at most the cap, oldest first, asks once and first, and holds
\* nothing where there is no API.
TabFits(s) ==
  /\ Len(s.queue) <= MaxQueue /\ Rising(s.queue)
  /\ s.available = "yes" => s.probe = "answered"
  /\ s.available = "unknown" => /\ s.probe # "answered"
                                /\ s.queue # <<>> => s.probe = "pending"
  /\ s.available = "no" => /\ s.probe # "pending"
                           /\ s.probe = "none" => /\ s.queue = <<>>
                                                  /\ \A f \in Flushes : s.flush[f] = "idle"

BatchFits(p) == Len(p.batch) \in 1 .. ClientBatch /\ Rising(p.batch)

\* What is taken off a queue, and what stays there: all of it was in the queue,
\* nothing twice, and what leaves is older than what stays.
Takes(t, ids, s, posts) ==
  /\ IdsOf(s.queue) \subseteq ids
  /\ \A p \in posts : /\ p.tab = t /\ IdsOf(p.batch) \subseteq ids
                      /\ \A i \in IdsOf(p.batch), j \in IdsOf(s.queue) : i < j
  /\ \A p, q \in posts : p # q => IdsOf(p.batch) \cap IdsOf(q.batch) = {}

\* A tab in state old goes over to new and sends posts.
Sends(t, old, new, posts) ==
  /\ new \in TabState /\ TabFits(new)
  /\ posts \subseteq PostType /\ \A p \in posts : BatchFits(p) /\ p.phase = "sent"
  /\ posts # {} => new.available = "yes"
  /\ old.available = "yes" => new.available = "yes"
  /\ Takes(t, IdsOf(old.queue), new, posts)

\* Part of a queue is a queue, in the same order, of events of the queue.
LEMMA PartOf ==
  ASSUME NEW queue \in Seq(Queued), Rising(queue), NEW m \in Nat \ {0}, NEW n \in Nat, n <= Len(queue)
  PROVE  /\ SubSeq(queue, m, n) \in Seq(Queued) /\ Rising(SubSeq(queue, m, n))
         /\ Len(SubSeq(queue, m, n)) = IF m <= n THEN n - m + 1 ELSE 0
         /\ \A i \in IdsOf(SubSeq(queue, m, n)) : \E k \in m .. n : k \in 1 .. Len(queue) /\ i = queue[k].id
<1> DEFINE part == SubSeq(queue, m, n)
<1>1. \A i \in m .. n : i \in 1 .. Len(queue) /\ queue[i] \in Queued
  OBVIOUS
<1>2. /\ part \in Seq(Queued) /\ Len(part) = IF m <= n THEN n - m + 1 ELSE 0
      /\ \A i \in 1 .. n - m + 1 : part[i] = queue[m + i - 1]
  BY <1>1, SubSeqProperties
<1> HIDE DEF part
<1>3. \A i \in 1 .. Len(part) : m + i - 1 \in m .. n /\ part[i] = queue[m + i - 1]
  BY <1>2
<1>4. Rising(part)
  <2> SUFFICES ASSUME NEW i \in 1 .. Len(part), NEW j \in 1 .. Len(part), i < j
               PROVE  part[i].id < part[j].id
    BY DEF Rising
  <2>1. m + i - 1 < m + j - 1 /\ m + i - 1 \in 1 .. Len(queue) /\ m + j - 1 \in 1 .. Len(queue)
    BY <1>1, <1>3
  <2> QED BY <1>3, <2>1 DEF Rising
<1>5. \A i \in IdsOf(part) : \E k \in m .. n : k \in 1 .. Len(queue) /\ i = queue[k].id
  BY <1>1, <1>3 DEF IdsOf
<1> QED BY <1>2, <1>4, <1>5 DEF part

\* The events of a queue have ids.
LEMMA IdsOfType ==
  ASSUME NEW queue \in Seq(Queued)
  PROVE  IdsOf(queue) \subseteq Ids /\ IdsOf(queue) \subseteq Nat /\ (queue # <<>> => Len(queue) \in Nat \ {0})
<1>1. \A i \in 1 .. Len(queue) : queue[i].id \in Ids
  <2>1. \A i \in 1 .. Len(queue) : queue[i] \in Queued
    BY ElementOfSeq
  <2> QED BY <2>1 DEF Queued
<1>2. IdsOf(queue) \subseteq Ids
  BY <1>1 DEF IdsOf
<1>3. Ids \subseteq Nat
  BY BoundsAssumption DEF Ids
<1>4. queue # <<>> => Len(queue) \in Nat \ {0}
  BY EmptySeq
<1> QED BY <1>2, <1>3, <1>4

\* Consecutive batches: the n-th ends where what is left after n begins.
LEMMA Product ==
  ASSUME NEW c \in Nat, NEW n \in Nat \ {0}
  PROVE  (n - 1) * c \in Nat /\ n * c \in Nat /\ n * c = (n - 1) * c + c
OBVIOUS

\* Bounds of batches grow with their number.
LEMMA ProductGrows ==
  ASSUME NEW c \in Nat, NEW n \in Nat, NEW m \in Nat, n <= m
  PROVE  n * c \in Nat /\ m * c \in Nat /\ n * c <= m * c
<1>1. m - n \in Nat /\ m = n + (m - n)
  OBVIOUS
<1>2. m * c = n * c + (m - n) * c /\ n * c \in Nat /\ (m - n) * c \in Nat
  BY <1>1
<1> QED BY <1>2

\* A batch of the client has room, and fits a request of the server.
LEMMA BatchSize == ClientBatch \in Nat \ {0}
<1>1. MaxBatch \in Nat \ {0}
  BY StoreAssumption
<1>2. ClientBatch \in 1 .. MaxBatch
  BY AnalyticsAssumption
<1> QED BY <1>1, <1>2

\* The n-th batch off a queue holds what lies between its bounds.
LEMMA BatchAndRest ==
  ASSUME NEW queue \in Seq(Queued), Rising(queue), NEW n \in Nat \ {0}
  PROVE  /\ Batch(queue, n) \in Seq(Queued) /\ Rising(Batch(queue, n))
         /\ (n - 1) * ClientBatch < Len(queue) => Len(Batch(queue, n)) \in 1 .. ClientBatch
         /\ \A i \in IdsOf(Batch(queue, n)) :
              \E k \in 1 .. Len(queue) : /\ i = queue[k].id
                                         /\ (n - 1) * ClientBatch < k /\ k <= n * ClientBatch
<1>1. ClientBatch \in Nat \ {0}
  BY BatchSize
<1> DEFINE a == (n - 1) * ClientBatch
           b == n * ClientBatch
           e == Least(b, Len(queue))
<1>2. a \in Nat /\ b \in Nat /\ b = a + ClientBatch
  BY <1>1, Product
<1>3. Batch(queue, n) = SubSeq(queue, a + 1, e)
  BY DEF Batch
<1> HIDE DEF a, b
<1>4. e \in Nat /\ e <= Len(queue) /\ e <= b /\ (e = b \/ e = Len(queue)) /\ Len(queue) \in Nat
  BY <1>2 DEF Least
<1> HIDE DEF e
<1>5. a + 1 \in Nat \ {0}
  BY <1>2
<1> DEFINE part == SubSeq(queue, a + 1, e)
<1>6. /\ part \in Seq(Queued) /\ Rising(part)
      /\ Len(part) = IF a + 1 <= e THEN e - (a + 1) + 1 ELSE 0
      /\ \A i \in IdsOf(part) : \E k \in a + 1 .. e : k \in 1 .. Len(queue) /\ i = queue[k].id
  BY <1>4, <1>5, PartOf
<1> HIDE DEF part
<1>7. a < Len(queue) => Len(part) \in 1 .. ClientBatch
  BY <1>1, <1>2, <1>4, <1>6
<1>8. \A i \in IdsOf(part) : \E k \in 1 .. Len(queue) : i = queue[k].id /\ a < k /\ k <= b
  BY <1>2, <1>4, <1>6
<1> QED BY <1>3, <1>6, <1>7, <1>8 DEF part, a, b

\* What is left of a queue after n batches lies beyond them.
LEMMA LeftOver ==
  ASSUME NEW queue \in Seq(Queued), Rising(queue), NEW n \in Nat
  PROVE  /\ Left(queue, n) \in Seq(Queued) /\ Rising(Left(queue, n))
         /\ Len(Left(queue, n)) <= Len(queue)
         /\ \A i \in IdsOf(Left(queue, n)) :
              \E k \in 1 .. Len(queue) : i = queue[k].id /\ n * ClientBatch < k
<1>1. ClientBatch \in Nat \ {0}
  BY BatchSize
<1> DEFINE a == n * ClientBatch
<1>2. a \in Nat
  BY <1>1, ProductGrows
<1>3. Left(queue, n) = SubSeq(queue, a + 1, Len(queue))
  BY DEF Left
<1> HIDE DEF a
<1>4. Len(queue) \in Nat /\ a + 1 \in Nat \ {0}
  BY <1>2
<1> DEFINE part == SubSeq(queue, a + 1, Len(queue))
<1>5. /\ part \in Seq(Queued) /\ Rising(part)
      /\ Len(part) = IF a + 1 <= Len(queue) THEN Len(queue) - (a + 1) + 1 ELSE 0
      /\ \A i \in IdsOf(part) : \E k \in a + 1 .. Len(queue) : k \in 1 .. Len(queue) /\ i = queue[k].id
  BY <1>4, PartOf
<1> HIDE DEF part
<1>6. Len(part) <= Len(queue)
  BY <1>2, <1>4, <1>5
<1>7. \A i \in IdsOf(part) : \E k \in 1 .. Len(queue) : i = queue[k].id /\ a < k
  BY <1>2, <1>4, <1>5
<1> QED BY <1>3, <1>5, <1>6, <1>7 DEF part, a

\* Batches taken one after the other have nothing in common, and are older
\* than what is left.
LEMMA BatchesApart ==
  ASSUME NEW queue \in Seq(Queued), Rising(queue), NEW m \in Nat \ {0}, NEW n \in Nat \ {0}, m <= n
  PROVE  /\ \A i \in IdsOf(Batch(queue, m)), j \in IdsOf(Left(queue, n)) : i < j
         /\ m < n => IdsOf(Batch(queue, m)) \cap IdsOf(Batch(queue, n)) = {}
<1>1. ClientBatch \in Nat
  BY BatchSize
<1>2. m * ClientBatch \in Nat /\ n * ClientBatch \in Nat /\ m * ClientBatch <= n * ClientBatch
  BY <1>1, ProductGrows
<1>3. m < n => (n - 1) * ClientBatch \in Nat /\ m * ClientBatch <= (n - 1) * ClientBatch
  <2> SUFFICES ASSUME m < n PROVE (n - 1) * ClientBatch \in Nat /\ m * ClientBatch <= (n - 1) * ClientBatch
    OBVIOUS
  <2>1. n - 1 \in Nat /\ m <= n - 1
    OBVIOUS
  <2> QED BY <1>1, <2>1, ProductGrows
<1>4. \A k, l \in 1 .. Len(queue) : k < l => queue[k].id < queue[l].id
  BY DEF Rising
<1>5. \A k \in 1 .. Len(queue) : queue[k].id \in Nat
  BY IdsOfType DEF IdsOf
<1>6. ASSUME NEW i \in IdsOf(Batch(queue, m)), NEW j \in IdsOf(Left(queue, n)) PROVE i < j
  <2>1. PICK k \in 1 .. Len(queue) : i = queue[k].id /\ k <= m * ClientBatch
    BY BatchAndRest
  <2>2. PICK l \in 1 .. Len(queue) : j = queue[l].id /\ n * ClientBatch < l
    BY LeftOver
  <2>3. k < l
    BY <1>2, <2>1, <2>2
  <2> QED BY <1>4, <2>1, <2>2, <2>3
<1>7. ASSUME m < n, NEW i \in IdsOf(Batch(queue, m)), i \in IdsOf(Batch(queue, n)) PROVE FALSE
  <2>1. PICK k \in 1 .. Len(queue) : i = queue[k].id /\ k <= m * ClientBatch
    BY BatchAndRest
  <2>2. PICK l \in 1 .. Len(queue) : i = queue[l].id /\ (n - 1) * ClientBatch < l
    BY <1>7, BatchAndRest
  <2> DEFINE a == m * ClientBatch
             b == (n - 1) * ClientBatch
  <2>3. a \in Nat /\ b \in Nat /\ a <= b /\ k <= a /\ b < l
    BY <1>2, <1>3, <1>7, <2>1, <2>2
  <2> HIDE DEF a, b
  <2>4. k < l
    BY <2>3
  <2>5. queue[k].id < queue[l].id /\ queue[k].id \in Nat /\ queue[k].id = queue[l].id
    BY <1>4, <1>5, <2>1, <2>2, <2>4
  <2> QED BY <2>5
<1>8. m < n => IdsOf(Batch(queue, m)) \cap IdsOf(Batch(queue, n)) = {}
  BY <1>7
<1> QED BY <1>6, <1>8

\* The empty queue.
LEMMA NoIds == IdsOf(<<>>) = {} /\ Rising(<<>>) /\ <<>> \in Seq(Queued) /\ Len(<<>>) = 0
BY DEF IdsOf, Rising

\* What the assumptions say of the bounds.
LEMMA Caps == MaxQueue \in Nat \ {0} /\ ClientBatch \in Nat \ {0} /\ 0 \in Days /\ Unawaited \notin Flushes
BY BatchSize, AnalyticsAssumption, BoundsAssumption DEF Days, Unawaited

\* A step that neither takes nor sends.
LEMMA StaySends ==
  ASSUME NEW t, NEW s \in TabState, TabFits(s), NEW new \in TabState,
         new.queue = s.queue, new.available = s.available, new.probe = s.probe,
         \A f \in Flushes : new.flush[f] = s.flush[f] \/ new.flush[f] = "idle"
  PROVE  Sends(t, s, new, {})
BY DEF Sends, Takes, TabFits

\* A batch that is not empty makes a request.
LEMMA PostOf ==
  ASSUME NEW t \in Tabs, NEW f \in {Unawaited} \cup Flushes, NEW queue \in Seq(Queued), Rising(queue),
         NEW n \in Nat \ {0}, (n - 1) * ClientBatch < Len(queue)
  PROVE  LET p == Post(t, f, Batch(queue, n))
         IN /\ p \in PostType /\ BatchFits(p) /\ p.phase = "sent" /\ p.tab = t
            /\ p.batch = Batch(queue, n) /\ IdsOf(p.batch) \subseteq IdsOf(queue)
<1> DEFINE b == Batch(queue, n)
<1>1. /\ b \in Seq(Queued) /\ Rising(b) /\ Len(b) \in 1 .. ClientBatch
      /\ \A i \in IdsOf(b) : \E k \in 1 .. Len(queue) : i = queue[k].id
  BY BatchAndRest
<1> HIDE DEF b
<1>2. IdsOf(b) \subseteq IdsOf(queue)
  BY <1>1 DEF IdsOf
<1>3. Post(t, f, b) = [tab |-> t, flush |-> f, batch |-> b, phase |-> "sent", day |-> 0]
  BY DEF Post
<1>4. Post(t, f, b) \in PostType
  BY <1>1, <1>3, Caps DEF PostType
<1> QED BY <1>1, <1>2, <1>3, <1>4 DEF b, BatchFits

\* The first batch leaves, the rest stays.
LEMMA FirstBatch ==
  ASSUME NEW t \in Tabs, NEW f \in {Unawaited} \cup Flushes, NEW s \in TabState, TabFits(s),
         s.available = "yes", s.queue # <<>>, NEW new \in TabState, new.available = "yes",
         new.probe = s.probe, new.queue = Left(s.queue, 1) \/ new.queue = <<>>
  PROVE  Sends(t, s, new, {Post(t, f, Batch(s.queue, 1))})
<1>1. s.queue \in Seq(Queued) /\ Rising(s.queue) /\ Len(s.queue) <= MaxQueue
  BY DEF TabState, TabFits
<1> DEFINE q == s.queue
           p == Post(t, f, Batch(q, 1))
<1>2. Len(q) \in Nat \ {0} /\ 1 \in Nat \ {0} /\ (1 - 1) * ClientBatch < Len(q)
  <2>1. Len(q) \in Nat \ {0}
    BY <1>1, EmptySeq
  <2>2. (1 - 1) * ClientBatch = 0
    BY Caps
  <2> QED BY <2>1, <2>2
<1>3. /\ p \in PostType /\ BatchFits(p) /\ p.phase = "sent" /\ p.tab = t
      /\ p.batch = Batch(q, 1) /\ IdsOf(p.batch) \subseteq IdsOf(q)
  BY <1>1, <1>2, PostOf
<1>4. /\ Left(q, 1) \in Seq(Queued) /\ Rising(Left(q, 1)) /\ Len(Left(q, 1)) <= Len(q)
      /\ IdsOf(Left(q, 1)) \subseteq IdsOf(q)
  <2>1. \A i \in IdsOf(Left(q, 1)) : \E k \in 1 .. Len(q) : i = q[k].id
    BY <1>1, LeftOver
  <2>2. IdsOf(Left(q, 1)) \subseteq IdsOf(q)
    BY <2>1 DEF IdsOf
  <2> QED BY <1>1, <2>2, LeftOver
<1>5. \A i \in IdsOf(Batch(q, 1)), j \in IdsOf(Left(q, 1)) : i < j
  BY <1>1, BatchesApart
<1>6. TabFits(new)
  <2>1. Len(new.queue) <= MaxQueue /\ Rising(new.queue)
    BY <1>1, <1>2, <1>4, Caps, NoIds
  <2> QED BY <2>1 DEF TabFits
<1> HIDE DEF p
<1>7. Takes(t, IdsOf(q), new, {p})
  <2>1. IdsOf(new.queue) \subseteq IdsOf(Left(q, 1))
    BY NoIds
  <2> QED BY <1>3, <1>4, <1>5, <2>1 DEF Takes
<1> QED BY <1>3, <1>6, <1>7 DEF Sends, p

\* The synchronous part of flush().
LEMMA FlushSends ==
  ASSUME NEW t \in Tabs, NEW f \in Flushes, NEW s \in TabState, TabFits(s)
  PROVE  Sends(t, s, FlushBegun(t, f, s).state, FlushBegun(t, f, s).sent)
<1> DEFINE begun == FlushBegun(t, f, s)
<1>1. CASE s.queue = <<>>
  <2>1. begun.state = s /\ begun.sent = {}
    BY <1>1 DEF FlushBegun
  <2> QED BY <2>1, StaySends
<1>2. CASE s.queue # <<>> /\ s.available = "no"
  <2> DEFINE new == [s EXCEPT !.queue = <<>>]
  <2>1. begun.state = new /\ begun.sent = {}
    BY <1>2 DEF FlushBegun
  <2>2. /\ new \in TabState /\ new.queue = <<>> /\ new.available = s.available
        /\ new.probe = s.probe /\ new.flush = s.flush
    BY NoIds DEF TabState
  <2> HIDE DEF new
  <2>3. TabFits(new)
    BY <1>2, <2>2, NoIds, Caps DEF TabFits
  <2> QED BY <2>1, <2>2, <2>3, NoIds DEF Sends, Takes
<1>3. CASE s.queue # <<>> /\ s.available = "unknown"
  <2> DEFINE new == [Asked(s) EXCEPT !.flush[f] = "probe"]
  <2>1. begun.state = new /\ begun.sent = {}
    BY <1>3 DEF FlushBegun
  <2>2. s.probe = "pending"
    BY <1>3 DEF TabFits
  <2>3. Asked(s) = s
    BY <2>2 DEF Asked
  <2>4. /\ new \in TabState /\ new.queue = s.queue /\ new.available = s.available /\ new.probe = s.probe
    BY <2>3 DEF TabState
  <2> HIDE DEF new
  <2>5. TabFits(new)
    BY <1>3, <2>2, <2>4 DEF TabFits
  <2> QED BY <2>1, <2>4, <2>5 DEF Sends, Takes
<1>4. CASE s.queue # <<>> /\ s.available = "yes"
  <2> DEFINE new == [s EXCEPT !.flush[f] = "send", !.queue = Left(s.queue, 1)]
  <2>1. begun.state = new /\ begun.sent = {Post(t, f, Batch(s.queue, 1))}
    BY <1>4 DEF FlushBegun
  <2>2. Left(s.queue, 1) \in Seq(Queued)
    BY LeftOver DEF TabState, TabFits
  <2>3. /\ new \in TabState /\ new.queue = Left(s.queue, 1) /\ new.available = "yes" /\ new.probe = s.probe
    BY <1>4, <2>2 DEF TabState
  <2> HIDE DEF new
  <2> QED BY <1>4, <2>1, <2>3, FirstBatch
<1> QED BY <1>1, <1>2, <1>3, <1>4 DEF TabState

\* A page that is hidden or goes away.
LEMMA UnloadSends ==
  ASSUME NEW t \in Tabs, NEW s \in TabState, TabFits(s), NEW new \in TabState,
         new.available = s.available, new.probe = s.probe,
         new.queue = Unloaded(s).queue \/ new.queue = <<>>,
         \A f \in Flushes : new.flush[f] = s.flush[f] \/ new.flush[f] = "idle"
  PROVE  Sends(t, s, new, UnloadPosts(t, s))
<1>1. CASE s.available = "yes" /\ s.queue # <<>>
  <2>1. UnloadPosts(t, s) = {Post(t, Unawaited, Batch(s.queue, 1))} /\ Unloaded(s).queue = Left(s.queue, 1)
    BY <1>1 DEF UnloadPosts, Unloaded, TabState
  <2> QED BY <1>1, <2>1, FirstBatch
<1>2. CASE ~(s.available = "yes" /\ s.queue # <<>>)
  <2>1. UnloadPosts(t, s) = {}
    BY <1>2 DEF UnloadPosts
  <2>2. new.queue = <<>>
    <3>1. CASE s.available = "yes"
      <4>1. s.queue = <<>> /\ Unloaded(s).queue = Left(s.queue, 1)
        BY <1>2, <3>1 DEF Unloaded, TabState
      <4>2. Left(<<>>, 1) = <<>>
        BY SubSeqEmpty, Caps, NoIds DEF Left
      <4> QED BY <4>1, <4>2
    <3>2. CASE s.available # "yes"
      BY <3>2 DEF Unloaded, TabState
    <3> QED BY <3>1, <3>2
  <2>3. TabFits(new)
    BY <2>2, NoIds, Caps DEF TabFits
  <2> QED BY <2>1, <2>2, <2>3, NoIds DEF Sends, Takes
<1> QED BY <1>1, <1>2

\* trackEvent's append, the cap included.
LEMMA AppendFits ==
  ASSUME NEW s \in TabState, TabFits(s), s.available # "no", NEW entry \in Queued,
         \A i \in IdsOf(s.queue) : i < entry.id
  PROVE  LET new == Asked([s EXCEPT !.queue = KeptAtCap(Append(s.queue, entry))])
         IN /\ new \in TabState /\ TabFits(new) /\ new.available = s.available
            /\ IdsOf(new.queue) \subseteq IdsOf(s.queue) \cup {entry.id}
<1>1. s.queue \in Seq(Queued) /\ Rising(s.queue) /\ Len(s.queue) <= MaxQueue
  BY DEF TabState, TabFits
<1> DEFINE long == Append(s.queue, entry)
           queue == KeptAtCap(long)
<1>2. /\ long \in Seq(Queued) /\ Len(long) = Len(s.queue) + 1 /\ long[Len(s.queue) + 1] = entry
      /\ \A i \in 1 .. Len(s.queue) : long[i] = s.queue[i]
  BY <1>1, AppendProperties
<1> HIDE DEF long
<1>3. Rising(long)
  <2> SUFFICES ASSUME NEW i \in 1 .. Len(long), NEW j \in 1 .. Len(long), i < j
               PROVE  long[i].id < long[j].id
    BY DEF Rising
  <2>1. i \in 1 .. Len(s.queue) /\ long[i] = s.queue[i]
    BY <1>1, <1>2
  <2>2. CASE j \in 1 .. Len(s.queue)
    BY <1>1, <1>2, <2>1, <2>2 DEF Rising
  <2>3. CASE j = Len(s.queue) + 1
    <3>1. long[i].id \in IdsOf(s.queue)
      BY <2>1 DEF IdsOf
    <3> QED BY <1>2, <2>3, <3>1
  <2> QED BY <1>1, <1>2, <2>2, <2>3
<1>4. IdsOf(long) \subseteq IdsOf(s.queue) \cup {entry.id}
  <2> SUFFICES ASSUME NEW i \in 1 .. Len(long) PROVE long[i].id \in IdsOf(s.queue) \cup {entry.id}
    BY DEF IdsOf
  <2>1. CASE i \in 1 .. Len(s.queue)
    BY <1>2, <2>1 DEF IdsOf
  <2>2. CASE i = Len(s.queue) + 1
    BY <1>2, <2>2
  <2> QED BY <1>1, <1>2, <2>1, <2>2
<1>5. /\ queue \in Seq(Queued) /\ Rising(queue) /\ Len(queue) <= MaxQueue
      /\ IdsOf(queue) \subseteq IdsOf(long)
  <2>1. CASE Len(long) > MaxQueue
    <3>1. queue = SubSeq(long, Len(long) - MaxQueue + 1, Len(long))
      BY <2>1 DEF KeptAtCap
    <3>2. Len(long) - MaxQueue + 1 \in Nat \ {0} /\ Len(long) \in Nat
      BY <1>2, <2>1, Caps
    <3> DEFINE m == Len(long) - MaxQueue + 1
               n == Len(long)
    <3>3. /\ queue \in Seq(Queued) /\ Rising(queue) /\ Len(queue) = IF m <= n THEN n - m + 1 ELSE 0
          /\ \A i \in IdsOf(queue) : \E k \in m .. n : k \in 1 .. Len(long) /\ i = long[k].id
      BY <1>2, <1>3, <3>1, <3>2, PartOf
    <3>4. IdsOf(queue) \subseteq IdsOf(long)
      BY <3>3 DEF IdsOf
    <3> HIDE DEF queue
    <3> QED BY <3>2, <3>3, <3>4, Caps
  <2>2. CASE ~(Len(long) > MaxQueue)
    <3>1. queue = long
      BY <2>2 DEF KeptAtCap
    <3> QED BY <1>2, <1>3, <2>2, <3>1, Caps
  <2> QED BY <2>1, <2>2
<1> DEFINE old == [s EXCEPT !.queue = queue]
           new == Asked(old)
<1> HIDE DEF queue
<1>6. /\ old \in TabState /\ old.queue = queue /\ old.available = s.available /\ old.probe = s.probe
  BY <1>5 DEF TabState
<1> HIDE DEF old
<1>7. /\ new \in TabState /\ new.queue = queue /\ new.available = s.available
      /\ new.probe = IF s.probe = "none" /\ s.available = "unknown" THEN "pending" ELSE s.probe
  BY <1>6 DEF Asked, TabState
<1> HIDE DEF new
<1>8. TabFits(new)
  BY <1>5, <1>7 DEF TabFits, TabState
<1> QED BY <1>4, <1>5, <1>7, <1>8 DEF new, old, queue, long

\* A flush that goes on after an answer.
LEMMA GoesOnSends ==
  ASSUME NEW t \in Tabs, NEW f \in Flushes, NEW s \in TabState, TabFits(s), s.available = "yes"
  PROVE  LET again == s.queue # <<>>
             new == [s EXCEPT !.flush[f] = IF again THEN "send" ELSE "idle",
                              !.queue = IF again THEN Left(@, 1) ELSE @]
         IN Sends(t, s, new, IF again THEN {Post(t, f, Batch(s.queue, 1))} ELSE {})
<1>1. CASE s.queue # <<>>
  <2> DEFINE new == [s EXCEPT !.flush[f] = "send", !.queue = Left(s.queue, 1)]
  <2>1. Left(s.queue, 1) \in Seq(Queued)
    BY LeftOver DEF TabState, TabFits
  <2>2. /\ new \in TabState /\ new.queue = Left(s.queue, 1) /\ new.available = "yes" /\ new.probe = s.probe
    BY <2>1 DEF TabState
  <2>3. [s EXCEPT !.flush[f] = IF s.queue # <<>> THEN "send" ELSE "idle",
                  !.queue = IF s.queue # <<>> THEN Left(@, 1) ELSE @] = new
    BY <1>1
  <2> HIDE DEF new
  <2>4. Sends(t, s, new, {Post(t, f, Batch(s.queue, 1))})
    BY <1>1, <2>2, FirstBatch
  <2> QED BY <1>1, <2>3, <2>4
<1>2. CASE s.queue = <<>>
  <2> DEFINE new == [s EXCEPT !.flush[f] = "idle", !.queue = s.queue]
  <2>1. /\ new \in TabState /\ new.queue = s.queue /\ new.available = s.available /\ new.probe = s.probe
        /\ \A g \in Flushes : new.flush[g] = s.flush[g] \/ new.flush[g] = "idle"
    BY DEF TabState
  <2>2. [s EXCEPT !.flush[f] = IF s.queue # <<>> THEN "send" ELSE "idle",
                  !.queue = IF s.queue # <<>> THEN Left(@, 1) ELSE @] = new
    BY <1>2
  <2> HIDE DEF new
  <2>3. Sends(t, s, new, {})
    BY <2>1, StaySends
  <2> QED BY <1>2, <2>2, <2>3
<1> QED BY <1>1, <1>2

\* The flushes that wait take their turns in order.
Turn(waiting, f) == Cardinality({g \in waiting : g <= f})
Lucky(waiting, queue) == {f \in waiting : (Turn(waiting, f) - 1) * ClientBatch < Len(queue)}

\* Turns are counted from one, and in the order of the flushes.
LEMMA Turns ==
  ASSUME NEW waiting \in SUBSET Flushes
  PROVE  /\ \A f \in waiting : Turn(waiting, f) \in Nat \ {0}
         /\ \A f, g \in waiting : f < g => Turn(waiting, f) < Turn(waiting, g)
<1>1. IsFiniteSet(waiting) /\ waiting \subseteq Nat
  BY FS_Subset, BoundsAssumption
<1> DEFINE upTo(f) == {g \in waiting : g <= f}
<1>2. \A f \in waiting : IsFiniteSet(upTo(f))
  BY <1>1, FS_Subset
<1>3. ASSUME NEW f \in waiting PROVE Cardinality(upTo(f)) \in Nat \ {0}
  <2>1. f \in upTo(f)
    BY <1>1
  <2>2. Cardinality(upTo(f)) # 0
    BY <1>2, <2>1, FS_EmptySet
  <2> QED BY <1>2, <2>2, FS_CardinalityType
<1>4. ASSUME NEW f \in waiting, NEW g \in waiting, f < g PROVE Cardinality(upTo(f)) < Cardinality(upTo(g))
  <2>1. f \in Nat /\ g \in Nat /\ \A h \in waiting : h \in Nat
    BY <1>1
  <2>2. \A h \in waiting : h <= f => h <= g
    BY <1>4, <2>1
  <2>3. upTo(f) \subseteq upTo(g) /\ g \in upTo(g) /\ g \notin upTo(f)
    <3>1. g <= g /\ ~(g <= f)
      BY <1>4, <2>1
    <3>2. upTo(f) \subseteq upTo(g)
      BY <2>2
    <3> QED BY <3>1, <3>2
  <2>4. Cardinality(upTo(f)) <= Cardinality(upTo(g)) /\ Cardinality(upTo(f)) # Cardinality(upTo(g))
    BY <1>2, <2>3, FS_Subset
  <2> QED BY <1>3, <2>4
<1> QED BY <1>3, <1>4 DEF Turn

\* The flushes that get a batch are the first ones.
LEMMA LuckyTurns ==
  ASSUME NEW waiting \in SUBSET Flushes, NEW queue \in Seq(Queued)
  PROVE  LET lucky == Lucky(waiting, queue)
         IN /\ Cardinality(lucky) \in Nat /\ lucky \subseteq waiting
            /\ \A f \in lucky : Turn(waiting, f) <= Cardinality(lucky)
<1> DEFINE lucky == Lucky(waiting, queue)
<1>1. IsFiniteSet(waiting) /\ waiting \subseteq Nat /\ lucky \subseteq waiting
  BY FS_Subset, BoundsAssumption DEF Lucky
<1>2. IsFiniteSet(lucky) /\ Cardinality(lucky) \in Nat
  BY <1>1, FS_Subset, FS_CardinalityType
<1>3. ASSUME NEW f \in lucky PROVE Turn(waiting, f) <= Cardinality(lucky)
  <2>1. f \in waiting /\ Turn(waiting, f) \in Nat \ {0}
    BY <1>1, Turns
  <2>2. ASSUME NEW g \in waiting, g <= f PROVE g \in lucky
    <3>1. Turn(waiting, g) \in Nat \ {0} /\ Turn(waiting, g) <= Turn(waiting, f)
      <4>1. g = f \/ g < f
        BY <1>1, <2>1, <2>2
      <4>2. CASE g = f
        BY <2>1, <4>2
      <4>3. CASE g < f
        <5>1. Turn(waiting, g) \in Nat \ {0} /\ Turn(waiting, g) < Turn(waiting, f)
          BY <2>1, <4>3, Turns
        <5> QED BY <2>1, <5>1
      <4> QED BY <4>1, <4>2, <4>3
    <3> DEFINE a == Turn(waiting, g) - 1
               b == Turn(waiting, f) - 1
    <3>2. a \in Nat /\ b \in Nat /\ a <= b
      BY <2>1, <3>1
    <3> HIDE DEF a, b
    <3>3. a * ClientBatch <= b * ClientBatch /\ a * ClientBatch \in Nat /\ b * ClientBatch \in Nat
      BY <3>2, Caps, ProductGrows
    <3>4. b * ClientBatch < Len(queue)
      BY DEF Lucky, b
    <3>5. a * ClientBatch < Len(queue)
      BY <3>3, <3>4, LenProperties
    <3> QED BY <3>5 DEF Lucky, a
  <2>3. {g \in waiting : g <= f} \subseteq lucky
    BY <2>2
  <2> QED BY <1>2, <2>3, FS_Subset DEF Turn
<1> QED BY <1>1, <1>2, <1>3

\* What the probe's answer sets off.
LEMMA ProbeSends ==
  ASSUME NEW t \in Tabs, NEW s \in TabState, TabFits(s), s.probe = "pending",
         NEW available \in {"yes", "no"}, NEW waiting \in SUBSET Flushes,
         NEW lucky, lucky = IF available # "yes" THEN {} ELSE Lucky(waiting, s.queue),
         NEW new \in TabState, new.available = available, new.probe = "answered",
         new.queue = IF waiting = {} THEN s.queue
                     ELSE IF available = "no" THEN <<>> ELSE Left(s.queue, Cardinality(lucky))
  PROVE  Sends(t, s, new, {Post(t, f, Batch(s.queue, Turn(waiting, f))) : f \in lucky})
<1> DEFINE q == s.queue
           posts == {Post(t, f, Batch(q, Turn(waiting, f))) : f \in lucky}
           n == Cardinality(lucky)
<1>1. q \in Seq(Queued) /\ Rising(q) /\ Len(q) <= MaxQueue /\ Len(q) \in Nat
  BY LenProperties DEF TabState, TabFits
<1>2. /\ lucky \subseteq waiting /\ n \in Nat
      /\ \A f \in lucky : /\ Turn(waiting, f) \in Nat \ {0} /\ Turn(waiting, f) <= n
                          /\ (Turn(waiting, f) - 1) * ClientBatch < Len(q) /\ available = "yes"
  <2>1. CASE available = "yes"
    <3>1. lucky = Lucky(waiting, q)
      BY <2>1
    <3>2. /\ n \in Nat /\ lucky \subseteq waiting /\ \A f \in lucky : Turn(waiting, f) <= n
      BY <1>1, <3>1, LuckyTurns
    <3> QED BY <2>1, <3>1, <3>2, Turns DEF Lucky
  <2>2. CASE available = "no"
    BY <2>2, FS_EmptySet
  <2> QED BY <2>1, <2>2
<1>3. /\ IdsOf(new.queue) \subseteq IdsOf(q) /\ Rising(new.queue) /\ Len(new.queue) <= MaxQueue
      /\ lucky # {} => new.queue = Left(q, n)
  <2>1. /\ IdsOf(Left(q, n)) \subseteq IdsOf(q) /\ Rising(Left(q, n)) /\ Len(Left(q, n)) <= Len(q)
        /\ Left(q, n) \in Seq(Queued)
    <3> HIDE DEF n, q
    <3>1. \A i \in IdsOf(Left(q, n)) : \E k \in 1 .. Len(q) : i = q[k].id
      BY <1>1, <1>2, LeftOver
    <3>2. IdsOf(Left(q, n)) \subseteq IdsOf(q)
      BY <3>1 DEF IdsOf
    <3> QED BY <1>1, <1>2, <3>2, LeftOver
  <2>2. Len(Left(q, n)) <= MaxQueue
    BY <1>1, <2>1, LenProperties, Caps
  <2>3. lucky # {} => new.queue = Left(q, n)
    BY <1>2
  <2>4. new.queue \in {q, <<>>, Left(q, n)}
    OBVIOUS
  <2> QED BY <1>1, <2>1, <2>2, <2>3, <2>4, NoIds, Caps
<1>4. TabFits(new)
  BY <1>3 DEF TabFits
<1>5. ASSUME NEW f \in lucky
      PROVE  LET p == Post(t, f, Batch(q, Turn(waiting, f)))
             IN /\ p \in PostType /\ BatchFits(p) /\ p.phase = "sent" /\ p.tab = t
                /\ p.batch = Batch(q, Turn(waiting, f)) /\ IdsOf(p.batch) \subseteq IdsOf(q)
                /\ \A i \in IdsOf(p.batch), j \in IdsOf(new.queue) : i < j
  <2> DEFINE k == Turn(waiting, f)
             p == Post(t, f, Batch(q, k))
  <2>1. k \in Nat \ {0} /\ k <= n /\ n \in Nat \ {0} /\ (k - 1) * ClientBatch < Len(q) /\ f \in {Unawaited} \cup Flushes
    BY <1>2
  <2> HIDE DEF k
  <2>2. /\ p \in PostType /\ BatchFits(p) /\ p.phase = "sent" /\ p.tab = t
        /\ p.batch = Batch(q, k) /\ IdsOf(p.batch) \subseteq IdsOf(q)
    BY <1>1, <2>1, PostOf
  <2>3. \A i \in IdsOf(Batch(q, k)), j \in IdsOf(Left(q, n)) : i < j
    BY <1>1, <2>1, BatchesApart
  <2> HIDE DEF p
  <2>4. new.queue = Left(q, n)
    BY <1>3
  <2> QED BY <2>2, <2>3, <2>4 DEF p, k
<1>6. ASSUME NEW f \in lucky, NEW g \in lucky, f # g
      PROVE  IdsOf(Batch(q, Turn(waiting, f))) \cap IdsOf(Batch(q, Turn(waiting, g))) = {}
  <2>1. f \in waiting /\ g \in waiting /\ f \in Nat /\ g \in Nat
    BY <1>2, BoundsAssumption
  <2>2. Turn(waiting, f) \in Nat \ {0} /\ Turn(waiting, g) \in Nat \ {0}
    BY <1>2
  <2>3. CASE f < g
    <3>1. Turn(waiting, f) < Turn(waiting, g)
      BY <2>1, <2>3, Turns
    <3> QED BY <1>1, <2>2, <3>1, BatchesApart
  <2>4. CASE g < f
    <3>1. Turn(waiting, g) < Turn(waiting, f)
      BY <2>1, <2>4, Turns
    <3>2. IdsOf(Batch(q, Turn(waiting, g))) \cap IdsOf(Batch(q, Turn(waiting, f))) = {}
      BY <1>1, <2>2, <3>1, BatchesApart
    <3> QED BY <3>2
  <2> QED BY <1>6, <2>1, <2>3, <2>4
<1>7. Takes(t, IdsOf(q), new, posts)
  <2>1. \A p, r \in posts : p # r => IdsOf(p.batch) \cap IdsOf(r.batch) = {}
    <3> SUFFICES ASSUME NEW f \in lucky, NEW g \in lucky,
                        Post(t, f, Batch(q, Turn(waiting, f))) # Post(t, g, Batch(q, Turn(waiting, g)))
                 PROVE  IdsOf(Post(t, f, Batch(q, Turn(waiting, f))).batch)
                          \cap IdsOf(Post(t, g, Batch(q, Turn(waiting, g))).batch) = {}
      OBVIOUS
    <3>1. f # g
      OBVIOUS
    <3>2. /\ Post(t, f, Batch(q, Turn(waiting, f))).batch = Batch(q, Turn(waiting, f))
          /\ Post(t, g, Batch(q, Turn(waiting, g))).batch = Batch(q, Turn(waiting, g))
      BY <1>5
    <3> QED BY <1>6, <3>1, <3>2
  <2> QED BY <1>3, <1>5, <2>1 DEF Takes
<1>8. posts \subseteq PostType /\ \A p \in posts : BatchFits(p) /\ p.phase = "sent"
  BY <1>5
<1>9. posts # {} => new.available = "yes"
  BY <1>2
<1>10. s.available # "yes"
  BY DEF TabFits
<1> QED BY <1>4, <1>7, <1>8, <1>9, <1>10 DEF Sends

-------------------------------------------------------------------------------
\* Where the events are, and the steps that move them.

\* An event is in one place, or counted, or gone; and what was sent is older
\* than what its tab still has.
Placed ==
  /\ \A t \in Tabs : \A i \in QueuedIds(t) : i <= tracked /\ counted[i] = 0
  /\ \A t, u \in Tabs : t # u => QueuedIds(t) \cap QueuedIds(u) = {}
  /\ \A p \in wire : \A i \in SentIds(p) :
       i <= tracked /\ counted[i] = 0 /\ \A t \in Tabs : i \notin QueuedIds(t)
  /\ \A p, q \in wire : p # q => SentIds(p) \cap SentIds(q) = {}
  /\ \A p \in wire : \A i \in SentIds(p), j \in QueuedIds(p.tab) : i < j
  /\ \A i \in Ids : counted[i] <= 1 /\ (i > tracked => counted[i] = 0)

QueueInv ==
  /\ tab \in [Tabs -> TabState] /\ \A t \in Tabs : TabFits(tab[t])
  /\ wire \subseteq PostType /\ \A p \in wire : BatchFits(p) /\ tab[p.tab].available = "yes"
  /\ tracked \in 0 .. MaxEvents /\ counted \in [Ids -> Nat]
  /\ Placed

\* The ids in queues and requests are those of tracked events.
LEMMA IdsFits ==
  ASSUME QueueInv
  PROVE  /\ \A t \in Tabs : QueuedIds(t) = IdsOf(tab[t].queue) /\ QueuedIds(t) \subseteq Ids
         /\ \A p \in wire : SentIds(p) = IdsOf(p.batch) /\ SentIds(p) \subseteq Ids
         /\ Ids \subseteq Nat
<1>1. \A t \in Tabs : tab[t].queue \in Seq(Queued)
  BY DEF QueueInv, TabState
<1>2. \A p \in wire : p.batch \in Seq(Queued)
  BY DEF QueueInv, PostType
<1>3. Ids \subseteq Nat
  BY BoundsAssumption DEF Ids
<1> QED BY <1>1, <1>2, <1>3, IdsOfType DEF QueuedIds, SentIds, IdsOf

\* Every step of a tab or of a request: tab t, with the queue of s, becomes new
\* and sends posts, next to requests that were on their way before.
LEMMA QueueStep ==
  ASSUME QueueInv, NEW t \in Tabs, NEW s, NEW new, NEW posts, Sends(t, s, new, posts),
         s.available = tab[t].available, tracked' \in {tracked, tracked + 1}, tracked' \in 0 .. MaxEvents,
         IdsOf(s.queue) \subseteq QueuedIds(t) \cup (IF tracked' = tracked THEN {} ELSE {tracked'}),
         tab' = [tab EXCEPT ![t] = new], NEW rest, wire' = rest \cup posts, rest \subseteq PostType,
         \A p \in rest : \E o \in wire : o.tab = p.tab /\ o.batch = p.batch,
         \A p, q \in rest : p # q => SentIds(p) \cap SentIds(q) = {},
         counted' \in [Ids -> Nat],
         \A i \in Ids : counted'[i] # counted[i] =>
           /\ counted'[i] = 1 /\ \A p \in rest : i \notin SentIds(p)
           /\ \E o \in wire : i \in SentIds(o)
  PROVE  QueueInv'
<1> DEFINE ids == IdsOf(s.queue)
<1>1. /\ tab \in [Tabs -> TabState] /\ \A u \in Tabs : TabFits(tab[u])
      /\ wire \subseteq PostType /\ \A p \in wire : BatchFits(p) /\ tab[p.tab].available = "yes"
      /\ tracked \in Nat /\ counted \in [Ids -> Nat] /\ Placed
  BY BoundsAssumption DEF QueueInv
<1>2. /\ new \in TabState /\ TabFits(new)
      /\ posts \subseteq PostType /\ \A p \in posts : BatchFits(p)
      /\ posts # {} => new.available = "yes"
      /\ s.available = "yes" => new.available = "yes"
      /\ Takes(t, ids, new, posts)
  BY DEF Sends
<1> HIDE DEF ids
<1>3. /\ \A u \in Tabs \ {t} : tab'[u] = tab[u] /\ QueuedIds(u)' = QueuedIds(u)
      /\ tab'[t] = new /\ QueuedIds(t)' \subseteq ids
      /\ tab' \in [Tabs -> TabState] /\ \A u \in Tabs : TabFits(tab'[u])
  <2>1. tab'[t] = new /\ \A u \in Tabs \ {t} : tab'[u] = tab[u]
    BY <1>1
  <2>2. QueuedIds(t)' = IdsOf(new.queue)
    BY <2>1 DEF QueuedIds, IdsOf
  <2>3. \A u \in Tabs \ {t} : QueuedIds(u)' = QueuedIds(u)
    BY <2>1 DEF QueuedIds
  <2> QED BY <1>1, <1>2, <2>1, <2>2, <2>3 DEF Takes
<1>4. /\ \A u \in Tabs : QueuedIds(u) \subseteq Ids
      /\ \A p \in wire : SentIds(p) = IdsOf(p.batch) /\ SentIds(p) \subseteq Ids
      /\ Ids \subseteq Nat
  BY IdsFits
<1>5. \A i \in ids : i \in QueuedIds(t) \/ (i = tracked + 1 /\ tracked' = tracked + 1)
  BY DEF ids
<1>6. \A i \in ids : /\ i \in Ids /\ i <= tracked' /\ counted'[i] = 0
                     /\ \A o \in wire : i \notin SentIds(o)
                     /\ \A u \in Tabs \ {t} : i \notin QueuedIds(u)
  <2> SUFFICES ASSUME NEW i \in ids
               PROVE  /\ i \in Ids /\ i <= tracked' /\ counted'[i] = 0
                      /\ \A o \in wire : i \notin SentIds(o)
                      /\ \A u \in Tabs \ {t} : i \notin QueuedIds(u)
    OBVIOUS
  <2>1. CASE i \in QueuedIds(t)
    <3>1. i \in Ids /\ i <= tracked /\ counted[i] = 0
      BY <1>1, <1>4, <2>1 DEF Placed
    <3>2. \A o \in wire : i \notin SentIds(o)
      BY <1>1, <2>1 DEF Placed
    <3>3. \A u \in Tabs \ {t} : i \notin QueuedIds(u)
      BY <1>1, <2>1 DEF Placed
    <3>4. counted'[i] = 0
      BY <3>1, <3>2
    <3>5. i <= tracked'
      BY <1>1, <1>4, <3>1
    <3> QED BY <3>1, <3>2, <3>3, <3>4, <3>5
  <2>2. CASE i = tracked + 1 /\ tracked' = tracked + 1
    <3>1. i \in Ids /\ i > tracked /\ ~(i <= tracked)
      BY <1>1, <2>2, BoundsAssumption DEF Ids
    <3>2. \A o \in wire : i \notin SentIds(o)
      BY <1>1, <3>1 DEF Placed
    <3>3. \A u \in Tabs : i \notin QueuedIds(u)
      BY <1>1, <3>1 DEF Placed
    <3>4. counted[i] = 0
      BY <1>1, <3>1 DEF Placed
    <3>5. counted'[i] = 0
      BY <3>1, <3>2, <3>4
    <3>6. i <= tracked'
      BY <1>1, <2>2
    <3> QED BY <3>1, <3>2, <3>3, <3>5, <3>6
  <2> QED BY <1>5, <2>1, <2>2
<1>7. \A p \in rest : /\ \A i \in SentIds(p) : i \in Ids /\ i <= tracked /\ i <= tracked' /\ counted'[i] = 0
                      /\ \A u \in Tabs : SentIds(p) \cap QueuedIds(u) = {}
                      /\ p.tab \in Tabs /\ \A i \in SentIds(p), j \in QueuedIds(p.tab) : i < j
                      /\ BatchFits(p) /\ tab[p.tab].available = "yes"
                      /\ SentIds(p) \cap ids = {}
  <2> SUFFICES ASSUME NEW p \in rest
               PROVE  /\ \A i \in SentIds(p) : i \in Ids /\ i <= tracked /\ i <= tracked' /\ counted'[i] = 0
                      /\ \A u \in Tabs : SentIds(p) \cap QueuedIds(u) = {}
                      /\ p.tab \in Tabs /\ \A i \in SentIds(p), j \in QueuedIds(p.tab) : i < j
                      /\ BatchFits(p) /\ tab[p.tab].available = "yes"
                      /\ SentIds(p) \cap ids = {}
    OBVIOUS
  <2>1. PICK o \in wire : o.tab = p.tab /\ o.batch = p.batch
    OBVIOUS
  <2>2. SentIds(p) = SentIds(o) /\ p.tab \in Tabs
    BY <1>1, <2>1 DEF SentIds, PostType
  <2>3. BatchFits(p) /\ tab[p.tab].available = "yes"
    BY <1>1, <2>1 DEF BatchFits
  <2>4. \A i \in SentIds(p) : i \in Ids /\ i <= tracked /\ counted[i] = 0
    BY <1>1, <1>4, <2>2 DEF Placed
  <2>5. \A u \in Tabs : SentIds(p) \cap QueuedIds(u) = {}
    BY <1>1, <2>2 DEF Placed
  <2>6. \A i \in SentIds(p), j \in QueuedIds(p.tab) : i < j
    BY <1>1, <2>1, <2>2 DEF Placed
  <2>7. \A i \in SentIds(p) : counted'[i] = 0
    BY <2>4
  <2>8. SentIds(p) \cap ids = {}
    BY <1>6, <2>2
  <2>9. tracked <= tracked'
    BY <1>1
  <2>10. \A i \in SentIds(p) : i <= tracked'
    <3>1. tracked \in Nat /\ tracked' \in Nat /\ \A i \in Ids : i \in Nat
      BY <1>1, <1>4
    <3>2. \A i \in Ids : i <= tracked => i <= tracked'
      BY <2>9, <3>1
    <3> QED BY <2>4, <3>2
  <2> QED BY <2>2, <2>3, <2>4, <2>5, <2>6, <2>7, <2>8, <2>10
<1>8. \A p \in posts : /\ p.tab = t /\ SentIds(p) \subseteq ids
                       /\ \A i \in SentIds(p), j \in QueuedIds(t)' : i < j
  <2>1. QueuedIds(t)' = IdsOf(new.queue) /\ \A p \in posts : SentIds(p) = IdsOf(p.batch)
    BY <1>3 DEF QueuedIds, SentIds, IdsOf
  <2> QED BY <1>2, <2>1 DEF Takes
<1>9. \A p, q \in posts : p # q => SentIds(p) \cap SentIds(q) = {}
  BY <1>2 DEF Takes, SentIds, IdsOf
<1>10. \A p : SentIds(p)' = SentIds(p)
  BY DEF SentIds
<1>11. \A u \in Tabs : \A i \in QueuedIds(u)' : i <= tracked' /\ counted'[i] = 0
  <2> SUFFICES ASSUME NEW u \in Tabs, NEW i \in QueuedIds(u)' PROVE i <= tracked' /\ counted'[i] = 0
    OBVIOUS
  <2>1. CASE u = t
    BY <1>3, <1>6, <2>1
  <2>2. CASE u # t
    <3>1. i \in QueuedIds(u) /\ i \in Ids /\ i <= tracked /\ counted[i] = 0
      BY <1>1, <1>3, <1>4, <2>2 DEF Placed
    <3>2. \A o \in wire : i \notin SentIds(o)
      BY <1>1, <3>1 DEF Placed
    <3>3. tracked <= tracked' /\ tracked' \in Nat /\ i \in Nat
      BY <1>1, <1>4, <3>1
    <3> QED BY <1>1, <3>1, <3>2, <3>3
  <2> QED BY <2>1, <2>2
<1>12. \A u, v \in Tabs : u # v => QueuedIds(u)' \cap QueuedIds(v)' = {}
  <2>1. \A u, v \in Tabs : u # v => QueuedIds(u) \cap QueuedIds(v) = {}
    BY <1>1 DEF Placed
  <2> QED BY <1>3, <1>6, <2>1
<1>13. \A p \in wire' : \A i \in SentIds(p) :
         i <= tracked' /\ counted'[i] = 0 /\ \A u \in Tabs : i \notin QueuedIds(u)'
  <2> SUFFICES ASSUME NEW p \in wire', NEW i \in SentIds(p)
               PROVE  i <= tracked' /\ counted'[i] = 0 /\ \A u \in Tabs : i \notin QueuedIds(u)'
    OBVIOUS
  <2>1. CASE p \in rest
    <3>1. i <= tracked' /\ counted'[i] = 0 /\ i \notin ids /\ \A u \in Tabs : i \notin QueuedIds(u)
      BY <1>7, <2>1
    <3> QED BY <1>3, <3>1
  <2>2. CASE p \in posts
    <3>1. i \in ids /\ i \in Nat
      BY <1>4, <1>6, <1>8, <2>2
    <3>2. i \notin QueuedIds(t)'
      <4>1. i \in QueuedIds(t)' => i < i
        BY <1>8, <2>2
      <4> QED BY <3>1, <4>1
    <3> QED BY <1>3, <1>6, <3>1, <3>2
  <2> QED BY <2>1, <2>2
<1>14. \A p, q \in wire' : p # q => SentIds(p) \cap SentIds(q) = {}
  <2>1. \A p \in rest, q \in posts : SentIds(p) \cap SentIds(q) = {}
    BY <1>7, <1>8
  <2> QED BY <1>9, <2>1
<1>15. \A p \in wire' : \A i \in SentIds(p), j \in QueuedIds(p.tab)' : i < j
  <2> SUFFICES ASSUME NEW p \in wire', NEW i \in SentIds(p), NEW j \in QueuedIds(p.tab)' PROVE i < j
    OBVIOUS
  <2>1. CASE p \in posts
    BY <1>8, <2>1
  <2>2. CASE p \in rest /\ p.tab # t
    BY <1>3, <1>7, <2>2
  <2>3. CASE p \in rest /\ p.tab = t
    <3>1. j \in ids /\ i <= tracked /\ i \in Nat
      BY <1>3, <1>4, <1>7, <2>3
    <3>2. CASE j \in QueuedIds(t)
      BY <1>7, <2>3, <3>2
    <3>3. CASE j = tracked + 1
      BY <1>1, <3>1, <3>3
    <3> QED BY <1>5, <3>1, <3>2, <3>3
  <2> QED BY <2>1, <2>2, <2>3
<1>16. \A i \in Ids : counted'[i] <= 1 /\ (i > tracked' => counted'[i] = 0)
  <2> SUFFICES ASSUME NEW i \in Ids PROVE counted'[i] <= 1 /\ (i > tracked' => counted'[i] = 0)
    OBVIOUS
  <2>1. i \in Nat /\ counted[i] \in Nat /\ tracked' \in Nat /\ (i > tracked' => i > tracked)
    BY <1>1, <1>4
  <2>2. CASE counted'[i] = counted[i]
    BY <1>1, <2>1, <2>2 DEF Placed
  <2>3. CASE counted'[i] # counted[i]
    <3>1. counted'[i] = 1 /\ i <= tracked
      BY <1>1, <2>3 DEF Placed
    <3> QED BY <1>1, <2>1, <3>1
  <2> QED BY <2>2, <2>3
<1>17. Placed'
  BY <1>10, <1>11, <1>12, <1>13, <1>14, <1>15, <1>16 DEF Placed
<1>18. \A p \in wire' : BatchFits(p) /\ tab'[p.tab].available = "yes"
  <2> SUFFICES ASSUME NEW p \in wire' PROVE BatchFits(p) /\ tab'[p.tab].available = "yes"
    OBVIOUS
  <2>1. CASE p \in posts
    BY <1>2, <1>3, <1>8, <2>1
  <2>2. CASE p \in rest
    BY <1>2, <1>3, <1>7, <2>2
  <2> QED BY <2>1, <2>2
<1> QED BY <1>2, <1>3, <1>17, <1>18 DEF QueueInv, TabFits, BatchFits, Rising

\* Steps of others.
LEMMA QueueKept ==
  ASSUME QueueInv, UNCHANGED <<tab, wire, tracked, counted>>
  PROVE  QueueInv'
<1>1. /\ \A t : QueuedIds(t)' = QueuedIds(t)
      /\ \A p : SentIds(p)' = SentIds(p) /\ BatchFits(p)' = BatchFits(p)
      /\ \A t : TabFits(tab[t])' = TabFits(tab[t])
  BY DEF QueuedIds, SentIds, TabFits, BatchFits, Rising
<1>2. Placed'
  BY <1>1 DEF QueueInv, Placed
<1> QED BY <1>1, <1>2 DEF QueueInv

\* What the steps below need of the invariant.
LEMMA QueueFacts ==
  ASSUME QueueInv
  PROVE  /\ tab \in [Tabs -> TabState] /\ \A u \in Tabs : TabFits(tab[u])
         /\ wire \subseteq PostType /\ \A p \in wire : tab[p.tab].available = "yes"
         /\ \A p, q \in wire : p # q => SentIds(p) \cap SentIds(q) = {}
         /\ tracked \in 0 .. MaxEvents /\ counted \in [Ids -> Nat]
         /\ \A u \in Tabs : QueuedIds(u) = IdsOf(tab[u].queue)
BY IdsFits DEF QueueInv, Placed

\* A tab does something, and every request stays on its way.
LEMMA TabStep ==
  ASSUME QueueInv, NEW t \in Tabs, NEW s, NEW new, NEW posts, Sends(t, s, new, posts),
         s.available = tab[t].available, tracked' \in {tracked, tracked + 1}, tracked' \in 0 .. MaxEvents,
         IdsOf(s.queue) \subseteq QueuedIds(t) \cup (IF tracked' = tracked THEN {} ELSE {tracked'}),
         tab' = [tab EXCEPT ![t] = new], wire' = wire \cup posts, UNCHANGED counted
  PROVE  QueueInv'
BY QueueFacts, QueueStep

\* An event is tracked, in a visible or in a hidden tab.
LEMMA TrackStep ==
  ASSUME QueueInv, today \in Days, NEW t \in Tabs, NEW e \in Events, Track(t, e)
  PROVE  QueueInv'
<1> DEFINE entry == [id |-> tracked + 1, d |-> today, event |-> e]
           queued == Asked([tab[t] EXCEPT !.queue = KeptAtCap(Append(tab[t].queue, entry))])
<1>1. /\ tab[t].available # "no" /\ tracked < MaxEvents /\ tracked' = tracked + 1 /\ UNCHANGED counted
      /\ \/ tab' = [tab EXCEPT ![t] = queued] /\ wire' = wire
         \/ \E f \in Flushes : /\ tab' = [tab EXCEPT ![t] = FlushBegun(t, f, queued).state]
                               /\ wire' = wire \cup FlushBegun(t, f, queued).sent
  BY DEF Track, Elsewhere, Idle
<1>2. /\ tab \in [Tabs -> TabState] /\ TabFits(tab[t]) /\ tab[t] \in TabState /\ tracked \in Nat
      /\ QueuedIds(t) = IdsOf(tab[t].queue) /\ MaxEvents \in Nat
  BY QueueFacts, BoundsAssumption
<1>3. entry.id = tracked + 1 /\ entry \in Queued
  BY <1>1, <1>2, BoundsAssumption DEF Queued, Ids
<1>4. \A i \in IdsOf(tab[t].queue) : i < entry.id
  <2>1. \A i \in QueuedIds(t) : i <= tracked /\ i \in Nat
    BY IdsFits DEF QueueInv, Placed
  <2> QED BY <1>2, <1>3, <2>1
<1> HIDE DEF entry
<1>5. /\ queued \in TabState /\ TabFits(queued) /\ queued.available = tab[t].available
      /\ IdsOf(queued.queue) \subseteq IdsOf(tab[t].queue) \cup {entry.id}
  BY <1>1, <1>2, <1>3, <1>4, AppendFits
<1> HIDE DEF queued
<1>6. /\ tracked' \in {tracked, tracked + 1} /\ tracked' \in 0 .. MaxEvents
      /\ IdsOf(queued.queue) \subseteq QueuedIds(t) \cup (IF tracked' = tracked THEN {} ELSE {tracked'})
  BY <1>1, <1>2, <1>3, <1>5
<1>7. CASE tab' = [tab EXCEPT ![t] = queued] /\ wire' = wire
  <2>1. Sends(t, queued, queued, {})
    BY <1>5, StaySends
  <2>2. wire' = wire \cup {}
    BY <1>7
  <2> QED BY <1>1, <1>5, <1>6, <1>7, <2>1, <2>2, TabStep
<1>8. ASSUME NEW f \in Flushes, tab' = [tab EXCEPT ![t] = FlushBegun(t, f, queued).state],
             wire' = wire \cup FlushBegun(t, f, queued).sent
      PROVE  QueueInv'
  <2>1. Sends(t, queued, FlushBegun(t, f, queued).state, FlushBegun(t, f, queued).sent)
    BY <1>5, FlushSends
  <2> QED BY <1>1, <1>5, <1>6, <1>8, <2>1, TabStep
<1> QED BY <1>1, <1>7, <1>8

\* A tab does something that tracks nothing.
LEMMA QuietTabStep ==
  ASSUME QueueInv, NEW t \in Tabs, NEW new, NEW posts, Sends(t, tab[t], new, posts),
         tab' = [tab EXCEPT ![t] = new], wire' = wire \cup posts, UNCHANGED <<tracked, counted>>
  PROVE  QueueInv'
BY QueueFacts, TabStep

\* The interval fires.
LEMMA TimerStep ==
  ASSUME QueueInv, NEW t \in Tabs, Timer(t)
  PROVE  QueueInv'
<1>1. PICK f \in Flushes : /\ tab' = [tab EXCEPT ![t] = FlushBegun(t, f, tab[t]).state]
                           /\ wire' = wire \cup FlushBegun(t, f, tab[t]).sent
  BY DEF Timer, Idle
<1>2. Sends(t, tab[t], FlushBegun(t, f, tab[t]).state, FlushBegun(t, f, tab[t]).sent)
  BY QueueFacts, FlushSends
<1> QED BY <1>1, <1>2, QuietTabStep DEF Timer, Elsewhere

\* The probe is answered.
LEMMA ProbeStep ==
  ASSUME QueueInv, NEW t \in Tabs, NEW available \in {"yes", "no"}, ProbeAnswers(t, available)
  PROVE  QueueInv'
<1> DEFINE s == tab[t]
           waiting == {f \in Flushes : s.flush[f] = "probe"}
           lucky == IF available # "yes" THEN {} ELSE Lucky(waiting, s.queue)
           new == [s EXCEPT !.available = available, !.probe = "answered",
                            !.queue = IF waiting = {} THEN @
                                      ELSE IF available = "no" THEN <<>>
                                      ELSE Left(@, Cardinality(lucky)),
                            !.flush = [f \in Flushes |->
                                         IF f \in lucky THEN "send"
                                         ELSE IF f \in waiting THEN "idle" ELSE @[f]]]
           posts == {Post(t, f, Batch(s.queue, Turn(waiting, f))) : f \in lucky}
<1>1. /\ s.probe = "pending" /\ tab' = [tab EXCEPT ![t] = new] /\ wire' = wire \cup posts
      /\ UNCHANGED <<tracked, counted>>
  BY DEF ProbeAnswers, Elsewhere, Turn, Lucky
<1>2. s \in TabState /\ TabFits(s)
  BY QueueFacts
<1> HIDE DEF s
<1>3. waiting \in SUBSET Flushes
  OBVIOUS
<1>4. s.queue \in Seq(Queued) /\ Rising(s.queue)
  BY <1>2 DEF TabState, TabFits
<1>5. Cardinality(lucky) \in Nat
  <2>1. Cardinality(Lucky(waiting, s.queue)) \in Nat
    BY <1>3, <1>4, LuckyTurns
  <2>2. Cardinality({}) = 0
    BY FS_EmptySet
  <2> QED BY <2>1, <2>2
<1>6. Left(s.queue, Cardinality(lucky)) \in Seq(Queued)
  BY <1>4, <1>5, LeftOver
<1> HIDE DEF waiting, lucky
<1>7. /\ new \in TabState /\ new.available = available /\ new.probe = "answered"
      /\ new.queue = IF waiting = {} THEN s.queue
                     ELSE IF available = "no" THEN <<>> ELSE Left(s.queue, Cardinality(lucky))
  BY <1>2, <1>6, NoIds DEF TabState
<1> HIDE DEF new
<1>8. lucky = IF available # "yes" THEN {} ELSE Lucky(waiting, s.queue)
  BY DEF lucky
<1>9. Sends(t, s, new, posts)
  BY <1>1, <1>2, <1>3, <1>7, <1>8, ProbeSends
<1> QED BY <1>1, <1>9, QuietTabStep DEF s

\* The page is hidden.
LEMMA HideStep ==
  ASSUME QueueInv, NEW t \in Tabs, Hide(t)
  PROVE  QueueInv'
<1> DEFINE s == tab[t]
           new == [Unloaded(s) EXCEPT !.hidden = TRUE]
<1>1. /\ tab' = [tab EXCEPT ![t] = new] /\ wire' = wire \cup UnloadPosts(t, s)
      /\ UNCHANGED <<tracked, counted>>
  BY DEF Hide, Elsewhere
<1>2. s \in TabState /\ TabFits(s)
  BY QueueFacts
<1>3. Unloaded(s).queue \in Seq(Queued)
  BY <1>2, LeftOver, NoIds DEF Unloaded, TabState, TabFits
<1>4. /\ new \in TabState /\ new.available = s.available /\ new.probe = s.probe
      /\ new.queue = Unloaded(s).queue /\ new.flush = s.flush
  BY <1>2, <1>3 DEF Unloaded, TabState
<1> HIDE DEF new
<1>5. Sends(t, s, new, UnloadPosts(t, s))
  BY <1>2, <1>4, UnloadSends
<1> QED BY <1>1, <1>5, QuietTabStep

\* The page comes back.
LEMMA ShowStep ==
  ASSUME QueueInv, NEW t \in Tabs, Show(t)
  PROVE  QueueInv'
<1> DEFINE new == [tab[t] EXCEPT !.hidden = FALSE]
<1>1. tab[t] \in TabState /\ TabFits(tab[t]) /\ tab \in [Tabs -> TabState]
  BY QueueFacts
<1>2. /\ tab' = [tab EXCEPT ![t] = new] /\ wire' = wire \cup {} /\ UNCHANGED <<tracked, counted>>
  BY <1>1 DEF Show, Elsewhere
<1>3. /\ new \in TabState /\ new.available = tab[t].available /\ new.probe = tab[t].probe
      /\ new.queue = tab[t].queue /\ new.flush = tab[t].flush
  BY <1>1 DEF TabState
<1> HIDE DEF new
<1>4. Sends(t, tab[t], new, {})
  BY <1>1, <1>3, StaySends
<1> QED BY <1>2, <1>4, QuietTabStep

\* The requests that stay on their way, and what is counted of the others.
Remains(rest) ==
  /\ rest \subseteq PostType
  /\ \A p \in rest : \E o \in wire : o.tab = p.tab /\ o.batch = p.batch
  /\ \A p, q \in rest : p # q => SentIds(p) \cap SentIds(q) = {}
  /\ counted' \in [Ids -> Nat]
  /\ \A i \in Ids : counted'[i] # counted[i] =>
       /\ counted'[i] = 1 /\ \A p \in rest : i \notin SentIds(p)
       /\ \E o \in wire : i \in SentIds(o)

\* Steps that change the requests on their way and track nothing.
LEMMA RequestStep ==
  ASSUME QueueInv, NEW t \in Tabs, NEW new, NEW posts, Sends(t, tab[t], new, posts),
         tab' = [tab EXCEPT ![t] = new], UNCHANGED tracked,
         NEW rest, wire' = rest \cup posts, Remains(rest)
  PROVE  QueueInv'
<1>1. tracked' \in {tracked, tracked + 1} /\ tracked' \in 0 .. MaxEvents
  BY QueueFacts
<1> DEFINE s == tab[t]
<1>2. /\ Sends(t, s, new, posts) /\ s.available = tab[t].available
      /\ IdsOf(s.queue) \subseteq QueuedIds(t) \cup (IF tracked' = tracked THEN {} ELSE {tracked'})
  BY QueueFacts
<1> HIDE DEF s
<1> QED BY <1>1, <1>2, QueueStep DEF Remains

\* The page goes away, and orphans its requests.
LEMMA CloseStep ==
  ASSUME QueueInv, NEW t \in Tabs, Close(t)
  PROVE  QueueInv'
<1> DEFINE s == tab[t]
           new == [Unloaded(s) EXCEPT !.open = FALSE, !.queue = <<>>,
                                      !.flush = [f \in Flushes |-> "idle"]]
           orphan(p) == [p EXCEPT !.flush = IF p.tab = t THEN Unawaited ELSE @]
           rest == {orphan(p) : p \in wire}
<1>1. /\ tab' = [tab EXCEPT ![t] = new] /\ wire' = rest \cup UnloadPosts(t, s)
      /\ UNCHANGED <<tracked, counted>>
  BY DEF Close, Elsewhere
<1>2. /\ s \in TabState /\ TabFits(s) /\ QueuedIds(t) = IdsOf(s.queue) /\ wire \subseteq PostType
      /\ \A p, q \in wire : p # q => SentIds(p) \cap SentIds(q) = {}
      /\ tracked \in 0 .. MaxEvents /\ counted \in [Ids -> Nat]
  BY QueueFacts
<1>3. /\ new \in TabState /\ new.available = s.available /\ new.probe = s.probe
      /\ new.queue = <<>> /\ \A f \in Flushes : new.flush[f] = "idle"
  BY <1>2, NoIds DEF Unloaded, TabState
<1> HIDE DEF new
<1>4. Sends(t, s, new, UnloadPosts(t, s))
  BY <1>2, <1>3, UnloadSends
<1>5. \A p \in wire : /\ orphan(p) \in PostType /\ orphan(p).tab = p.tab /\ orphan(p).batch = p.batch
                      /\ SentIds(orphan(p)) = SentIds(p)
  BY <1>2 DEF PostType, SentIds
<1> HIDE DEF orphan
<1>6. \A p, q \in rest : p # q => SentIds(p) \cap SentIds(q) = {}
  <2> SUFFICES ASSUME NEW p \in wire, NEW q \in wire, orphan(p) # orphan(q)
               PROVE  SentIds(orphan(p)) \cap SentIds(orphan(q)) = {}
    OBVIOUS
  <2>1. p # q
    OBVIOUS
  <2> QED BY <1>2, <1>5, <2>1
<1>7. rest \subseteq PostType /\ \A p \in rest : \E o \in wire : o.tab = p.tab /\ o.batch = p.batch
  BY <1>5
<1> HIDE DEF rest
<1>8. Remains(rest)
  BY <1>1, <1>2, <1>6, <1>7 DEF Remains
<1> QED BY <1>1, <1>4, <1>8, RequestStep

\* A request leaves the wire, answered or lost; `counted' may have grown by it.
LEMMA AnswerStep ==
  ASSUME QueueInv, NEW p \in wire,
         \/ AnswerPost(p)
         \/ /\ p.flush # Unawaited /\ wire' = wire \ {p}
            /\ tab' = [tab EXCEPT ![p.tab].flush[p.flush] = "idle"],
         UNCHANGED tracked, counted' \in [Ids -> Nat],
         \A i \in Ids : counted'[i] # counted[i] => counted'[i] = 1 /\ i \in SentIds(p)
  PROVE  QueueInv'
<1> DEFINE t == p.tab
           s == tab[t]
           f == p.flush
<1>1. /\ tab \in [Tabs -> TabState] /\ t \in Tabs /\ s \in TabState /\ TabFits(s) /\ s.available = "yes"
      /\ f \in {Unawaited} \cup Flushes /\ tracked \in 0 .. MaxEvents /\ wire \subseteq PostType
      /\ QueuedIds(t) = IdsOf(s.queue)
      /\ \A q, r \in wire : q # r => SentIds(q) \cap SentIds(r) = {}
  BY QueueFacts DEF PostType
<1>2. \A i \in Ids : counted'[i] # counted[i] =>
        counted'[i] = 1 /\ (\A q \in wire \ {p} : i \notin SentIds(q)) /\ \E o \in wire : i \in SentIds(o)
  BY <1>1
<1>3. ASSUME NEW new, NEW posts, Sends(t, s, new, posts), tab' = [tab EXCEPT ![t] = new],
             wire' = (wire \ {p}) \cup posts
      PROVE  QueueInv'
  <2> DEFINE rest == wire \ {p}
  <2>1. rest \subseteq PostType /\ \A q, r \in rest : q # r => SentIds(q) \cap SentIds(r) = {}
    BY <1>1
  <2>2. \A q \in rest : \E o \in wire : o.tab = q.tab /\ o.batch = q.batch
    OBVIOUS
  <2>3. wire' = rest \cup posts /\ Sends(t, tab[t], new, posts) /\ tab' = [tab EXCEPT ![t] = new] /\ t \in Tabs
    BY <1>1, <1>3
  <2>4. Remains(rest)
    BY <1>2, <2>1, <2>2 DEF Remains
  <2> HIDE DEF rest, t
  <2> QED BY <2>3, <2>4, RequestStep
<1>4. CASE AnswerPost(p) /\ f = Unawaited
  <2>1. tab' = [tab EXCEPT ![t] = s] /\ wire' = (wire \ {p}) \cup {}
    BY <1>1, <1>4 DEF AnswerPost
  <2>2. Sends(t, s, s, {})
    BY <1>1, StaySends
  <2> QED BY <1>3, <2>1, <2>2
<1>5. CASE AnswerPost(p) /\ f # Unawaited
  <2> DEFINE again == s.queue # <<>>
             new == [s EXCEPT !.flush[f] = IF again THEN "send" ELSE "idle",
                              !.queue = IF again THEN Left(@, 1) ELSE @]
             posts == IF again THEN {Post(t, f, Batch(s.queue, 1))} ELSE {}
  <2>1. tab' = [tab EXCEPT ![t] = new] /\ wire' = (wire \ {p}) \cup posts
    BY <1>5 DEF AnswerPost, FlushGoesOn
  <2>2. Sends(t, s, new, posts)
    BY <1>1, <1>5, GoesOnSends
  <2> HIDE DEF new, posts
  <2> QED BY <1>3, <2>1, <2>2
<1>6. CASE f # Unawaited /\ wire' = wire \ {p} /\ tab' = [tab EXCEPT ![t].flush[f] = "idle"]
  <2> DEFINE new == [s EXCEPT !.flush[f] = "idle"]
  <2>1. tab' = [tab EXCEPT ![t] = new] /\ wire' = (wire \ {p}) \cup {}
    BY <1>6
  <2>2. /\ new \in TabState /\ new.available = s.available /\ new.probe = s.probe /\ new.queue = s.queue
        /\ \A g \in Flushes : new.flush[g] = s.flush[g] \/ new.flush[g] = "idle"
    BY <1>1 DEF TabState
  <2> HIDE DEF new
  <2>3. Sends(t, s, new, {})
    BY <1>1, <2>2, StaySends
  <2> QED BY <1>3, <2>1, <2>3
<1> QED BY <1>4, <1>5, <1>6

\* The server accepts a request.
LEMMA ParseStep ==
  ASSUME QueueInv, today \in Days, NEW p \in wire, Parse(p)
  PROVE  QueueInv'
<1> DEFINE parsed == [p EXCEPT !.phase = "parsed", !.day = today]
           rest == (wire \ {p}) \cup {parsed}
           t == p.tab
<1>1. wire' = rest \cup {} /\ UNCHANGED <<tab, tracked, counted>>
  BY DEF Parse, Elsewhere
<1>2. /\ tab \in [Tabs -> TabState] /\ t \in Tabs /\ tab[t] \in TabState /\ TabFits(tab[t]) /\ p \in PostType
      /\ QueuedIds(t) = IdsOf(tab[t].queue) /\ wire \subseteq PostType
      /\ \A q, r \in wire : q # r => SentIds(q) \cap SentIds(r) = {}
      /\ tracked \in 0 .. MaxEvents /\ counted \in [Ids -> Nat]
  BY QueueFacts DEF PostType
<1>3. parsed \in PostType /\ parsed.tab = t /\ parsed.batch = p.batch /\ SentIds(parsed) = SentIds(p)
  BY <1>2 DEF PostType, SentIds
<1> HIDE DEF parsed
<1>4. /\ rest \subseteq PostType /\ \A q \in rest : \E o \in wire : o.tab = q.tab /\ o.batch = q.batch
      /\ \A q, r \in rest : q # r => SentIds(q) \cap SentIds(r) = {}
  BY <1>2, <1>3
<1> HIDE DEF rest
<1>5. Sends(t, tab[t], tab[t], {})
  BY <1>2, StaySends
<1>6. tab' = [tab EXCEPT ![t] = tab[t]]
  BY <1>1, <1>2
<1>7. Remains(rest)
  BY <1>1, <1>2, <1>4 DEF Remains
<1> QED BY <1>1, <1>2, <1>5, <1>6, <1>7, RequestStep

\* An event of a batch is in it once, and is counted once.
LEMMA CommitStep ==
  ASSUME QueueInv, NEW p \in wire, Commit(p)
  PROVE  QueueInv'
<1> DEFINE places(i) == {j \in 1 .. Len(p.batch) : p.batch[j].id = i}
<1>1. /\ p.batch \in Seq(Queued) /\ Rising(p.batch) /\ counted \in [Ids -> Nat]
      /\ \A i \in SentIds(p) : counted[i] = 0
  BY QueueFacts DEF PostType, QueueInv, BatchFits, Placed
<1>2. counted' = [i \in Ids |-> counted[i] + Cardinality(places(i))]
  BY DEF Commit
<1>3. ASSUME NEW i \in Ids PROVE Cardinality(places(i)) \in {0, 1} /\ (Cardinality(places(i)) = 1 => i \in SentIds(p))
  <2>1. CASE places(i) = {}
    <3>1. Cardinality(places(i)) = 0
      BY <2>1, FS_EmptySet
    <3> QED BY <3>1
  <2>2. CASE places(i) # {}
    <3>1. PICK j \in 1 .. Len(p.batch) : p.batch[j].id = i
      BY <2>2
    <3>2. \A k \in 1 .. Len(p.batch) : p.batch[k].id = i => k = j
      <4> SUFFICES ASSUME NEW k \in 1 .. Len(p.batch), p.batch[k].id = i, k # j PROVE FALSE
        OBVIOUS
      <4>1. i \in Nat /\ (k < j \/ j < k)
        BY BoundsAssumption DEF Ids
      <4>2. i < i
        BY <1>1, <3>1, <4>1 DEF Rising
      <4> QED BY <4>1, <4>2
    <3>3. places(i) = {j}
      BY <3>1, <3>2
    <3> QED BY <3>1, <3>3, FS_Singleton DEF SentIds
  <2> QED BY <2>1, <2>2
<1> HIDE DEF places
<1>4. counted' \in [Ids -> Nat] /\ \A i \in Ids : counted'[i] # counted[i] => counted'[i] = 1 /\ i \in SentIds(p)
  BY <1>1, <1>2, <1>3
<1>5. /\ \/ AnswerPost(p)
         \/ /\ p.flush # Unawaited /\ wire' = wire \ {p}
            /\ tab' = [tab EXCEPT ![p.tab].flush[p.flush] = "idle"]
      /\ UNCHANGED tracked
  BY DEF Commit
<1> QED BY <1>4, <1>5, AnswerStep

-------------------------------------------------------------------------------
\* Sums over finite sets.

\* What is a unit.
LEMMA UnitOf ==
  ASSUME NEW S, NEW f, NEW u
  PROVE  u \in Units(S, f) <=> u = <<u[1], u[2]>> /\ u[1] \in S /\ u[2] \in 1 .. f[u[1]]
BY DEF Units

\* A column of units, and how many there are.
LEMMA ColumnSize ==
  ASSUME NEW x, NEW a \in Int, NEW b \in Int
  PROVE  /\ IsFiniteSet({x} \X (a .. b))
         /\ Cardinality({x} \X (a .. b)) = IF a > b THEN 0 ELSE b - a + 1
<1> DEFINE one == {x}
           many == a .. b
           size == IF a > b THEN 0 ELSE b - a + 1
<1>1. IsFiniteSet(one) /\ Cardinality(one) = 1
  BY FS_Singleton
<1>2. IsFiniteSet(many) /\ Cardinality(many) = size /\ size \in Nat
  BY FS_Interval
<1> HIDE DEF one, many, size
<1>3. IsFiniteSet(one \X many) /\ Cardinality(one \X many) = 1 * size
  BY <1>1, <1>2, FS_Product
<1>4. 1 * size = size
  BY <1>2
<1> QED BY <1>3, <1>4 DEF one, many, size

\* The units of a sum of numbers over a finite set are finite.
LEMMA UnitsFinite ==
  ASSUME NEW S, IsFiniteSet(S), NEW f, \A x \in S : f[x] \in Nat
  PROVE  IsFiniteSet(Units(S, f)) /\ SumOver(S, f) \in Nat
<1> DEFINE of == [x \in S |-> {x} \X (1 .. f[x])]
           parts == {of[x] : x \in S}
<1>1. of \in Surjection(S, parts)
  BY DEF Surjection
<1>2. IsFiniteSet(parts)
  BY <1>1, FS_Surjection
<1>3. \A x \in S : IsFiniteSet(of[x])
  <2> SUFFICES ASSUME NEW x \in S PROVE IsFiniteSet({x} \X (1 .. f[x]))
    OBVIOUS
  <2>1. 1 \in Int /\ f[x] \in Int
    OBVIOUS
  <2> QED BY <2>1, ColumnSize
<1>4. UNION parts = Units(S, f)
  BY DEF Units
<1>5. \A T \in parts : IsFiniteSet(T)
  BY <1>3
<1> HIDE DEF parts
<1>6. IsFiniteSet(Units(S, f))
  BY <1>2, <1>4, <1>5, FS_UNION
<1> QED BY <1>6, FS_CardinalityType DEF SumOver

\* A set that disjoint parts cover, with their sizes.
Parts(S, f, part, whole) ==
  /\ \A x \in S : IsFiniteSet(part[x]) /\ Cardinality(part[x]) = f[x]
  /\ \A x, y \in S : x # y => part[x] \cap part[y] = {}
  /\ \A w : w \in whole <=> \E x \in S : w \in part[x]

\* Its size is the sum of the sizes of its parts.
LEMMA SumOfParts ==
  ASSUME NEW S, IsFiniteSet(S), NEW f, NEW part, NEW whole, Parts(S, f, part, whole)
  PROVE  IsFiniteSet(whole) /\ Cardinality(whole) = SumOver(S, f)
<1> USE DEF Parts
<1> DEFINE numbering == [x \in S |-> CHOOSE b : b \in Bijection(1 .. f[x], part[x])]
           nth == [u \in Units(S, f) |-> numbering[u[1]][u[2]]]
<1>1. \A x \in S : f[x] \in Nat /\ \E b : b \in Bijection(1 .. f[x], part[x])
  BY FS_CardinalityType DEF ExistsBijection
<1>2. \A x \in S : numbering[x] \in Bijection(1 .. f[x], part[x])
  BY <1>1
<1> HIDE DEF numbering
<1>3. \A x \in S : /\ \A i \in 1 .. f[x] : numbering[x][i] \in part[x]
                   /\ \A i, j \in 1 .. f[x] : numbering[x][i] = numbering[x][j] => i = j
                   /\ \A e \in part[x] : \E i \in 1 .. f[x] : numbering[x][i] = e
  <2> SUFFICES ASSUME NEW x \in S
               PROVE  /\ \A i \in 1 .. f[x] : numbering[x][i] \in part[x]
                      /\ \A i, j \in 1 .. f[x] : numbering[x][i] = numbering[x][j] => i = j
                      /\ \A e \in part[x] : \E i \in 1 .. f[x] : numbering[x][i] = e
    OBVIOUS
  <2>1. numbering[x] \in Injection(1 .. f[x], part[x]) /\ numbering[x] \in Surjection(1 .. f[x], part[x])
    BY <1>2 DEF Bijection
  <2> QED BY <2>1 DEF Injection, Surjection, IsInjective
<1>4. nth \in [Units(S, f) -> whole]
  <2>1. \A u \in Units(S, f) : numbering[u[1]][u[2]] \in whole
    BY <1>3, UnitOf
  <2> QED BY <2>1
<1>5. ASSUME NEW u \in Units(S, f), NEW w \in Units(S, f), nth[u] = nth[w]
      PROVE  u = w
  <2>1. /\ u = <<u[1], u[2]>> /\ u[1] \in S /\ u[2] \in 1 .. f[u[1]]
        /\ w = <<w[1], w[2]>> /\ w[1] \in S /\ w[2] \in 1 .. f[w[1]]
    BY UnitOf
  <2>2. numbering[u[1]][u[2]] = numbering[w[1]][w[2]]
    BY <1>5
  <2>3. u[1] = w[1]
    BY <1>3, <2>1, <2>2
  <2>4. u[2] = w[2]
    BY <1>3, <2>1, <2>2, <2>3
  <2> QED BY <2>1, <2>3, <2>4
<1>6. \A e \in whole : \E u \in Units(S, f) : nth[u] = e
  <2> SUFFICES ASSUME NEW e \in whole PROVE \E u \in Units(S, f) : nth[u] = e
    OBVIOUS
  <2>1. PICK x \in S : e \in part[x]
    OBVIOUS
  <2>2. PICK i \in 1 .. f[x] : numbering[x][i] = e
    BY <1>3, <2>1
  <2>3. <<x, i>> \in Units(S, f)
    BY UnitOf, <2>2
  <2>4. nth[<<x, i>>] = e
    BY <2>2, <2>3
  <2> QED BY <2>3, <2>4
<1> HIDE DEF nth
<1>7. nth \in Bijection(Units(S, f), whole)
  <2>1. nth \in Injection(Units(S, f), whole)
    BY <1>4, <1>5 DEF Injection, IsInjective
  <2>2. nth \in Surjection(Units(S, f), whole)
    BY <1>4, <1>6 DEF Surjection
  <2> QED BY <2>1, <2>2 DEF Bijection
<1>8. IsFiniteSet(Units(S, f))
  BY <1>1, UnitsFinite
<1>9. IsFiniteSet(whole) /\ Cardinality(whole) = Cardinality(Units(S, f))
  BY <1>7, <1>8, FS_Bijection DEF ExistsBijection
<1> QED BY <1>9 DEF SumOver

\* A sum does not exceed one over a larger set of larger numbers.
LEMMA SumBounded ==
  ASSUME NEW S, NEW T, S \subseteq T, IsFiniteSet(T), NEW f, NEW g,
         \A x \in T : g[x] \in Nat, \A x \in S : f[x] \in Nat /\ f[x] <= g[x]
  PROVE  SumOver(S, f) <= SumOver(T, g)
<1>1. Units(S, f) \subseteq Units(T, g)
  <2> SUFFICES ASSUME NEW u \in Units(S, f) PROVE u \in Units(T, g)
    OBVIOUS
  <2>1. u = <<u[1], u[2]>> /\ u[1] \in S /\ u[2] \in 1 .. f[u[1]]
    BY UnitOf
  <2>2. u[1] \in T /\ u[2] \in 1 .. g[u[1]]
    BY <2>1
  <2> QED BY <2>1, <2>2, UnitOf
<1>2. IsFiniteSet(Units(T, g))
  BY UnitsFinite
<1> QED BY <1>1, <1>2, FS_Subset DEF SumOver

\* Sums of the same numbers are the same.
LEMMA SumSame ==
  ASSUME NEW S, NEW f, NEW g, \A x \in S : f[x] = g[x]
  PROVE  SumOver(S, f) = SumOver(S, g)
<1>1. Units(S, f) = Units(S, g)
  BY DEF Units
<1> QED BY <1>1 DEF SumOver

\* A sum of nothing but zeros is zero.
LEMMA SumOfZeros ==
  ASSUME NEW S, NEW f, \A x \in S : f[x] = 0
  PROVE  SumOver(S, f) = 0
<1>1. Units(S, f) = {}
  <2> SUFFICES ASSUME NEW u \in Units(S, f) PROVE FALSE
    OBVIOUS
  <2> QED BY UnitOf
<1> QED BY <1>1, FS_EmptySet DEF SumOver

\* The sums of the rows and of the columns of a table of numbers.
Matrix(S, T, m, column, a, b) ==
  /\ \A x \in S, y \in T : m[x][y] \in Nat /\ column[y][x] = m[x][y]
  /\ \A x \in S : a[x] = SumOver(T, m[x])
  /\ \A y \in T : b[y] = SumOver(S, column[y])

\* A double sum may be taken in either order.
LEMMA SumSwap ==
  ASSUME NEW S, IsFiniteSet(S), NEW T, IsFiniteSet(T), NEW m, NEW column, NEW a, NEW b,
         Matrix(S, T, m, column, a, b)
  PROVE  SumOver(S, a) = SumOver(T, b)
<1> USE DEF Matrix
<1> DEFINE row == [x \in S |-> {x} \X Units(T, m[x])]
           whole == UNION {row[x] : x \in S}
           cell(x, y) == {x} \X ({y} \X (1 .. m[x][y]))
           part == [y \in T |-> UNION {cell(x, y) : x \in S}]
<1>1. ASSUME NEW x \in S PROVE IsFiniteSet(row[x]) /\ Cardinality(row[x]) = a[x]
  <2> DEFINE units == Units(T, m[x])
  <2>1. IsFiniteSet(units) /\ Cardinality(units) = a[x] /\ a[x] \in Nat
    BY UnitsFinite DEF SumOver
  <2>2. IsFiniteSet({x}) /\ Cardinality({x}) = 1
    BY FS_Singleton
  <2> HIDE DEF units
  <2>3. IsFiniteSet({x} \X units) /\ Cardinality({x} \X units) = 1 * a[x]
    BY <2>1, <2>2, FS_Product
  <2>4. row[x] = {x} \X units
    BY DEF units
  <2> HIDE DEF row
  <2> QED BY <2>1, <2>3, <2>4
<1>2. \A x, y \in S : x # y => row[x] \cap row[y] = {}
  OBVIOUS
<1>3. IsFiniteSet(whole) /\ Cardinality(whole) = SumOver(S, a)
  <2>1. \A x \in S : IsFiniteSet(row[x]) /\ Cardinality(row[x]) = a[x]
    BY <1>1
  <2>2. \A w : w \in whole <=> \E x \in S : w \in row[x]
    OBVIOUS
  <2> HIDE DEF row, whole
  <2>3. Parts(S, a, row, whole)
    BY <1>2, <2>1, <2>2 DEF Parts
  <2> QED BY <2>3, SumOfParts
<1>4. ASSUME NEW y \in T PROVE IsFiniteSet(part[y]) /\ Cardinality(part[y]) = b[y]
  <2> DEFINE piece == [x \in S |-> cell(x, y)]
             all == UNION {piece[x] : x \in S}
  <2>1. ASSUME NEW x \in S PROVE IsFiniteSet(piece[x]) /\ Cardinality(piece[x]) = column[y][x]
    <3> DEFINE units == {y} \X (1 .. m[x][y])
    <3>1. m[x][y] \in Nat /\ column[y][x] = m[x][y]
      OBVIOUS
    <3>2. IsFiniteSet(units) /\ Cardinality(units) = m[x][y]
      <4>1. 1 \in Int /\ m[x][y] \in Int /\ (IF 1 > m[x][y] THEN 0 ELSE m[x][y] - 1 + 1) = m[x][y]
        BY <3>1
      <4> QED BY <4>1, ColumnSize
    <3>3. IsFiniteSet({x}) /\ Cardinality({x}) = 1
      BY FS_Singleton
    <3> HIDE DEF units
    <3>4. IsFiniteSet({x} \X units) /\ Cardinality({x} \X units) = 1 * m[x][y]
      BY <3>2, <3>3, FS_Product
    <3>5. piece[x] = {x} \X units
      BY DEF units
    <3> HIDE DEF piece
    <3> QED BY <3>1, <3>4, <3>5
  <2>2. \A x, z \in S : x # z => piece[x] \cap piece[z] = {}
    OBVIOUS
  <2>3. part[y] = all
    OBVIOUS
  <2>4. IsFiniteSet(all) /\ Cardinality(all) = SumOver(S, column[y])
    <3>1. \A x \in S : IsFiniteSet(piece[x]) /\ Cardinality(piece[x]) = column[y][x]
      BY <2>1
    <3>2. \A w : w \in all <=> \E x \in S : w \in piece[x]
      OBVIOUS
    <3> HIDE DEF piece, all
    <3>3. Parts(S, column[y], piece, all)
      BY <2>2, <3>1, <3>2 DEF Parts
    <3> QED BY <3>3, SumOfParts
  <2> HIDE DEF all, part
  <2> QED BY <2>3, <2>4
<1>5. \A y, z \in T : y # z => part[y] \cap part[z] = {}
  OBVIOUS
<1>6. \A w : w \in whole <=> \E y \in T : w \in part[y]
  <2>1. \A w : w \in whole <=> \E x \in S : w = <<x, w[2]>> /\ w[2] \in Units(T, m[x])
    OBVIOUS
  <2>2. \A w : (\E y \in T : w \in part[y]) <=>
               \E x \in S, y \in T : w = <<x, w[2]>> /\ w[2] = <<y, w[2][2]>> /\ w[2][2] \in 1 .. m[x][y]
    OBVIOUS
  <2>3. \A x \in S : \A u : u \in Units(T, m[x]) <=> \E y \in T : u = <<y, u[2]>> /\ u[2] \in 1 .. m[x][y]
    BY UnitOf
  <2> HIDE DEF whole, part
  <2> QED BY <2>1, <2>2, <2>3
<1>7. Cardinality(whole) = SumOver(T, b)
  <2>1. \A y \in T : IsFiniteSet(part[y]) /\ Cardinality(part[y]) = b[y]
    BY <1>4
  <2> HIDE DEF part, whole
  <2>2. Parts(T, b, part, whole)
    BY <1>5, <1>6, <2>1 DEF Parts
  <2> QED BY <2>2, SumOfParts
<1> QED BY <1>3, <1>7

\* Sums add up number by number: the second summand's units come after those
\* of the first.
LEMMA SumAdds ==
  ASSUME NEW S, IsFiniteSet(S), NEW f, NEW g, NEW h,
         \A x \in S : f[x] \in Nat /\ g[x] \in Nat /\ h[x] = f[x] + g[x]
  PROVE  SumOver(S, h) = SumOver(S, f) + SumOver(S, g)
<1> DEFINE part == [x \in S |-> {x} \X (f[x] + 1 .. h[x])]
           rest == UNION {part[x] : x \in S}
<1>1. \A x \in S : IsFiniteSet(part[x]) /\ Cardinality(part[x]) = g[x]
  <2> SUFFICES ASSUME NEW x \in S
               PROVE  IsFiniteSet({x} \X (f[x] + 1 .. h[x])) /\ Cardinality({x} \X (f[x] + 1 .. h[x])) = g[x]
    OBVIOUS
  <2>1. f[x] + 1 \in Int /\ h[x] \in Int /\ (IF f[x] + 1 > h[x] THEN 0 ELSE h[x] - (f[x] + 1) + 1) = g[x]
    OBVIOUS
  <2> QED BY <2>1, ColumnSize
<1>2. \A x, y \in S : x # y => part[x] \cap part[y] = {}
  OBVIOUS
<1>3. IsFiniteSet(rest) /\ Cardinality(rest) = SumOver(S, g)
  <2>1. \A w : w \in rest <=> \E x \in S : w \in part[x]
    OBVIOUS
  <2> HIDE DEF part, rest
  <2>2. Parts(S, g, part, rest)
    BY <1>1, <1>2, <2>1 DEF Parts
  <2> QED BY <2>2, SumOfParts
<1>4. IsFiniteSet(Units(S, f)) /\ SumOver(S, f) \in Nat
  BY UnitsFinite
<1>5. Units(S, h) = Units(S, f) \cup rest
  <2>1. \A u : u \in rest <=> u = <<u[1], u[2]>> /\ u[1] \in S /\ u[2] \in f[u[1]] + 1 .. h[u[1]]
    OBVIOUS
  <2> HIDE DEF rest
  <2>2. \A x \in S : \A i : i \in 1 .. h[x] <=> i \in 1 .. f[x] \/ i \in f[x] + 1 .. h[x]
    OBVIOUS
  <2>3. \A u : u \in Units(S, h) <=> u \in Units(S, f) \/ u \in rest
    BY <2>1, <2>2, UnitOf
  <2> QED BY <2>3
<1>6. Units(S, f) \cap rest = {}
  <2> SUFFICES ASSUME NEW u \in Units(S, f), u \in rest PROVE FALSE
    OBVIOUS
  <2>1. u[1] \in S /\ u[2] \in 1 .. f[u[1]] /\ u[2] \in f[u[1]] + 1 .. h[u[1]]
    BY UnitOf
  <2> QED BY <2>1
<1> HIDE DEF rest
<1>7. Cardinality(Units(S, h)) = Cardinality(Units(S, f)) + Cardinality(rest) - Cardinality({})
  BY <1>3, <1>4, <1>5, <1>6, FS_Union
<1> QED BY <1>3, <1>4, <1>7, FS_EmptySet, FS_CardinalityType DEF SumOver

-------------------------------------------------------------------------------
\* The counters.

\* The rows of a table are counters of cells a day can have.
RowsFit(rows) == DOMAIN rows \subseteq Days \X Cells /\ \A r \in DOMAIN rows : rows[r] \in Nat

\* Events of a valid batch with a name, however many properties they have.
Named(events, name) == Cardinality({i \in 1 .. Len(events) : events[i].e = name})

\* The events that count in a cell.
PlacesOf(events, cell) == {i \in 1 .. Len(events) : cell \in CellsOf(events[i])}
CountedIn(events, cell) == Cardinality(PlacesOf(events, cell))

\* A count is a number.
LEMMA CountTypes ==
  ASSUME NEW events, Len(events) \in Nat
  PROVE  /\ \A n : IsFiniteSet({i \in 1 .. Len(events) : events[i].e = n}) /\ Named(events, n) \in Nat
         /\ \A c : IsFiniteSet(PlacesOf(events, c)) /\ CountedIn(events, c) \in Nat
<1>1. IsFiniteSet(1 .. Len(events))
  BY FS_Interval
<1>2. \A n : IsFiniteSet({i \in 1 .. Len(events) : events[i].e = n})
  BY <1>1, FS_Subset
<1>3. \A c : IsFiniteSet(PlacesOf(events, c))
  BY <1>1, FS_Subset DEF PlacesOf
<1>4. \A n : Named(events, n) \in Nat
  BY <1>2, FS_CardinalityType DEF Named
<1>5. \A c : CountedIn(events, c) \in Nat
  BY <1>3, FS_CardinalityType DEF CountedIn
<1> QED BY <1>2, <1>3, <1>4, <1>5

\* An event counts in the total of its name, and in no other total.
LEMMA TotalCounts ==
  ASSUME NEW events, NEW n
  PROVE  CountedIn(events, <<n, Total>>) = Named(events, n)
<1>1. PlacesOf(events, <<n, Total>>) = {i \in 1 .. Len(events) : events[i].e = n}
  BY DEF PlacesOf, CellsOf
<1> QED BY <1>1 DEF CountedIn, Named

\* An event has one value of a property at most: the counts of the values of
\* a property do not exceed the number of events.
LEMMA ValuesCount ==
  ASSUME NEW events, Len(events) \in Nat, NEW n \in EventNames, NEW k \in PermittedOn[n], NEW f,
         \A v \in ValuesOf[k] : f[v] = CountedIn(events, <<n, <<k, v>>>>)
  PROVE  SumOver(ValuesOf[k], f) <= Named(events, n)
<1> DEFINE values == ValuesOf[k]
           part == [v \in values |-> PlacesOf(events, <<n, <<k, v>>>>)]
           whole == UNION {part[v] : v \in values}
           named == {i \in 1 .. Len(events) : events[i].e = n}
<1>1. k # "" /\ IsFiniteSet(values)
  BY StoreAssumption
<1>2. \A v \in values, i \in 1 .. Len(events) :
        <<n, <<k, v>>>> \in CellsOf(events[i]) => events[i].e = n /\ v = events[i].p[k]
  BY <1>1 DEF CellsOf, Total
<1>3. \A v \in values : \A i \in part[v] : i \in named /\ v = events[i].p[k]
  BY <1>2 DEF PlacesOf
<1>4. \A v \in values : IsFiniteSet(part[v]) /\ Cardinality(part[v]) = f[v]
  BY CountTypes DEF CountedIn
<1> HIDE DEF part, values, named
<1>5. \A v, w \in values : v # w => part[v] \cap part[w] = {}
  BY <1>3
<1>6. Cardinality(whole) = SumOver(values, f)
  <2>1. \A w : w \in whole <=> \E v \in values : w \in part[v]
    OBVIOUS
  <2> HIDE DEF whole
  <2>2. Parts(values, f, part, whole)
    BY <1>4, <1>5, <2>1 DEF Parts
  <2> QED BY <1>1, <2>2, SumOfParts
<1>7. whole \subseteq named
  BY <1>3
<1>8. IsFiniteSet(named) /\ Cardinality(named) = Named(events, n)
  BY CountTypes DEF named, Named
<1>9. Cardinality(whole) <= Cardinality(named)
  BY <1>7, <1>8, FS_Subset
<1> QED BY <1>6, <1>8, <1>9 DEF values

\* A valid event counts in listed cells only.
LEMMA CellsFit ==
  ASSUME NEW raw, NEW day, EventIsValid(raw, day)
  PROVE  CellsOf(raw) \subseteq Cells
<1>1. raw.e \in EventNames /\ \A k \in DOMAIN raw.p : k \in PermittedOn[raw.e] /\ raw.p[k] \in ValuesOf[k]
  BY DEF EventIsValid
<1>2. {raw.e} \X Dimensions(raw.e) \subseteq Cells
  BY <1>1 DEF Cells
<1>3. Total \in Dimensions(raw.e) /\ \A k \in DOMAIN raw.p : <<k, raw.p[k]>> \in Dimensions(raw.e)
  BY <1>1 DEF Dimensions
<1> QED BY <1>2, <1>3 DEF CellsOf

\* What a transaction does to the table: it adds to rows of its day only, and
\* to a row the number of its events.
LEMMA RecordedFits ==
  ASSUME NEW tbl, RowsFit(tbl), NEW day \in Days, NEW events, Len(events) \in Nat,
         \A i \in 1 .. Len(events) : EventIsValid(events[i], day)
  PROVE  LET new == Recorded(tbl, day, Deltas(events))
         IN /\ RowsFit(new)
            /\ \A r \in DOMAIN tbl : r \in DOMAIN new
            /\ \A r \in DOMAIN new : r[1] # day => r \in DOMAIN tbl /\ new[r] = tbl[r]
            /\ \A d \in Days : \A c :
                 CountOf(new, <<d, c>>) = CountOf(tbl, <<d, c>>) + IF d = day THEN CountedIn(events, c) ELSE 0
<1> DEFINE touched == UNION {CellsOf(events[i]) : i \in 1 .. Len(events)}
           deltas == Deltas(events)
           rows == {<<day, c>> : c \in touched}
           new == Recorded(tbl, day, deltas)
<1>1. DOMAIN deltas = touched /\ \A c \in touched : deltas[c] = CountedIn(events, c)
  BY DEF Deltas, CountedIn, PlacesOf
<1>2. touched \subseteq Cells
  BY CellsFit
<1>3. \A c : CountedIn(events, c) \in Nat
  BY CountTypes
<1>4. \A c : c \notin touched => CountedIn(events, c) = 0
  <2>1. \A c : c \notin touched => PlacesOf(events, c) = {}
    BY DEF PlacesOf
  <2> QED BY <2>1, FS_EmptySet DEF CountedIn
<1> HIDE DEF deltas
<1>5. /\ DOMAIN new = DOMAIN tbl \cup rows
      /\ \A r \in DOMAIN new : new[r] = CountOf(tbl, r) + IF r \in rows THEN deltas[r[2]] ELSE 0
  BY <1>1 DEF Recorded
<1>6. \A r \in rows : r[1] = day /\ r[2] \in touched
  OBVIOUS
<1> HIDE DEF rows, new, touched
<1>7. \A r : CountOf(tbl, r) \in Nat
  BY DEF CountOf, RowsFit
<1>8. RowsFit(new)
  <2> SUFFICES ASSUME NEW r \in DOMAIN new PROVE r \in Days \X Cells /\ new[r] \in Nat
    BY DEF RowsFit
  <2>1. r \in Days \X Cells
    BY <1>2, <1>5 DEF RowsFit, rows
  <2>2. r \in rows => deltas[r[2]] \in Nat
    BY <1>1, <1>3, <1>6
  <2>3. new[r] \in Nat
    BY <1>5, <1>7, <2>2
  <2> QED BY <2>1, <2>3
<1>9. \A r \in DOMAIN new : r[1] # day => r \in DOMAIN tbl /\ new[r] = tbl[r]
  <2> SUFFICES ASSUME NEW r \in DOMAIN new, r[1] # day PROVE r \in DOMAIN tbl /\ new[r] = tbl[r]
    OBVIOUS
  <2>1. r \notin rows /\ r \in DOMAIN tbl
    BY <1>5, <1>6
  <2>2. new[r] = CountOf(tbl, r) + 0 /\ CountOf(tbl, r) \in Nat
    BY <1>5, <1>7, <2>1
  <2> QED BY <2>1, <2>2 DEF CountOf
<1>10. ASSUME NEW d \in Days, NEW c
       PROVE  CountOf(new, <<d, c>>) = CountOf(tbl, <<d, c>>) + IF d = day THEN CountedIn(events, c) ELSE 0
  <2> DEFINE r == <<d, c>>
  <2>1. r \in rows <=> d = day /\ c \in touched
    BY DEF rows
  <2>2. r[2] = c /\ CountOf(tbl, r) \in Nat /\ CountedIn(events, c) \in Nat
    BY <1>3, <1>7
  <2> HIDE DEF r
  <2>3. CASE r \in rows
    <3>1. r \in DOMAIN new /\ new[r] = CountOf(tbl, r) + deltas[c] /\ deltas[c] = CountedIn(events, c) /\ d = day
      BY <1>1, <1>5, <2>1, <2>2, <2>3
    <3>2. CountOf(new, r) = CountOf(tbl, r) + CountedIn(events, c)
      BY <3>1 DEF CountOf
    <3> QED BY <3>1, <3>2 DEF r
  <2>4. CASE r \notin rows
    <3>1. d = day => CountedIn(events, c) = 0
      BY <1>4, <2>1, <2>4
    <3>2. CountOf(new, r) = CountOf(tbl, r)
      <4>1. CASE r \in DOMAIN tbl
        <5>1. r \in DOMAIN new /\ new[r] = CountOf(tbl, r) + 0
          BY <1>5, <2>4, <4>1
        <5>2. CountOf(new, r) = new[r]
          BY <5>1 DEF CountOf
        <5> QED BY <2>2, <5>1, <5>2
      <4>2. CASE r \notin DOMAIN tbl
        BY <1>5, <2>4, <4>2 DEF CountOf
      <4> QED BY <4>1, <4>2
    <3>3. CountOf(new, r) = CountOf(tbl, r) + IF d = day THEN CountedIn(events, c) ELSE 0
      BY <2>2, <3>1, <3>2
    <3> QED BY <3>3 DEF r
  <2> QED BY <2>3, <2>4
<1>11. \A r \in DOMAIN tbl : r \in DOMAIN new
  BY <1>5
<1> QED BY <1>8, <1>9, <1>10, <1>11 DEF new, deltas

\* The retention delete removes the rows before its cutoff and no other.
LEMMA PurgedFits ==
  ASSUME NEW tbl, RowsFit(tbl), NEW cutoff \in Int
  PROVE  LET new == Purged(tbl, cutoff)
         IN /\ RowsFit(new)
            /\ DOMAIN new = {r \in DOMAIN tbl : r[1] >= cutoff}
            /\ \A r \in DOMAIN new : new[r] = tbl[r]
            /\ \A c : \A d \in Days : CountOf(new, <<d, c>>) = IF d < cutoff THEN 0 ELSE CountOf(tbl, <<d, c>>)
<1> DEFINE new == Purged(tbl, cutoff)
<1>1. DOMAIN new = {r \in DOMAIN tbl : r[1] >= cutoff} /\ \A r \in DOMAIN new : new[r] = tbl[r]
  BY DEF Purged, Restrict
<1> HIDE DEF new
<1>2. RowsFit(new)
  BY <1>1 DEF RowsFit
<1>3. ASSUME NEW d \in Days, NEW c
      PROVE  CountOf(new, <<d, c>>) = IF d < cutoff THEN 0 ELSE CountOf(tbl, <<d, c>>)
  <2> DEFINE r == <<d, c>>
  <2>1. r[1] = d /\ d \in Int
    BY DEF Days
  <2> HIDE DEF r
  <2>2. (r[1] >= cutoff) <=> ~(d < cutoff)
    BY <2>1
  <2> QED BY <1>1, <2>2 DEF CountOf, r
<1> QED BY <1>1, <1>2, <1>3 DEF new

\* What the values of a property add up to in the rows of an event on a day.
SplitOf(tbl, d, n, k) == SumOver(ValuesOf[k], [v \in ValuesOf[k] |-> CountOf(tbl, <<d, <<n, <<k, v>>>>>>)])

\* The values of a permitted property are finitely many.
LEMMA FiniteValues ==
  ASSUME NEW n \in EventNames, NEW k \in PermittedOn[n]
  PROVE  IsFiniteSet(ValuesOf[k])
BY StoreAssumption

\* Such a sum is a number.
LEMMA SplitType ==
  ASSUME NEW tbl, RowsFit(tbl), NEW d, NEW n \in EventNames, NEW k \in PermittedOn[n]
  PROVE  SplitOf(tbl, d, n, k) \in Nat
<1> DEFINE f == [v \in ValuesOf[k] |-> CountOf(tbl, <<d, <<n, <<k, v>>>>>>)]
<1>1. \A v \in ValuesOf[k] : f[v] \in Nat
  BY DEF RowsFit, CountOf
<1>2. IsFiniteSet(ValuesOf[k])
  BY FiniteValues
<1> HIDE DEF f
<1>3. SumOver(ValuesOf[k], f) \in Nat
  BY <1>1, <1>2, UnitsFinite
<1> QED BY <1>3 DEF f, SplitOf

\* A transaction adds to such a sum no more than the events of the name.
LEMMA SplitRecorded ==
  ASSUME NEW tbl, RowsFit(tbl), NEW day \in Days, NEW events, Len(events) \in Nat,
         \A i \in 1 .. Len(events) : EventIsValid(events[i], day),
         NEW d \in Days, NEW n \in EventNames, NEW k \in PermittedOn[n]
  PROVE  SplitOf(Recorded(tbl, day, Deltas(events)), d, n, k)
           <= SplitOf(tbl, d, n, k) + IF d = day THEN Named(events, n) ELSE 0
<1> DEFINE new == Recorded(tbl, day, Deltas(events))
           values == ValuesOf[k]
           old == [v \in values |-> CountOf(tbl, <<d, <<n, <<k, v>>>>>>)]
           added == [v \in values |-> CountedIn(events, <<n, <<k, v>>>>)]
           sum == [v \in values |-> CountOf(new, <<d, <<n, <<k, v>>>>>>)]
<1>1. \A c : CountOf(new, <<d, c>>) = CountOf(tbl, <<d, c>>) + IF d = day THEN CountedIn(events, c) ELSE 0
  BY RecordedFits
<1>2. \A c : CountOf(tbl, <<d, c>>) \in Nat /\ CountedIn(events, c) \in Nat
  BY CountTypes DEF CountOf, RowsFit
<1>3. IsFiniteSet(values)
  BY FiniteValues
<1> HIDE DEF new
<1>4. \A v \in values : /\ old[v] \in Nat /\ added[v] \in Nat
                        /\ sum[v] = old[v] + IF d = day THEN added[v] ELSE 0
  BY <1>1, <1>2
<1>5. SumOver(values, added) <= Named(events, n)
  BY ValuesCount
<1>6. SplitOf(tbl, d, n, k) = SumOver(values, old) /\ SplitOf(new, d, n, k) = SumOver(values, sum)
  BY DEF SplitOf
<1> HIDE DEF values, old, added, sum
<1>7. SumOver(values, old) \in Nat /\ SumOver(values, added) \in Nat /\ Named(events, n) \in Nat
  BY <1>3, <1>4, UnitsFinite, CountTypes
<1>8. CASE d = day
  <2>1. \A v \in values : old[v] \in Nat /\ added[v] \in Nat /\ sum[v] = old[v] + added[v]
    BY <1>4, <1>8
  <2>2. SumOver(values, sum) = SumOver(values, old) + SumOver(values, added)
    BY <1>3, <2>1, SumAdds
  <2> QED BY <1>5, <1>6, <1>7, <1>8, <2>2 DEF new
<1>9. CASE d # day
  <2>1. \A v \in values : sum[v] = old[v]
    BY <1>4, <1>9
  <2>2. SumOver(values, sum) = SumOver(values, old)
    BY <2>1, SumSame
  <2> QED BY <1>6, <1>7, <1>9, <2>2 DEF new
<1> QED BY <1>8, <1>9

\* The retention delete clears the sums of the days before its cutoff.
LEMMA SplitPurged ==
  ASSUME NEW tbl, RowsFit(tbl), NEW cutoff \in Int,
         NEW d \in Days, NEW n \in EventNames, NEW k \in PermittedOn[n]
  PROVE  SplitOf(Purged(tbl, cutoff), d, n, k) = IF d < cutoff THEN 0 ELSE SplitOf(tbl, d, n, k)
<1> DEFINE values == ValuesOf[k]
           old == [v \in values |-> CountOf(tbl, <<d, <<n, <<k, v>>>>>>)]
           kept == [v \in values |-> CountOf(Purged(tbl, cutoff), <<d, <<n, <<k, v>>>>>>)]
<1>1. \A c : CountOf(Purged(tbl, cutoff), <<d, c>>) = IF d < cutoff THEN 0 ELSE CountOf(tbl, <<d, c>>)
  BY PurgedFits
<1>2. \A v \in values : kept[v] = IF d < cutoff THEN 0 ELSE old[v]
  BY <1>1
<1>3. SplitOf(tbl, d, n, k) = SumOver(values, old) /\ SplitOf(Purged(tbl, cutoff), d, n, k) = SumOver(values, kept)
  BY DEF SplitOf
<1> HIDE DEF values, old, kept
<1>4. CASE d < cutoff
  <2>1. SumOver(values, kept) = 0
    BY <1>2, <1>4, SumOfZeros
  <2> QED BY <1>3, <1>4, <2>1
<1>5. CASE ~(d < cutoff)
  <2>1. SumOver(values, kept) = SumOver(values, old)
    BY <1>2, <1>5, SumSame
  <2> QED BY <1>3, <1>5, <2>1
<1> QED BY <1>4, <1>5

-------------------------------------------------------------------------------
\* The inductive invariant.

DaysFit == today \in Days /\ cleared \in Days /\ foreign \in 0 .. MaxForeign

\* What was parsed and not yet committed is valid, and no older than yesterday.
ParsedFits ==
  \A p \in wire : p.phase = "parsed" =>
    /\ p.day \in {today - 1, today}
    /\ \A i \in 1 .. Len(p.batch) : EventIsValid(Raw(p.batch[i]), p.day)

StoreFits ==
  /\ RowsFit(table) /\ truth \in [Days \X EventNames -> Nat]
  /\ \A d \in Days, n \in EventNames : CountOf(table, <<d, <<n, Total>>>>) = truth[<<d, n>>]
  /\ \A d \in Days, n \in EventNames : \A k \in PermittedOn[n] : SplitOf(table, d, n, k) <= truth[<<d, n>>]

\* A call of the page that is not replaced asked for the filters of the page.
PageFits ==
  /\ page = [filter |-> page.filter, loads |-> page.loads, view |-> page.view, calls |-> page.calls]
  /\ page.filter \in Filters \cup {OpeningFilter} /\ page.loads \in 1 .. MaxLoads
  /\ page.view.kind \in {"loading", "loaded", "error"}
  /\ \A call \in page.calls :
       /\ call.no \in Nat /\ call.no <= page.loads
       /\ call.filter \in Filters \cup {OpeningFilter}
       /\ call.no = page.loads => call.filter = page.filter

PageIsRight == ReportIsHonest /\ ReportCountsEvents

AnalyticsInv == QueueInv /\ DaysFit /\ ParsedFits /\ StoreFits /\ PageFits /\ PageIsRight

\* A request that is parsed was so before, or is parsed now.
LEMMA ParsedOrigin ==
  ASSUME AnalyticsNext, wire \subseteq PostType
  PROVE  \A p \in wire' : p.phase = "parsed" =>
           \/ \E o \in wire : o.phase = "parsed" /\ o.batch = p.batch /\ o.day = p.day
           \/ /\ p.day = today /\ today' = today
              /\ \A i \in 1 .. Len(p.batch) : EventIsValid(Raw(p.batch[i]), today)
<1> SUFFICES ASSUME NEW p \in wire', p.phase = "parsed", p \notin wire
             PROVE  \/ \E o \in wire : o.phase = "parsed" /\ o.batch = p.batch /\ o.day = p.day
                    \/ /\ p.day = today /\ today' = today
                       /\ \A i \in 1 .. Len(p.batch) : EventIsValid(Raw(p.batch[i]), today)
  OBVIOUS
<1>1. /\ \A t, f, batch : Post(t, f, batch).phase = "sent"
      /\ \A t, f, s : \A q \in FlushBegun(t, f, s).sent : q.phase = "sent"
      /\ \A t, s : \A q \in UnloadPosts(t, s) : q.phase = "sent"
  <2>1. \A t, f, batch : Post(t, f, batch).phase = "sent"
    BY DEF Post
  <2>2. \A t, f, s : \A q \in FlushBegun(t, f, s).sent : q.phase = "sent"
    BY <2>1 DEF FlushBegun
  <2>3. \A t, s : \A q \in UnloadPosts(t, s) : q.phase = "sent"
    BY <2>1 DEF UnloadPosts
  <2> QED BY <2>1, <2>2, <2>3
<1>2. ASSUME NEW t \in Tabs, NEW e \in Events, Track(t, e) PROVE FALSE
  BY <1>1, <1>2 DEF Track
<1>3. ASSUME NEW t \in Tabs, Timer(t) PROVE FALSE
  BY <1>1, <1>3 DEF Timer
<1>4. ASSUME NEW t \in Tabs, NEW a \in {"yes", "no"}, ProbeAnswers(t, a) PROVE FALSE
  <2> DEFINE waiting == {f \in Flushes : tab[t].flush[f] = "probe"}
             turn(f) == Cardinality({g \in waiting : g <= f})
             lucky == IF a # "yes" THEN {}
                      ELSE {f \in waiting : (turn(f) - 1) * ClientBatch < Len(tab[t].queue)}
  <2>1. wire' = wire \cup {Post(t, f, Batch(tab[t].queue, turn(f))) : f \in lucky}
    BY <1>4 DEF ProbeAnswers
  <2> HIDE DEF lucky, turn
  <2> QED BY <1>1, <2>1
<1>5. ASSUME NEW t \in Tabs, Hide(t) \/ Show(t) PROVE FALSE
  BY <1>1, <1>5 DEF Hide, Show
<1>6. ASSUME NEW t \in Tabs, Close(t)
      PROVE  \E o \in wire : o.phase = "parsed" /\ o.batch = p.batch /\ o.day = p.day
  <2>1. PICK o \in wire : p = [o EXCEPT !.flush = IF o.tab = t THEN Unawaited ELSE @]
    BY <1>1, <1>6 DEF Close
  <2>2. o \in PostType
    BY <2>1
  <2>3. o.phase = p.phase /\ o.batch = p.batch /\ o.day = p.day
    BY <2>1, <2>2 DEF PostType
  <2> QED BY <2>1, <2>3
<1>7. ASSUME NEW q \in wire, AnswerPost(q) PROVE FALSE
  BY <1>1, <1>7 DEF AnswerPost, FlushGoesOn
<1>8. ASSUME NEW q \in wire, RefuseBatch(q) \/ Commit(q) \/ Lose(q) PROVE FALSE
  BY <1>7, <1>8 DEF RefuseBatch, Commit, Lose
<1>9. ASSUME NEW q \in wire, Parse(q)
      PROVE  /\ p.day = today /\ today' = today
             /\ \A i \in 1 .. Len(p.batch) : EventIsValid(Raw(p.batch[i]), today)
  <2> DEFINE events == [i \in 1 .. Len(q.batch) |-> Raw(q.batch[i])]
  <2>1. p = [q EXCEPT !.phase = "parsed", !.day = today] /\ q \in PostType /\ today' = today
    BY <1>9 DEF Parse, Elsewhere
  <2>2. p.batch = q.batch /\ p.day = today /\ Len(q.batch) \in Nat
    BY <2>1, LenProperties DEF PostType
  <2>3. BatchIsValid([extra |-> FALSE, events |-> events], today)
    BY <1>9 DEF Parse
  <2>4. \A i \in 1 .. Len(events) : EventIsValid(events[i], today)
    BY <2>3 DEF BatchIsValid
  <2>5. Len(events) = Len(q.batch) /\ \A i \in 1 .. Len(q.batch) : events[i] = Raw(q.batch[i])
    BY <2>2
  <2> HIDE DEF events
  <2>6. \A i \in 1 .. Len(q.batch) : EventIsValid(Raw(q.batch[i]), today)
    BY <2>4, <2>5
  <2> QED BY <2>1, <2>2, <2>6
<1>10. ASSUME \/ \E b \in Bodies : ForeignPost(b)
              \/ NextDay \/ Purge \/ Refresh \/ ReportCall
              \/ \E f \in Filters \cup {OpeningFilter} : ChangeFilter(f)
       PROVE  FALSE
  <2>1. wire' = wire
    BY <1>10 DEF ForeignPost, NextDay, Purge, Refresh, ReportCall, ChangeFilter, Reload, Report, ReportFails
  <2> QED BY <2>1
<1> QED BY <1>2, <1>3, <1>4, <1>5, <1>6, <1>8, <1>9, <1>10 DEF AnalyticsNext, Network

\* Every step keeps the events in place.
LEMMA QueueNext ==
  ASSUME QueueInv, today \in Days, [AnalyticsNext]_analyticsVars
  PROVE  QueueInv'
<1>1. CASE UNCHANGED analyticsVars
  BY <1>1, QueueKept DEF analyticsVars
<1>2. ASSUME NEW t \in Tabs, NEW e \in Events, Track(t, e) PROVE QueueInv'
  BY <1>2, TrackStep
<1>3. ASSUME NEW t \in Tabs, Timer(t) PROVE QueueInv'
  BY <1>3, TimerStep
<1>4. ASSUME NEW t \in Tabs, NEW a \in {"yes", "no"}, ProbeAnswers(t, a) PROVE QueueInv'
  BY <1>4, ProbeStep
<1>5. ASSUME NEW t \in Tabs, Hide(t) PROVE QueueInv'
  BY <1>5, HideStep
<1>6. ASSUME NEW t \in Tabs, Show(t) PROVE QueueInv'
  BY <1>6, ShowStep
<1>7. ASSUME NEW t \in Tabs, Close(t) PROVE QueueInv'
  BY <1>7, CloseStep
<1>8. ASSUME NEW p \in wire, RefuseBatch(p) \/ Lose(p) PROVE QueueInv'
  <2>1. /\ \/ AnswerPost(p)
           \/ /\ p.flush # Unawaited /\ wire' = wire \ {p}
              /\ tab' = [tab EXCEPT ![p.tab].flush[p.flush] = "idle"]
        /\ UNCHANGED <<tracked, counted>>
    BY <1>8 DEF RefuseBatch, Lose, Elsewhere
  <2>2. counted' \in [Ids -> Nat] /\ \A i \in Ids : counted'[i] = counted[i]
    BY <2>1 DEF QueueInv
  <2> QED BY <2>1, <2>2, AnswerStep
<1>9. ASSUME NEW p \in wire, Parse(p) PROVE QueueInv'
  BY <1>9, ParseStep
<1>10. ASSUME NEW p \in wire, Commit(p) PROVE QueueInv'
  BY <1>10, CommitStep
<1>11. ASSUME \/ \E b \in Bodies : ForeignPost(b)
              \/ NextDay \/ Purge \/ Refresh \/ ReportCall
              \/ \E f \in Filters \cup {OpeningFilter} : ChangeFilter(f)
       PROVE  QueueInv'
  <2>1. UNCHANGED <<tab, wire, tracked, counted>>
    BY <1>11 DEF ForeignPost, NextDay, Purge, Refresh, ReportCall, ChangeFilter, Reload, Report, ReportFails
  <2> QED BY <2>1, QueueKept
<1> QED BY <1>1, <1>2, <1>3, <1>4, <1>5, <1>6, <1>7, <1>8, <1>9, <1>10, <1>11 DEF AnalyticsNext, Network

\* Steps that are of neither the clock, the store nor the report page.
LEMMA OtherSteps ==
  ASSUME AnalyticsNext
  PROVE  \/ UNCHANGED <<page, table, foreign, truth, cleared, today>>
         \/ \E p \in wire : Commit(p)
         \/ \E b \in Bodies : ForeignPost(b)
         \/ NextDay \/ Purge \/ Refresh \/ ReportCall
         \/ \E f \in Filters \cup {OpeningFilter} : ChangeFilter(f)
BY DEF AnalyticsNext, Network, Track, Timer, ProbeAnswers, Hide, Show, Close, RefuseBatch, Parse, Lose, Elsewhere

\* What the assumptions say of days and limits.
LEMMA DayBounds ==
  /\ Retention \in Nat \ {0} /\ MaxDay \in Nat /\ Retention + 2 <= MaxDay
  /\ MaxForeign \in Nat /\ MaxBatch \in Nat \ {0} /\ MaxLoads \in Nat \ {0}
BY AnalyticsAssumption, StoreAssumption, BoundsAssumption

\* Days only go on, one at a time.
LEMMA DaysStep ==
  ASSUME DaysFit, [AnalyticsNext]_analyticsVars
  PROVE  DaysFit' /\ today' \in {today, today + 1}
<1>1. today \in Nat /\ today <= MaxDay /\ cleared \in Nat /\ cleared <= MaxDay /\ foreign \in 0 .. MaxForeign
  BY DayBounds DEF DaysFit, Days
<1>2. CASE UNCHANGED analyticsVars
  BY <1>2 DEF analyticsVars, DaysFit
<1>3. CASE UNCHANGED <<page, table, foreign, truth, cleared, today>>
  BY <1>3 DEF DaysFit
<1>4. ASSUME NEW p \in wire, Commit(p) PROVE UNCHANGED <<foreign, cleared, today>>
  BY <1>4 DEF Commit
<1>5. ASSUME NEW b \in Bodies, ForeignPost(b) PROVE foreign' \in 0 .. MaxForeign /\ UNCHANGED <<cleared, today>>
  <2>1. Len(b.events) \in Nat /\ foreign + Len(b.events) <= MaxForeign /\ foreign' = foreign + Len(b.events)
    BY <1>5, DayBounds DEF ForeignPost, BatchIsValid
  <2> QED BY <1>1, <1>5, <2>1, DayBounds DEF ForeignPost
<1>6. CASE NextDay
  <2>1. today' = today + 1 /\ today < MaxDay /\ UNCHANGED <<foreign, cleared>>
    BY <1>6 DEF NextDay
  <2> QED BY <1>1, <2>1, DayBounds DEF DaysFit, Days
<1>7. CASE Purge
  <2>1. today - Retention > cleared /\ cleared' = today - Retention /\ UNCHANGED <<foreign, today>>
    BY <1>7 DEF Purge
  <2> QED BY <1>1, <2>1, DayBounds DEF DaysFit, Days
<1>8. CASE Refresh \/ ReportCall \/ \E f \in Filters \cup {OpeningFilter} : ChangeFilter(f)
  <2>1. UNCHANGED <<foreign, cleared, today>>
    BY <1>8 DEF Refresh, ReportCall, ChangeFilter, Reload, Report, ReportFails
  <2> QED BY <2>1 DEF DaysFit
<1>9. ASSUME foreign' \in 0 .. MaxForeign, UNCHANGED <<cleared, today>> PROVE DaysFit' /\ today' = today
  BY <1>9 DEF DaysFit
<1> QED BY <1>1, <1>2, <1>3, <1>4, <1>5, <1>6, <1>7, <1>8, <1>9, OtherSteps

\* Midnight does not overtake a request by two days.
LEMMA ParsedStep ==
  ASSUME ParsedFits, DaysFit, wire \subseteq PostType, [AnalyticsNext]_analyticsVars
  PROVE  ParsedFits'
<1>1. CASE UNCHANGED analyticsVars
  BY <1>1 DEF ParsedFits, analyticsVars
<1>2. CASE AnalyticsNext
  <2> SUFFICES ASSUME NEW p \in wire', p.phase = "parsed"
               PROVE  /\ p.day \in {today' - 1, today'}
                      /\ \A i \in 1 .. Len(p.batch) : EventIsValid(Raw(p.batch[i]), p.day)
    BY DEF ParsedFits
  <2>1. today \in Int /\ today' \in {today, today + 1}
    BY <1>2, DaysStep, DayBounds DEF DaysFit, Days
  <2>2. CASE /\ p.day = today /\ today' = today
             /\ \A i \in 1 .. Len(p.batch) : EventIsValid(Raw(p.batch[i]), today)
    BY <2>1, <2>2
  <2>3. ASSUME NEW o \in wire, o.phase = "parsed", o.batch = p.batch, o.day = p.day
        PROVE  /\ p.day \in {today' - 1, today'}
               /\ \A i \in 1 .. Len(p.batch) : EventIsValid(Raw(p.batch[i]), p.day)
    <3>1. o.day \in {today - 1, today} /\ \A i \in 1 .. Len(p.batch) : EventIsValid(Raw(p.batch[i]), p.day)
      BY <2>3 DEF ParsedFits
    <3>2. today' = today + 1 => o.day = today
      <4>1. today' = today + 1 => NextDay
        <5>1. today + 1 # today
          BY <2>1
        <5>2. \/ UNCHANGED today \/ NextDay
          BY <1>2, OtherSteps DEF Commit, ForeignPost, Purge, Refresh, ReportCall, ChangeFilter, Reload, Report, ReportFails
        <5> QED BY <5>1, <5>2
      <4> QED BY <2>3, <4>1 DEF NextDay
    <3> QED BY <2>1, <2>3, <3>1, <3>2
  <2> QED BY <1>2, <2>2, <2>3, ParsedOrigin
<1> QED BY <1>1, <1>2

\* A transaction adds to the table and to the history alike.
LEMMA CountStep ==
  ASSUME StoreFits, NEW day \in Days, NEW events, Len(events) \in Nat,
         \A i \in 1 .. Len(events) : EventIsValid(events[i], day), Count(events, day)
  PROVE  /\ StoreFits'
         /\ \A r \in DOMAIN table : r \in DOMAIN table'
         /\ \A r \in DOMAIN table' : r[1] # day => r \in DOMAIN table /\ table'[r] = table[r]
<1> DEFINE new == Recorded(table, day, Deltas(events))
           added(r) == IF r[1] = day THEN Named(events, r[2]) ELSE 0
<1>1. table' = new /\ truth' = [r \in DOMAIN truth |-> truth[r] + added(r)]
  BY DEF Count, Named
<1>2. /\ RowsFit(new)
      /\ \A r \in DOMAIN table : r \in DOMAIN new
      /\ \A r \in DOMAIN new : r[1] # day => r \in DOMAIN table /\ new[r] = table[r]
      /\ \A d \in Days : \A c :
           CountOf(new, <<d, c>>) = CountOf(table, <<d, c>>) + IF d = day THEN CountedIn(events, c) ELSE 0
      /\ \A d \in Days, n \in EventNames : \A k \in PermittedOn[n] :
           SplitOf(new, d, n, k) <= SplitOf(table, d, n, k) + IF d = day THEN Named(events, n) ELSE 0
  BY RecordedFits, SplitRecorded DEF StoreFits
<1> HIDE DEF new
<1>3. \A r \in Days \X EventNames : added(r) \in Nat
  BY CountTypes
<1>4. truth \in [Days \X EventNames -> Nat] /\ DOMAIN truth = Days \X EventNames
  BY DEF StoreFits
<1>5. truth' \in [Days \X EventNames -> Nat]
  <2> HIDE DEF added
  <2>1. \A r \in Days \X EventNames : truth[r] + added(r) \in Nat
    BY <1>3, <1>4
  <2> QED BY <1>1, <1>4, <2>1
<1>6. \A d \in Days, n \in EventNames : truth'[<<d, n>>] = truth[<<d, n>>] + IF d = day THEN Named(events, n) ELSE 0
  BY <1>1, <1>4
<1>7. ASSUME NEW d \in Days, NEW n \in EventNames
      PROVE  /\ CountOf(new, <<d, <<n, Total>>>>) = truth'[<<d, n>>]
             /\ \A k \in PermittedOn[n] : SplitOf(new, d, n, k) <= truth'[<<d, n>>]
  <2>1. CountOf(new, <<d, <<n, Total>>>>)
          = CountOf(table, <<d, <<n, Total>>>>) + IF d = day THEN Named(events, n) ELSE 0
    BY <1>2, TotalCounts
  <2>2. /\ CountOf(table, <<d, <<n, Total>>>>) = truth[<<d, n>>]
        /\ \A k \in PermittedOn[n] : SplitOf(table, d, n, k) <= truth[<<d, n>>]
    BY DEF StoreFits
  <2>3. ASSUME NEW k \in PermittedOn[n] PROVE SplitOf(new, d, n, k) <= truth'[<<d, n>>]
    <3>1. SplitOf(new, d, n, k) \in Nat /\ SplitOf(table, d, n, k) \in Nat
      BY <1>2, SplitType DEF StoreFits
    <3>2. /\ SplitOf(new, d, n, k) <= SplitOf(table, d, n, k) + IF d = day THEN Named(events, n) ELSE 0
          /\ Named(events, n) \in Nat /\ truth[<<d, n>>] \in Nat
      BY <1>2, <1>4, CountTypes
    <3> QED BY <1>6, <2>2, <3>1, <3>2
  <2> QED BY <1>6, <2>1, <2>2, <2>3
<1>8. StoreFits'
  <2>1. RowsFit(table)'
    BY <1>1, <1>2 DEF RowsFit
  <2> QED BY <1>1, <1>5, <1>7, <2>1 DEF StoreFits
<1> QED BY <1>1, <1>2, <1>8

\* So does the retention delete.
LEMMA PurgeStep ==
  ASSUME StoreFits, DaysFit, Purge
  PROVE  /\ StoreFits'
         /\ \A r \in DOMAIN table' : r \in DOMAIN table /\ table'[r] = table[r]
         /\ \A r \in DOMAIN table \ DOMAIN table' : r[1] < today - Retention
<1> DEFINE cutoff == today - Retention
           new == Purged(table, cutoff)
<1>1. /\ table' = new /\ truth' = [r \in DOMAIN truth |-> IF r[1] < cutoff THEN 0 ELSE truth[r]]
      /\ cutoff \in Int
  BY DayBounds DEF Purge, DaysFit, Days
<1> HIDE DEF cutoff
<1>2. /\ RowsFit(new)
      /\ DOMAIN new = {r \in DOMAIN table : r[1] >= cutoff}
      /\ \A r \in DOMAIN new : new[r] = table[r]
      /\ \A c : \A d \in Days : CountOf(new, <<d, c>>) = IF d < cutoff THEN 0 ELSE CountOf(table, <<d, c>>)
  BY <1>1, PurgedFits DEF StoreFits
<1> HIDE DEF new
<1>3. truth \in [Days \X EventNames -> Nat]
  BY DEF StoreFits
<1>4. /\ truth' \in [Days \X EventNames -> Nat]
      /\ \A d \in Days, n \in EventNames : truth'[<<d, n>>] = IF d < cutoff THEN 0 ELSE truth[<<d, n>>]
  BY <1>1, <1>3
<1>5. ASSUME NEW d \in Days, NEW n \in EventNames
      PROVE  /\ CountOf(new, <<d, <<n, Total>>>>) = truth'[<<d, n>>]
             /\ \A k \in PermittedOn[n] : SplitOf(new, d, n, k) <= truth'[<<d, n>>]
  <2>1. CountOf(new, <<d, <<n, Total>>>>) = truth'[<<d, n>>]
    BY <1>2, <1>4 DEF StoreFits
  <2>2. ASSUME NEW k \in PermittedOn[n] PROVE SplitOf(new, d, n, k) <= truth'[<<d, n>>]
    <3>1. SplitOf(new, d, n, k) = IF d < cutoff THEN 0 ELSE SplitOf(table, d, n, k)
      BY <1>1, SplitPurged DEF new, StoreFits
    <3>2. SplitOf(table, d, n, k) <= truth[<<d, n>>]
      BY DEF StoreFits
    <3> QED BY <1>4, <3>1, <3>2
  <2> QED BY <2>1, <2>2
<1>6. StoreFits'
  <2>1. RowsFit(table)'
    BY <1>1, <1>2 DEF RowsFit
  <2> QED BY <1>1, <1>4, <1>5, <2>1 DEF StoreFits
<1>7. \A r \in DOMAIN table \ DOMAIN new : r[1] < cutoff
  <2>1. \A r \in DOMAIN table : r[1] \in Int
    <3>1. \A r \in DOMAIN table : r[1] \in Days
      BY DEF StoreFits, RowsFit
    <3> QED BY <3>1, DayBounds DEF Days
  <2> QED BY <1>1, <1>2, <2>1
<1> QED BY <1>1, <1>2, <1>6, <1>7 DEF cutoff

\* Days that are over are settled.
Settled ==
  \A r \in DOMAIN table \cup DOMAIN table' : r[1] < today - 1 =>
    \/ CountOf(table', r) = CountOf(table, r)
    \/ r[1] < today - Retention /\ r \notin DOMAIN table'

\* Every step keeps the totals right and leaves past days alone.
LEMMA StoreStep ==
  ASSUME StoreFits, ParsedFits, DaysFit, wire \subseteq PostType, [AnalyticsNext]_analyticsVars
  PROVE  StoreFits' /\ Settled
<1>0. today \in Int /\ \A d \in Days : d \in Int
  BY DayBounds DEF DaysFit, Days
<1>1. ASSUME UNCHANGED <<table, truth>> PROVE StoreFits' /\ Settled
  <2>1. StoreFits'
    <3>1. RowsFit(table)'
      BY <1>1 DEF RowsFit, StoreFits
    <3> QED BY <1>1, <3>1 DEF StoreFits
  <2>2. Settled
    BY <1>1 DEF Settled
  <2> QED BY <2>1, <2>2
<1>2. ASSUME NEW day \in Days, NEW events, Len(events) \in Nat, day >= today - 1,
             \A i \in 1 .. Len(events) : EventIsValid(events[i], day), Count(events, day)
      PROVE  StoreFits' /\ Settled
  <2>1. /\ StoreFits'
        /\ \A r \in DOMAIN table : r \in DOMAIN table'
        /\ \A r \in DOMAIN table' : r[1] # day => r \in DOMAIN table /\ table'[r] = table[r]
    BY <1>2, CountStep
  <2>2. \A r \in DOMAIN table' : r[1] < today - 1 => r[1] # day
    BY <1>0, <1>2
  <2> QED BY <2>1, <2>2 DEF Settled, CountOf
<1>3. ASSUME NEW p \in wire, Commit(p) PROVE StoreFits' /\ Settled
  <2> DEFINE events == [i \in 1 .. Len(p.batch) |-> Raw(p.batch[i])]
  <2>1. Count(events, p.day) /\ p.phase = "parsed"
    BY <1>3 DEF Commit
  <2>2. p.day \in Days /\ Len(p.batch) \in Nat
    BY LenProperties DEF PostType
  <2>3. p.day \in {today - 1, today} /\ \A i \in 1 .. Len(p.batch) : EventIsValid(Raw(p.batch[i]), p.day)
    BY <2>1 DEF ParsedFits
  <2>4. Len(events) = Len(p.batch) /\ \A i \in 1 .. Len(p.batch) : events[i] = Raw(p.batch[i])
    BY <2>2
  <2> HIDE DEF events
  <2>5. Len(events) \in Nat /\ \A i \in 1 .. Len(events) : EventIsValid(events[i], p.day)
    BY <2>2, <2>3, <2>4
  <2>6. p.day >= today - 1
    BY <1>0, <2>3
  <2> QED BY <1>2, <2>1, <2>2, <2>5, <2>6
<1>4. ASSUME NEW b \in Bodies, ForeignPost(b) PROVE StoreFits' /\ Settled
  <2> DEFINE events == b.events
  <2>1. BatchIsValid(b, today) /\ Count(events, today)
    BY <1>4 DEF ForeignPost
  <2>2. Len(events) \in Nat /\ \A i \in 1 .. Len(events) : EventIsValid(events[i], today)
    BY <2>1, DayBounds DEF BatchIsValid
  <2>3. today \in Days /\ today >= today - 1
    BY <1>0 DEF DaysFit
  <2> HIDE DEF events
  <2> QED BY <1>2, <2>1, <2>2, <2>3
<1>5. CASE Purge
  <2>1. /\ StoreFits'
        /\ \A r \in DOMAIN table' : r \in DOMAIN table /\ table'[r] = table[r]
        /\ \A r \in DOMAIN table \ DOMAIN table' : r[1] < today - Retention
    BY <1>5, PurgeStep
  <2> QED BY <2>1 DEF Settled, CountOf
<1>6. ASSUME NextDay \/ Refresh \/ ReportCall \/ \E f \in Filters \cup {OpeningFilter} : ChangeFilter(f)
      PROVE UNCHANGED <<table, truth>>
  BY <1>6 DEF NextDay, Refresh, ReportCall, ChangeFilter, Reload, Report, ReportFails
<1>7. ASSUME UNCHANGED analyticsVars PROVE UNCHANGED <<table, truth>>
  BY <1>7 DEF analyticsVars
<1>8. ASSUME AnalyticsNext
      PROVE  \/ UNCHANGED <<table, truth>> \/ Purge
             \/ \E p \in wire : Commit(p)
             \/ \E b \in Bodies : ForeignPost(b)
  BY <1>6, <1>8, OtherSteps
<1> QED BY <1>1, <1>3, <1>4, <1>5, <1>7, <1>8

-------------------------------------------------------------------------------
\* The report.

\* The days a range serves, and the rows of a cell on them.
Served(range) == (range.from .. range.to) \cap Days

LEMMA ServedFinite ==
  ASSUME NEW range
  PROVE  Served(range) \subseteq Days /\ IsFiniteSet(Served(range))
<1>1. IsFiniteSet(Days)
  BY DayBounds, FS_Interval DEF Days
<1>2. Served(range) \subseteq Days
  BY DEF Served
<1> QED BY <1>1, <1>2, FS_Subset

\* What a report adds up for a cell is its count on every day of the range:
\* the rows of the cell are as many as the days it was counted on.
LEMMA SummedFits ==
  ASSUME NEW tbl, RowsFit(tbl), NEW range, NEW n, NEW dim, NEW g,
         \A d \in Days : g[d] = CountOf(tbl, <<d, <<n, dim>>>>)
  PROVE  SummedBy(RowsIn(tbl, range), n, dim) =
           IF range.event \in {"all", n} THEN SumOver(Served(range), g) ELSE 0
<1> DEFINE rows == RowsIn(tbl, range)
           cell == <<n, dim>>
           own == RowsOf(rows, n, dim)
           part == [r \in own |-> {r[1]} \X (1 .. rows[r])]
           whole == Units(Served(range), g)
<1>1. /\ DOMAIN rows = {r \in DOMAIN tbl : r[1] \in range.from .. range.to /\ range.event \in {"all", r[2][1]}}
      /\ \A r \in DOMAIN rows : rows[r] = tbl[r]
  BY DEF RowsIn, Restrict
<1>2. SummedBy(rows, n, dim) = SumOver(own, rows)
  BY DEF SummedBy
<1> HIDE DEF rows
<1>3. \A r : r \in own <=> /\ r \in DOMAIN tbl /\ r[2] = cell
                           /\ r[1] \in range.from .. range.to /\ range.event \in {"all", n}
  BY <1>1 DEF RowsOf
<1>4. \A r \in own : r = <<r[1], cell>> /\ r[1] \in Served(range) /\ rows[r] = g[r[1]] /\ rows[r] \in Nat
  <2> SUFFICES ASSUME NEW r \in own
               PROVE  r = <<r[1], cell>> /\ r[1] \in Served(range) /\ rows[r] = g[r[1]] /\ rows[r] \in Nat
    OBVIOUS
  <2>1. r \in DOMAIN tbl /\ r \in Days \X Cells /\ tbl[r] \in Nat /\ r \in DOMAIN rows
    BY <1>3 DEF RowsFit, RowsOf
  <2>2. r = <<r[1], r[2]>> /\ r[1] \in Days
    BY <2>1
  <2>3. r = <<r[1], cell>>
    BY <1>3, <2>2
  <2>4. r[1] \in Served(range)
    BY <1>3, <2>2 DEF Served
  <2>5. g[r[1]] = tbl[r]
    BY <2>1, <2>2, <2>3 DEF CountOf
  <2> QED BY <1>1, <2>1, <2>3, <2>4, <2>5
<1> HIDE DEF own, cell
<1>5. CASE range.event \notin {"all", n}
  <2>1. SumOver(own, rows) = 0
    BY <1>3, <1>5, SumOfZeros
  <2> QED BY <1>2, <1>5, <2>1 DEF rows
<1>6. CASE range.event \in {"all", n}
  <2>1. IsFiniteSet(own)
    <3>1. IsFiniteSet(Served(range)) /\ IsFiniteSet({cell})
      BY ServedFinite, FS_Singleton
    <3>2. IsFiniteSet(Served(range) \X {cell})
      BY <3>1, FS_Product
    <3>3. own \subseteq Served(range) \X {cell}
      BY <1>4
    <3> QED BY <3>2, <3>3, FS_Subset
  <2>2. ASSUME NEW r \in own PROVE IsFiniteSet(part[r]) /\ Cardinality(part[r]) = rows[r]
    <3>1. 1 \in Int /\ rows[r] \in Int /\ (IF 1 > rows[r] THEN 0 ELSE rows[r] - 1 + 1) = rows[r]
      BY <1>4
    <3>2. IsFiniteSet({r[1]} \X (1 .. rows[r])) /\ Cardinality({r[1]} \X (1 .. rows[r])) = rows[r]
      BY <3>1, ColumnSize
    <3> QED BY <3>2
  <2>3. \A r, q \in own : r # q => part[r] \cap part[q] = {}
    <3>1. \A r, q \in own : r # q => r[1] # q[1]
      BY <1>4
    <3> QED BY <3>1
  <2>4. ASSUME NEW w \in whole PROVE \E r \in own : w \in part[r]
    <3> DEFINE r == <<w[1], cell>>
    <3>1. w = <<w[1], w[2]>> /\ w[1] \in Served(range) /\ w[2] \in 1 .. g[w[1]]
      BY UnitOf
    <3>2. w[1] \in Days /\ w[1] \in range.from .. range.to
      BY <3>1 DEF Served
    <3>3. g[w[1]] = CountOf(tbl, r) /\ g[w[1]] # 0
      BY <3>1, <3>2 DEF cell
    <3>4. r \in DOMAIN tbl /\ r[1] = w[1] /\ r[2] = cell
      BY <3>3 DEF CountOf
    <3> HIDE DEF r
    <3>5. r \in own
      BY <1>3, <1>6, <3>2, <3>4
    <3>6. rows[r] = g[w[1]]
      BY <1>4, <3>4, <3>5
    <3>7. w \in {r[1]} \X (1 .. rows[r])
      BY <3>1, <3>4, <3>6
    <3> QED BY <3>5, <3>7
  <2>5. ASSUME NEW r \in own, NEW w \in part[r] PROVE w \in whole
    <3>1. w = <<r[1], w[2]>> /\ w[2] \in 1 .. rows[r] /\ w[1] = r[1]
      BY <2>5
    <3>2. w[1] \in Served(range) /\ w[2] \in 1 .. g[w[1]]
      BY <1>4, <3>1
    <3> QED BY <3>1, <3>2, UnitOf
  <2> HIDE DEF part, whole
  <2>6. Parts(own, rows, part, whole)
    <3>1. \A r \in own : IsFiniteSet(part[r]) /\ Cardinality(part[r]) = rows[r]
      BY <2>2
    <3>2. \A w : w \in whole <=> \E r \in own : w \in part[r]
      BY <2>4, <2>5
    <3> QED BY <2>3, <3>1, <3>2 DEF Parts
  <2>7. Cardinality(whole) = SumOver(own, rows)
    BY <2>1, <2>6, SumOfParts
  <2>8. SumOver(Served(range), g) = Cardinality(whole)
    BY DEF SumOver, whole
  <2> QED BY <1>2, <1>6, <2>7, <2>8 DEF rows
<1> QED BY <1>5, <1>6

\* The totals of a report are the accepted events of its range, each once.
LEMMA TotalsFit ==
  ASSUME StoreFits, NEW range, NEW n \in EventNames
  PROVE  Summed(RowsIn(table, range), n) =
           IF range.event \in {"all", n} THEN SumOver(Served(range), [d \in Days |-> truth[<<d, n>>]]) ELSE 0
<1> DEFINE g == [d \in Days |-> truth[<<d, n>>]]
<1>1. \A d \in Days : g[d] = CountOf(table, <<d, <<n, Total>>>>)
  BY DEF StoreFits
<1>2. RowsFit(table)
  BY DEF StoreFits
<1> HIDE DEF g
<1>3. SummedBy(RowsIn(table, range), n, Total) = IF range.event \in {"all", n} THEN SumOver(Served(range), g) ELSE 0
  BY <1>1, <1>2, SummedFits
<1> QED BY <1>3 DEF Summed, g

\* Its dimensions do not exceed them: added up by value and then by day, or
\* by day and then by value.
LEMMA SplitsFit ==
  ASSUME StoreFits, NEW range, NEW n \in EventNames, NEW k \in PermittedOn[n]
  PROVE  SumOver(ValuesOf[k], [v \in ValuesOf[k] |-> SummedBy(RowsIn(table, range), n, <<k, v>>)])
           <= Summed(RowsIn(table, range), n)
<1> DEFINE values == ValuesOf[k]
           days == Served(range)
           rows == RowsIn(table, range)
           m == [v \in values |-> [d \in Days |-> CountOf(table, <<d, <<n, <<k, v>>>>>>)]]
           a == [v \in values |-> SummedBy(rows, n, <<k, v>>)]
           column == [d \in Days |-> [v \in values |-> CountOf(table, <<d, <<n, <<k, v>>>>>>)]]
           b == [d \in Days |-> SplitOf(table, d, n, k)]
           g == [d \in Days |-> truth[<<d, n>>]]
<1>1. IsFiniteSet(values) /\ IsFiniteSet(days) /\ days \subseteq Days
  BY FiniteValues, ServedFinite
<1>2. RowsFit(table) /\ truth \in [Days \X EventNames -> Nat]
  BY DEF StoreFits
<1>3. \A v \in values, d \in days : m[v][d] \in Nat /\ column[d][v] = m[v][d]
  BY <1>1, <1>2 DEF CountOf, RowsFit
<1>4. ASSUME NEW v \in values
      PROVE  a[v] = IF range.event \in {"all", n} THEN SumOver(days, m[v]) ELSE 0
  <2> DEFINE h == m[v]
  <2>1. \A d \in Days : h[d] = CountOf(table, <<d, <<n, <<k, v>>>>>>)
    OBVIOUS
  <2>2. a[v] = SummedBy(rows, n, <<k, v>>)
    OBVIOUS
  <2> HIDE DEF h, a
  <2>3. SummedBy(rows, n, <<k, v>>) = IF range.event \in {"all", n} THEN SumOver(days, h) ELSE 0
    BY <1>2, <2>1, SummedFits
  <2> QED BY <2>2, <2>3 DEF h
<1>5. \A d \in days : b[d] = SumOver(values, column[d])
  BY <1>1 DEF SplitOf
<1>6. \A d \in days : b[d] \in Nat /\ g[d] \in Nat /\ b[d] <= g[d]
  BY <1>1, <1>2, SplitType DEF StoreFits
<1>7. Summed(rows, n) = IF range.event \in {"all", n} THEN SumOver(days, g) ELSE 0
  BY TotalsFit
<1> HIDE DEF m, a, column, b, g, rows, values, days
<1>8. CASE range.event \in {"all", n}
  <2>1. \A v \in values : a[v] = SumOver(days, m[v])
    BY <1>4, <1>8
  <2>2. SumOver(values, a) = SumOver(days, b)
    <3>1. Matrix(values, days, m, column, a, b)
      BY <1>3, <1>5, <2>1 DEF Matrix
    <3> QED BY <1>1, <3>1, SumSwap
  <2>3. SumOver(days, b) <= SumOver(days, g)
    BY <1>1, <1>6, SumBounded
  <2> QED BY <1>7, <1>8, <2>2, <2>3 DEF values, a, rows
<1>9. CASE range.event \notin {"all", n}
  <2>1. SumOver(values, a) = 0
    BY <1>4, <1>9, SumOfZeros
  <2> QED BY <1>7, <1>9, <2>1 DEF values, a, rows
<1> QED BY <1>8, <1>9

Askable == Filters \cup {OpeningFilter}

\* A date that is read lies within the lookback.
LEMMA ReadDateFits ==
  ASSUME NEW raw \in Int \cup {NoDate}, NEW on \in Int, NEW fallback \in Int,
         on - MaxLookback <= fallback, fallback <= on
  PROVE  LET d == ReadDate(raw, fallback, on) IN d \in Int /\ on - MaxLookback <= d /\ d <= on
<1>1. MaxLookback \in Nat
  BY StoreAssumption
<1>2. raw # NoDate => raw \in Int
  OBVIOUS
<1> QED BY <1>1, <1>2 DEF ReadDate

\* The range that is served, for any filter that can be asked for.
LEMMA RangeFits ==
  ASSUME NEW filter \in Askable, NEW on \in Int
  PROVE  LET range == ServedRange(filter, on)
         IN /\ range.from <= range.to /\ range.to <= on
            /\ range.to - range.from < MaxRangeDays
            /\ range.from >= on - MaxLookback - MaxRangeDays + 1
<1>1. /\ MaxLookback \in Nat /\ DefaultDays \in Nat \ {0} /\ DefaultDays <= MaxLookback
      /\ MaxRangeDays \in Nat \ {0} /\ FirstDay \in Int
  <2>1. MaxLookback \in Nat /\ DefaultDays \in 1 .. MaxLookback /\ MaxRangeDays \in Nat \ {0}
    BY StoreAssumption
  <2>2. FirstDay \in Int
    BY BoundsAssumption DEF FirstDay
  <2> QED BY <2>1, <2>2
<1>2. filter.from \in Int \cup {NoDate} /\ filter.to \in Int \cup {NoDate}
  <2>1. CASE filter \in Filters
    BY <2>1, AnalyticsAssumption
  <2>2. CASE filter = OpeningFilter
    <3>1. FirstDay - DefaultDays + 1 \in Int /\ FirstDay \in Int
      BY <1>1
    <3>2. filter.from = FirstDay - DefaultDays + 1 /\ filter.to = FirstDay
      BY <2>2 DEF OpeningFilter
    <3> QED BY <3>1, <3>2
  <2> QED BY <2>1, <2>2 DEF Askable
<1> DEFINE to == ReadDate(filter.to, on, on)
           from == ReadDate(filter.from, on - DefaultDays + 1, on)
           low == IF from <= to THEN from ELSE to
           widest == to - MaxRangeDays + 1
<1>3. to \in Int /\ on - MaxLookback <= to /\ to <= on
  <2>1. on - MaxLookback <= on /\ on <= on
    BY <1>1
  <2> QED BY <1>2, <2>1, ReadDateFits
<1>4. from \in Int /\ on - MaxLookback <= from /\ from <= on
  <2>1. on - DefaultDays + 1 \in Int /\ on - MaxLookback <= on - DefaultDays + 1 /\ on - DefaultDays + 1 <= on
    BY <1>1
  <2> QED BY <1>2, <2>1, ReadDateFits
<1>5. /\ ServedRange(filter, on).from = IF low < widest THEN widest ELSE low
      /\ ServedRange(filter, on).to = to
  BY DEF ServedRange
<1> HIDE DEF to, from
<1>6. low \in Int /\ low <= to /\ on - MaxLookback <= low /\ widest \in Int /\ widest <= to
  BY <1>1, <1>3, <1>4
<1> HIDE DEF low
<1> QED BY <1>1, <1>3, <1>5, <1>6

\* A call is added, or leaves with its answer shown or ignored.
LEMMA ReloadStep ==
  ASSUME PageFits, NEW f \in Askable, Reload(f)
  PROVE  PageFits' /\ PageIsRight'
<1>1. /\ page.loads < MaxLoads /\ page.loads \in Nat /\ MaxLoads \in Nat
      /\ page' = [filter |-> f, loads |-> page.loads + 1, view |-> NoView,
                  calls |-> page.calls \cup {[no |-> page.loads + 1, filter |-> f]}]
  BY DayBounds DEF Reload, PageFits
<1>2. /\ page'.filter = f /\ page'.loads = page.loads + 1 /\ page'.view = NoView /\ page'.view.kind = "loading"
      /\ page'.calls = page.calls \cup {[no |-> page.loads + 1, filter |-> f]}
  BY <1>1 DEF NoView
<1>3. page' = [filter |-> page'.filter, loads |-> page'.loads, view |-> page'.view, calls |-> page'.calls]
  BY <1>1, <1>2
<1>4. \A call \in page'.calls :
        /\ call.no \in Nat /\ call.no <= page'.loads /\ call.filter \in Askable
        /\ call.no = page'.loads => call.filter = page'.filter
  <2> SUFFICES ASSUME NEW call \in page'.calls
               PROVE  /\ call.no \in Nat /\ call.no <= page'.loads /\ call.filter \in Askable
                      /\ call.no = page'.loads => call.filter = page'.filter
    OBVIOUS
  <2>1. CASE call \in page.calls
    <3>1. call.no \in Nat /\ call.no <= page.loads /\ call.filter \in Askable
      BY <2>1 DEF PageFits, Askable
    <3> QED BY <1>1, <1>2, <3>1
  <2>2. CASE call = [no |-> page.loads + 1, filter |-> f]
    BY <1>1, <1>2, <2>2
  <2> QED BY <1>2, <2>1, <2>2
<1>5. PageFits'
  BY <1>1, <1>2, <1>3, <1>4 DEF PageFits, Askable
<1>6. PageIsRight'
  <2>1. [no |-> page'.loads, filter |-> page'.filter] \in page'.calls
    BY <1>2
  <2> QED BY <1>2, <2>1 DEF PageIsRight, ReportIsHonest, ReportAnswersItsFilter, ServedRangeIsLegal, LoadingIsAwaited, ReportCountsEvents
<1> QED BY <1>5, <1>6

\* A view that may be shown for a filter.
ViewFits(view, filter) ==
  /\ view.kind \in {"loaded", "error"}
  /\ view.kind = "loaded" =>
       /\ view.asked = filter
       /\ view.range.from <= view.range.to /\ view.range.to <= view.on
       /\ view.range.to - view.range.from < MaxRangeDays
       /\ view.range.from >= view.on - MaxLookback - MaxRangeDays + 1
       /\ view.totals = view.truth
       /\ \A n \in EventNames : \A k \in PermittedOn[n] : view.splits[n][k] <= view.totals[n]

\* An answer is shown, or ignored because its call was replaced.
LEMMA ShownStep ==
  ASSUME PageFits, PageIsRight, NEW call \in page.calls, NEW view, ViewFits(view, call.filter),
         Shown(call, view)
  PROVE  PageFits' /\ PageIsRight'
<1> DEFINE shown == IF Accepts(call) THEN view ELSE page.view
<1>1. /\ page = [filter |-> page.filter, loads |-> page.loads, view |-> page.view, calls |-> page.calls]
      /\ page' = [page EXCEPT !.calls = page.calls \ {call}, !.view = shown]
  BY DEF PageFits, Shown
<1> HIDE DEF shown
<1>2. page' = [filter |-> page.filter, loads |-> page.loads, view |-> shown, calls |-> page.calls \ {call}]
  BY <1>1
<1>3. page'.filter = page.filter /\ page'.loads = page.loads /\ page'.view = shown /\ page'.calls = page.calls \ {call}
  BY <1>2
<1>4. /\ Accepts(call) => shown = view /\ call.no = page.loads /\ call.filter = page.filter
      /\ ~Accepts(call) => shown = page.view /\ call.no # page.loads
  BY DEF shown, Accepts, PageFits
<1>5. PageFits'
  <2>1. shown.kind \in {"loading", "loaded", "error"}
    BY <1>4 DEF ViewFits, PageFits
  <2>2. page' = [filter |-> page'.filter, loads |-> page'.loads, view |-> page'.view, calls |-> page'.calls]
    BY <1>2, <1>3
  <2> QED BY <1>3, <2>1, <2>2 DEF PageFits
<1>6. CASE Accepts(call)
  <2>1. ViewFits(page'.view, page'.filter)
    BY <1>3, <1>4, <1>6
  <2> QED BY <1>5, <2>1 DEF ViewFits, PageIsRight, ReportIsHonest, ReportAnswersItsFilter, ServedRangeIsLegal, LoadingIsAwaited, ReportCountsEvents
<1>7. CASE ~Accepts(call)
  <2>1. page'.view = page.view /\ call # [no |-> page.loads, filter |-> page.filter]
    BY <1>3, <1>4, <1>7
  <2> QED BY <1>3, <1>5, <2>1 DEF PageIsRight, ReportIsHonest, ReportAnswersItsFilter, ServedRangeIsLegal, LoadingIsAwaited, ReportCountsEvents
<1> QED BY <1>6, <1>7

\* Every step leaves the report page honest.
LEMMA PageStep ==
  ASSUME PageFits, PageIsRight, StoreFits, DaysFit, [AnalyticsNext]_analyticsVars
  PROVE  PageFits' /\ PageIsRight'
<1>1. ASSUME UNCHANGED page PROVE PageFits' /\ PageIsRight'
  BY <1>1 DEF PageFits, PageIsRight, ReportIsHonest, ReportAnswersItsFilter, ServedRangeIsLegal, LoadingIsAwaited, ReportCountsEvents
<1>2. ASSUME NEW f \in Askable, ChangeFilter(f) PROVE PageFits' /\ PageIsRight'
  BY <1>2, ReloadStep DEF ChangeFilter
<1>3. CASE Refresh
  <2>1. page.filter \in Askable /\ Reload(page.filter)
    BY <1>3 DEF Refresh, PageFits, Askable
  <2> QED BY <2>1, ReloadStep
<1>4. ASSUME NEW call \in page.calls, Report(call) PROVE PageFits' /\ PageIsRight'
  <2> DEFINE range == ServedRange(call.filter, today)
             rows == RowsIn(table, range)
             totals == [n \in EventNames |-> Summed(rows, n)]
             splits == [n \in EventNames |->
                          [k \in PermittedOn[n] |->
                             SumOver(ValuesOf[k], [v \in ValuesOf[k] |-> SummedBy(rows, n, <<k, v>>)])]]
             sums == [n \in EventNames |->
                        IF range.event \in {"all", n}
                        THEN SumOver((range.from .. range.to) \cap Days, [d \in Days |-> truth[<<d, n>>]])
                        ELSE 0]
             view == [kind |-> "loaded", asked |-> call.filter, range |-> range, on |-> today,
                      totals |-> totals, splits |-> splits, truth |-> sums]
  <2>1. Shown(call, view)
    BY <1>4 DEF Report
  <2>2. call.filter \in Askable /\ today \in Int
    BY DayBounds DEF PageFits, Askable, DaysFit, Days
  <2>3. /\ range.from <= range.to /\ range.to <= today /\ range.to - range.from < MaxRangeDays
        /\ range.from >= today - MaxLookback - MaxRangeDays + 1
    BY <2>2, RangeFits
  <2> HIDE DEF range
  <2>4. totals = sums
    <3>1. \A n \in EventNames : totals[n] = sums[n]
      BY TotalsFit DEF Served
    <3> QED BY <3>1
  <2>5. \A n \in EventNames : \A k \in PermittedOn[n] : splits[n][k] <= totals[n]
    BY SplitsFit
  <2>6. /\ view.kind = "loaded" /\ view.asked = call.filter /\ view.range = range /\ view.on = today
        /\ view.totals = totals /\ view.splits = splits /\ view.truth = sums
    OBVIOUS
  <2> HIDE DEF totals, splits, sums, view
  <2>7. ViewFits(view, call.filter)
    BY <2>3, <2>4, <2>5, <2>6 DEF ViewFits
  <2> QED BY <2>1, <2>7, ShownStep
<1>5. ASSUME NEW call \in page.calls, ReportFails(call) PROVE PageFits' /\ PageIsRight'
  <2>1. ViewFits([kind |-> "error"], call.filter)
    BY DEF ViewFits
  <2> QED BY <1>5, <2>1, ShownStep DEF ReportFails
<1>6. ASSUME (\E p \in wire : Commit(p)) \/ (\E b \in Bodies : ForeignPost(b)) \/ NextDay \/ Purge
      PROVE  UNCHANGED page
  BY <1>6 DEF Commit, ForeignPost, NextDay, Purge
<1> QED BY <1>1, <1>2, <1>3, <1>4, <1>5, <1>6, OtherSteps DEF ReportCall, analyticsVars, Askable

-------------------------------------------------------------------------------
\* The theorems.

\* The initial states.
LEMMA AnalyticsInvInit ==
  ASSUME AnalyticsInit
  PROVE  AnalyticsInv
<1>1. /\ Retention \in Nat \ {0} /\ MaxDay \in Nat /\ Retention + 2 <= MaxDay /\ MaxForeign \in Nat
      /\ MaxLoads \in Nat \ {0} /\ MaxEvents \in Nat /\ MaxQueue \in Nat
  BY DayBounds, BoundsAssumption, Caps
<1>2. \A a \in {"no", "unknown"} : NewTab(a) \in TabState /\ TabFits(NewTab(a)) /\ NewTab(a).queue = <<>>
  <2> SUFFICES ASSUME NEW a \in {"no", "unknown"}
               PROVE  NewTab(a) \in TabState /\ TabFits(NewTab(a)) /\ NewTab(a).queue = <<>>
    OBVIOUS
  <2>1. /\ NewTab(a).queue = <<>> /\ NewTab(a).available = a /\ NewTab(a).probe = "none"
        /\ \A f \in Flushes : NewTab(a).flush[f] = "idle"
    BY DEF NewTab
  <2>2. NewTab(a) \in TabState
    BY NoIds DEF NewTab, TabState
  <2> HIDE DEF NewTab
  <2>3. TabFits(NewTab(a))
    BY <1>1, <2>1, NoIds DEF TabFits
  <2> QED BY <2>1, <2>2, <2>3
<1>3. tab \in [Tabs -> TabState] /\ \A t \in Tabs : TabFits(tab[t]) /\ tab[t].queue = <<>>
  <2>1. tab \in [Tabs -> {NewTab("no"), NewTab("unknown")}]
    BY DEF AnalyticsInit
  <2> QED BY <1>2, <2>1
<1>4. QueueInv
  <2>1. wire = {} /\ tracked = 0 /\ counted = [i \in Ids |-> 0]
    BY DEF AnalyticsInit
  <2>2. \A t \in Tabs : QueuedIds(t) = {}
    BY <1>3, NoIds DEF QueuedIds, IdsOf
  <2>3. Placed
    BY <2>1, <2>2 DEF Placed
  <2> QED BY <1>1, <1>3, <2>1, <2>3 DEF QueueInv
<1>5. DaysFit
  <2>1. today = MaxDay - 2 /\ cleared = MaxDay - 2 - Retention /\ foreign = 0
    BY DEF AnalyticsInit, FirstDay
  <2> QED BY <1>1, <2>1 DEF DaysFit, Days
<1>6. ParsedFits
  BY DEF ParsedFits, AnalyticsInit
<1>7. StoreFits
  <2>1. table = <<>> /\ truth = [r \in Days \X EventNames |-> 0]
    BY DEF AnalyticsInit
  <2>2. DOMAIN table = {}
    BY <2>1
  <2>3. \A r : CountOf(table, r) = 0
    BY <2>2 DEF CountOf
  <2>4. ASSUME NEW d \in Days, NEW n \in EventNames, NEW k \in PermittedOn[n] PROVE SplitOf(table, d, n, k) = 0
    <3> DEFINE f == [v \in ValuesOf[k] |-> CountOf(table, <<d, <<n, <<k, v>>>>>>)]
    <3>1. \A v \in ValuesOf[k] : f[v] = 0
      BY <2>3
    <3> HIDE DEF f
    <3>2. SumOver(ValuesOf[k], f) = 0
      BY <3>1, SumOfZeros
    <3> QED BY <3>2 DEF SplitOf, f
  <2> QED BY <2>1, <2>2, <2>3, <2>4 DEF StoreFits, RowsFit
<1>8. PageFits /\ PageIsRight
  <2>1. page = [filter |-> OpeningFilter, loads |-> 1, view |-> NoView,
                calls |-> {[no |-> 1, filter |-> OpeningFilter]}]
    BY DEF AnalyticsInit
  <2>2. /\ page.filter = OpeningFilter /\ page.loads = 1 /\ page.view = NoView /\ NoView.kind = "loading"
        /\ page.calls = {[no |-> 1, filter |-> OpeningFilter]}
    BY <2>1 DEF NoView
  <2>3. PageFits
    BY <1>1, <2>1, <2>2 DEF PageFits
  <2> QED BY <2>2, <2>3 DEF PageIsRight, ReportIsHonest, ReportAnswersItsFilter, ServedRangeIsLegal, LoadingIsAwaited, ReportCountsEvents
<1> QED BY <1>4, <1>5, <1>6, <1>7, <1>8 DEF AnalyticsInv

\* Every step preserves the invariant.
LEMMA AnalyticsInvStep ==
  ASSUME AnalyticsInv, [AnalyticsNext]_analyticsVars
  PROVE  AnalyticsInv' /\ Settled
<1>1. QueueInv'
  BY QueueNext DEF AnalyticsInv, DaysFit
<1>2. wire \subseteq PostType
  BY DEF AnalyticsInv, QueueInv
<1>3. DaysFit' /\ ParsedFits'
  BY <1>2, DaysStep, ParsedStep DEF AnalyticsInv
<1>4. StoreFits' /\ Settled
  BY <1>2, StoreStep DEF AnalyticsInv
<1>5. PageFits' /\ PageIsRight'
  BY PageStep DEF AnalyticsInv
<1> QED BY <1>1, <1>3, <1>4, <1>5 DEF AnalyticsInv

\* At most one tab has an event queued, at most one request carries it, and
\* the three counts exclude each other.
LEMMA InvNoEventTwice ==
  ASSUME AnalyticsInv
  PROVE  NoEventTwice
<1> SUFFICES ASSUME NEW i \in 1 .. tracked
             PROVE  Cardinality({t \in Tabs : i \in QueuedIds(t)})
                      + Cardinality({p \in wire : i \in SentIds(p)}) + counted[i] <= 1
  BY DEF NoEventTwice
<1> DEFINE holders == {t \in Tabs : i \in QueuedIds(t)}
           carriers == {p \in wire : i \in SentIds(p)}
<1>1. Placed /\ tracked \in 0 .. MaxEvents /\ counted \in [Ids -> Nat]
  BY DEF AnalyticsInv, QueueInv
<1>2. i \in Ids /\ counted[i] \in {0, 1}
  <2>1. i \in Ids
    BY <1>1, BoundsAssumption DEF Ids
  <2>2. counted[i] \in Nat /\ counted[i] <= 1
    BY <1>1, <2>1 DEF Placed
  <2> QED BY <2>1, <2>2
<1>3. Cardinality(holders) \in {0, 1} /\ (Cardinality(holders) = 1 => holders # {})
  <2>1. \A t, u \in holders : t = u
    BY <1>1 DEF Placed
  <2>2. holders = {} \/ \E t : holders = {t}
    BY <2>1
  <2> QED BY <2>2, FS_EmptySet, FS_Singleton
<1>4. Cardinality(carriers) \in {0, 1} /\ (Cardinality(carriers) = 1 => carriers # {})
  <2>1. \A p, q \in carriers : p = q
    BY <1>1 DEF Placed
  <2>2. carriers = {} \/ \E p : carriers = {p}
    BY <2>1
  <2> QED BY <2>2, FS_EmptySet, FS_Singleton
<1>5. /\ holders # {} => carriers = {} /\ counted[i] = 0
      /\ carriers # {} => counted[i] = 0
  BY <1>1 DEF Placed
<1> HIDE DEF holders, carriers
<1>6. Cardinality(holders) + Cardinality(carriers) + counted[i] <= 1
  <2>1. holders # {} => Cardinality(carriers) = 0
    BY <1>5, FS_EmptySet
  <2> QED BY <1>2, <1>3, <1>4, <1>5, <2>1
<1> QED BY <1>6 DEF holders, carriers

\* The invariant implies what the run checks of the queue.
LEMMA InvQueueIsSound ==
  ASSUME AnalyticsInv
  PROVE  QueueIsSound
<1>1. /\ tab \in [Tabs -> TabState] /\ \A t \in Tabs : TabFits(tab[t])
      /\ wire \subseteq PostType /\ \A p \in wire : BatchFits(p) /\ tab[p.tab].available = "yes"
      /\ tracked \in 0 .. MaxEvents /\ counted \in [Ids -> Nat] /\ Placed
      /\ DaysFit /\ StoreFits /\ PageFits
  BY DEF AnalyticsInv, QueueInv
<1>2. AnalyticsTypeOK
  <2>1. \A t \in Tabs :
          /\ tab[t].available \in {"unknown", "yes", "no"}
          /\ tab[t].probe \in {"none", "pending", "answered"}
          /\ tab[t].flush \in [Flushes -> {"idle", "probe", "send"}]
          /\ tab[t].hidden \in BOOLEAN /\ tab[t].open \in BOOLEAN
          /\ tab[t].queue \in Seq(Queued) /\ Len(tab[t].queue) <= MaxQueue
    BY <1>1 DEF TabState, TabFits
  <2>2. \A p \in wire : /\ p.tab \in Tabs /\ p.phase \in {"sent", "parsed"} /\ p.day \in Days
                        /\ p.flush \in {Unawaited} \cup Flushes
                        /\ p.batch \in Seq(Queued) /\ Len(p.batch) \in 1 .. ClientBatch
    BY <1>1 DEF PostType, BatchFits
  <2> QED BY <1>1, <2>1, <2>2 DEF AnalyticsTypeOK, DaysFit, StoreFits, PageFits
<1>3. OldestFirst
  BY <1>1 DEF OldestFirst, TabFits, Rising, Placed
<1>4. NothingSentWithoutApi
  BY <1>1 DEF NothingSentWithoutApi, TabFits
<1> QED BY <1>2, <1>3, <1>4, InvNoEventTwice DEF QueueIsSound

\* The invariant of every execution.
LEMMA AnalyticsInvAlways == AnalyticsSpec => []AnalyticsInv
<1>1. AnalyticsInit => AnalyticsInv
  BY AnalyticsInvInit
<1>2. AnalyticsInv /\ [AnalyticsNext]_analyticsVars => AnalyticsInv'
  BY AnalyticsInvStep
<1> QED BY <1>1, <1>2, PTL DEF AnalyticsSpec

\* In every tab, whatever its page, its probe and its flushes do, no event is
\* sent by two flushes, sent and kept, or counted twice; batches leave oldest
\* first; and nothing is sent before the probe has found an API
\* (src/lib/analytics.ts).
THEOREM QueueSound == AnalyticsSpec => []QueueIsSound
<1>1. AnalyticsInv => QueueIsSound
  BY InvQueueIsSound
<1> QED BY <1>1, AnalyticsInvAlways, PTL

\* Whatever bodies arrive, the table has allow-listed rows only; the total of
\* an event on a day is the number of its accepted events, and no dimension
\* exceeds it: the deltas of a batch and the upsert lose none and count none
\* twice (recordAnalytics).  The totals of a report count each accepted event
\* of its range once, and its dimensions split them (readAnalytics, summarise).
THEOREM CountersRight == AnalyticsSpec => []CountersAddUp
<1>1. ASSUME AnalyticsInv PROVE CountersAddUp
  <2>1. StoreFits /\ PageIsRight
    BY <1>1 DEF AnalyticsInv
  <2>2. TotalsAddUp
    BY <2>1 DEF StoreFits, RowsFit, TotalsAddUp
  <2>3. DimensionsStayBelow
    BY <2>1 DEF StoreFits, SplitOf, DimensionsStayBelow
  <2> QED BY <2>1, <2>2, <2>3 DEF PageIsRight, CountersAddUp
<1>2. AnalyticsInv => CountersAddUp
  BY <1>1
<1> QED BY <1>2, AnalyticsInvAlways, PTL

\* The report that is shown answers the filters that are shown, its range is
\* legal whatever dates were asked for, and a page that is loading has the
\* call it waits for (AdminAnalyticsPage.tsx, parseAnalyticsQuery).
THEOREM HonestReport == AnalyticsSpec => []ReportIsHonest
<1>1. AnalyticsInv => ReportIsHonest
  BY DEF AnalyticsInv, PageIsRight
<1> QED BY <1>1, AnalyticsInvAlways, PTL

\* A day that is over by more than one is never counted in again, and loses
\* its rows to the retention delete only.
THEOREM SettledDays == AnalyticsSpec => PastDaysAreSettled
<1>1. AnalyticsInv /\ [AnalyticsNext]_analyticsVars =>
        [\A r \in DOMAIN table \cup DOMAIN table' : r[1] < today - 1 =>
           \/ CountOf(table', r) = CountOf(table, r)
           \/ r[1] < today - Retention /\ r \notin DOMAIN table']_table
  BY AnalyticsInvStep DEF Settled
<1> QED BY <1>1, AnalyticsInvAlways, PTL DEF AnalyticsSpec, PastDaysAreSettled
===============================================================================
