------------------------------- MODULE RateLimit -------------------------------
(***************************************************************************)
(* The budgets of anonymous callers (server/rateLimit.ts) and the three     *)
(* routes that charge them (server/index.ts): fixed windows per route       *)
(* family and client address in the memory of one isolate, with a cap on    *)
(* the tracked keys, and the sampled audit rows of denied administrators.   *)
(***************************************************************************)
EXTENDS Integers, Sequences, FiniteSets

CONSTANTS Clients,        \* client addresses
          Families,       \* route families with a budget; "admin" is one
          Limit,          \* requests per window of a family
          Second,         \* clock ticks per second
          WindowSeconds,  \* length of a window
          SampleEvery,    \* DENIED_AUDIT_SAMPLE_EVERY
          MaxTrackedKeys, \* MAX_TRACKED_KEYS
          MaxTime,        \* bound: the clock
          MaxRequests     \* bound: requests served

ASSUME BudgetAssumption ==
  /\ "admin" \in Families /\ "denied" \notin Families
  /\ Limit \in [Families -> Nat \ {0}]
  /\ Second \in Nat \ {0} /\ WindowSeconds \in Nat \ {0}
  /\ SampleEvery \in Nat \ {0} /\ MaxTrackedKeys \in Nat \ {0}
  /\ IsFiniteSet(Clients) /\ IsFiniteSet(Families)
  /\ MaxTime \in Nat /\ MaxRequests \in Nat

VARIABLES now,       \* the isolate's clock, in ticks
          buckets,   \* buckets[k]: the Map's entry of key k, NoBucket if none
          admitted,  \* history: when requests of k passed, since k is tracked
          audited,   \* history: the last audited denial of a client
          promised,  \* history: when the client refused last was told to return
          served,    \* how many requests were served
          answer     \* the decision on the last one

vars == <<now, buckets, admitted, audited, promised, served, answer>>

Window == WindowSeconds * Second

\* "admin:addr", "oauth-start:addr", "analytics:addr", and the sampling
\* counter "admin:addr:denied" in the same map.
KeyOfClient(f, c) == <<"admin", c>>   \* mutant: one budget for all routes
Key(f, c) == <<f, c>>
Denied(c) == Key("denied", c)
Keys == (Families \cup {"denied"}) \X Clients

NoBucket == [count |-> 0, resetAt |-> 0]
Buckets == [count : Nat, resetAt : Nat]
Tracked(bs) == {k \in Keys : bs[k].count > 0}

\* The window a request at this instant falls into: one that ends right now
\* is over.
Current(bs, k) ==
  IF bs[k].resetAt > now THEN bs[k] ELSE [count |-> 0, resetAt |-> now + Window]
Counted(bs, k) ==
  [count |-> Current(bs, k).count + 1, resetAt |-> Current(bs, k).resetAt]

\* Keys whose window ends first.  The sort is stable and a new key is last in
\* the Map, so that it is never its own victim; other ties are left open.
LatestFirst(bs, k) ==   \* mutant: the sort the wrong way round
  {v \in Tracked(bs) \ {k} : \A u \in Tracked(bs) \ {k} : bs[v].resetAt >= bs[u].resetAt}
Soonest(bs, k) ==
  {v \in Tracked(bs) \ {k} : \A u \in Tracked(bs) : bs[v].resetAt <= bs[u].resetAt}

\* The map after counting a request of k: above the cap one entry goes.
StoredUnlessFull(bs, k) ==   \* mutant: the cap is tested before the insertion
  LET next == [bs EXCEPT ![k] = Counted(bs, k)]
  IN IF Cardinality(Tracked(bs)) <= MaxTrackedKeys
     THEN {next}
     ELSE {[next EXCEPT ![v] = NoBucket] : v \in Soonest(next, k)}
Stored(bs, k) ==
  LET next == [bs EXCEPT ![k] = Counted(bs, k)]
  IN IF Cardinality(Tracked(next)) <= MaxTrackedKeys
     THEN {next}
     ELSE {[next EXCEPT ![v] = NoBucket] : v \in Soonest(next, k)}

Allowed(bs, f, c) == Counted(bs, Key(f, c)).count <= Limit[f]

\* Whole seconds until the window ends, rounded up, at least one.
RetryAfter(bs, k) ==
  LET ticks == Counted(bs, k).resetAt - now
  IN IF ticks <= Second THEN 1 ELSE (ticks + Second - 1) \div Second

\* peek: would a request pass?  Counts nothing.
PeekAllowed(bs, f, c) ==
  LET b == bs[Key(f, c)] IN b.count = 0 \/ b.resetAt <= now \/ b.count < Limit[f]

\* The first denial of a window and every SampleEvery-th one are audited.
IsSampled(bs, c) ==
  LET n == Counted(bs, Denied(c)).count IN n = 1 \/ n % SampleEvery = 0

Verdicts == {"none", "passed", "refused", "denied"}
Answers == [family : Families, client : Clients, verdict : Verdicts, audit : BOOLEAN]

Init ==
  /\ now = Window
  /\ buckets = [k \in Keys |-> NoBucket]
  /\ admitted = [k \in Keys |-> <<>>]
  /\ audited = [c \in Clients |-> 0]
  /\ promised = [k \in Keys |-> 0]
  /\ served = 0
  /\ answer \in {a \in Answers : a.verdict = "none" /\ ~a.audit}

Answer(f, c, verdict, audit) ==
  /\ served < MaxRequests
  /\ served' = served + 1
  /\ answer' = [family |-> f, client |-> c, verdict |-> verdict, audit |-> audit]
  /\ UNCHANGED now

\* The histories of keys the map forgot start anew.
Admit(k) ==
  /\ admitted' = [j \in Keys |->
                    IF buckets'[j].count = 0 THEN <<>>
                    ELSE IF j = k THEN Append(admitted[j], now) ELSE admitted[j]]
  /\ promised' = [promised EXCEPT ![k] = 0]

\* 429 with Retry-After; the count went up all the same, and nothing else
\* is done: no audit row, no statement.
Refuse(f, c) ==
  LET k == Key(f, c)
  IN /\ ~Allowed(buckets, f, c)
     /\ buckets' \in Stored(buckets, k)
     /\ promised' = [promised EXCEPT ![k] = now + RetryAfter(buckets, k) * Second]
     /\ Answer(f, c, "refused", FALSE)
     /\ UNCHANGED <<admitted, audited>>

\* GET /api/auth/github and POST /api/analytics/events within their budget.
Pass(f, c) ==
  /\ f # "admin"
  /\ Allowed(buckets, f, c)
  /\ buckets' \in Stored(buckets, Key(f, c))
  /\ Admit(Key(f, c))
  /\ Answer(f, c, "passed", FALSE)
  /\ UNCHANGED audited

\* requireAdmin without a session and within the budget: 401, and an audit
\* row if the denial is sampled.  Both counters move in one synchronous step.
Deny(c) ==
  LET k == Key("admin", c)
  IN /\ Allowed(buckets, "admin", c)
     /\ \E charged \in Stored(buckets, k) :
          LET sampled == IsSampled(charged, c)
          IN /\ buckets' \in Stored(charged, Denied(c))
             /\ audited' = IF sampled THEN [audited EXCEPT ![c] = now] ELSE audited
             /\ Answer("admin", c, "denied", sampled)
     /\ Admit(k)

\* The isolate is replaced: a cold one starts with an empty map.
Recycle ==
  /\ buckets' = [k \in Keys |-> NoBucket]
  /\ admitted' = [k \in Keys |-> <<>>]
  /\ UNCHANGED <<now, audited, promised, served, answer>>

Tick ==
  /\ now < MaxTime
  /\ now' = now + 1
  /\ UNCHANGED <<buckets, admitted, audited, promised, served, answer>>

Next ==
  \/ \E f \in Families, c \in Clients : Refuse(f, c) \/ Pass(f, c)
  \/ \E c \in Clients : Deny(c)
  \/ Recycle
  \/ Tick

Spec == Init /\ [][Next]_vars

TypeOK ==
  /\ now \in Nat
  /\ buckets \in [Keys -> Buckets]
  /\ admitted \in [Keys -> Seq(Nat)]
  /\ audited \in [Clients -> Nat]
  /\ promised \in [Keys -> Nat]
  /\ served \in Nat
  /\ answer \in Answers

\* A client may spend two budgets around the end of a window, and never
\* more: among the requests of a key that pass, the one that comes two
\* budgets after another comes more than a window later.
AtMostTwoBudgets ==
  \A f \in Families, c \in Clients :
    LET s == admitted[Key(f, c)]
    IN \A i \in 1 .. Len(s) : i + 2 * Limit[f] <= Len(s) => s[i + 2 * Limit[f]] > s[i] + Window

\* The limiter must not become the exhaustion it protects from: whatever
\* keys arrive, and although a denial stores two of them, the map keeps to
\* its cap.
TrackedKeysAreBounded == Cardinality(Tracked(buckets)) <= MaxTrackedKeys

\* peek, which counts nothing, foretells what consume decides.
PeekForetellsConsume ==
  \A f \in Families, c \in Clients : PeekAllowed(buckets, f, c) <=> Allowed(buckets, f, c)

Answered(f, c, verdict) ==
  /\ served' # served
  /\ answer'.family = f /\ answer'.client = c /\ answer'.verdict = verdict

\* A client is refused for its own requests on this route family alone: a
\* whole budget of them passed within the window before the refusal.
NoUndueRefusal ==
  [][\A f \in Families, c \in Clients : Answered(f, c, "refused") =>
       LET s == admitted[Key(f, c)]
       IN /\ Len(s) >= Limit[f]
          /\ s[Len(s) - Limit[f] + 1] > now - Window]_vars

\* Retry-After is honest: a client that has waited as long as its last 429
\* said, and sent nothing else meanwhile, is not refused.
RetryAfterIsHonest ==
  [][\A f \in Families, c \in Clients :
       Answered(f, c, "refused") /\ promised[Key(f, c)] > 0
         => now < promised[Key(f, c)]]_vars

\* Sampling keeps the evidence of an abuse: a denial that leaves no audit
\* row follows one of the same client that did, less than a window before.
\* Evictions and other clients cannot silence it.
SilenceIsShort ==
  [][\A c \in Clients :
       Answered("admin", c, "denied") /\ ~answer'.audit => audited[c] > now - Window]_vars

\* Eviction lifts no budget that is in use while it could drop one that has
\* expired.
EvictionSparesOpenWindows ==
  [][served' # served =>
       \A v \in Keys :
         buckets[v].resetAt > now /\ buckets'[v].count = 0 =>
           \A u \in Keys : buckets'[u].count > 0 => buckets'[u].resetAt > now]_vars

\* What a client may spend and what the limiter may store are bounded, and a
\* look ahead agrees with the charge.
BoundsAreKept == AtMostTwoBudgets /\ TrackedKeysAreBounded /\ PeekForetellsConsume

\* A refusal is deserved, and says when it ends.
RefusalsAreHonest == NoUndueRefusal /\ RetryAfterIsHonest

\* Neither a flood of keys nor a full map hides a client or frees one early.
EvictionIsHarmless == SilenceIsShort /\ EvictionSparesOpenWindows
===============================================================================
