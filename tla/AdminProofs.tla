----------------------------- MODULE AdminProofs -----------------------------
(***************************************************************************)
(* Proofs about the two components an administrator uses.                  *)
(* AdminAuth, for any accounts, states, sessions, overlapping requests and *)
(* lifetimes: a transaction yields one session, a session that is over     *)
(* lets nobody in and stays over, an idle cut-off is at most one write     *)
(* threshold early, and a held cookie is of an audited sign-in.            *)
(* AdminCatalog, for any pages, questions and overlapping operations:      *)
(* nothing becomes public by the way; and for one page that does one thing *)
(* at a time, whatever is lost: what it shows is what the server holds.    *)
(***************************************************************************)
EXTENDS AdminAuth, AdminCatalog, TLAPS

RequestType == [kind : {"none", "admin", "logout", "callback"}, sess : Sessions \cup {Nil},
                txn : Txns \cup {Nil}, user : Users \cup {Nil}, since : Nat, late : BOOLEAN]

\* The steps at which a request knows a session, and those at which it has
\* consumed a transaction and not yet made a session of it.
OnSession == {"lookup", "revoke", "refresh", "admitted", "logout", "auditlogout", "auditlogin", "answer"}
Spending  == {"readback", "exchange", "create"}

\* What a request carries is there; only an audited sign-in is answered.
RequestFits(r) ==
  /\ pc[r] = "idle" => req[r] = NoRequest
  /\ pc[r] \in OnSession => req[r].sess \in Sessions /\ sessions[req[r].sess].state # "none"
  /\ pc[r] \in {"consume"} \cup Spending => req[r].txn \in Txns
  /\ pc[r] = "answer" => req[r].sess \in logins

\* A transaction that is being spent is closed, and spent by this request alone.
SpendsAlone(r) ==
  pc[r] \in Spending =>
    /\ txns[req[r].txn].state \in {"consumed", "gone"}
    /\ \A s \in Sessions : sessions[s].txn # req[r].txn
    /\ \A q \in Requests \ {r} : pc[q] \in Spending => req[q].txn # req[r].txn

\* A cookie is of a session that was created and audited; a session's
\* transaction is closed; last_seen_at lags behind use by less than a threshold.
SessionFits(s) ==
  /\ s \in held => s \in logins /\ sessions[s].state # "none"
  /\ sessions[s].txn # Nil => txns[sessions[s].txn].state \in {"consumed", "gone"}
  /\ lastUse[s] <= now
  /\ sessions[s].state = "live" => /\ sessions[s].seen <= lastUse[s]
                                   /\ lastUse[s] < sessions[s].seen + SeenThreshold

\* No lookup lets a request in on s, and none that is under way can change that.
Dead(s) ==
  \/ sessions[s].state \in {"revoked", "gone"}
  \/ Expired(s)
  \/ sessions[s].user \notin allowed
  \/ Idle(s) /\ \A q \in Requests : req[q].sess = s /\ pc[q] \in Pending => pc[q] \in {"lookup", "revoke"}

\* A request that came too late finds a dead session, or is denied by the list.
LateFits(r) ==
  req[r].late => /\ req[r].kind = "admin" /\ pc[r] \in {"lookup", "revoke", "refresh"}
                 /\ pc[r] = "lookup" => Dead(req[r].sess)
                 /\ pc[r] = "refresh" => sessions[req[r].sess].user \notin allowed

AuthInv ==
  /\ TypeOK
  /\ OneSessionPerTransaction
  /\ \A s \in Sessions : SessionFits(s)
  /\ \A r \in Requests : RequestFits(r) /\ SpendsAlone(r) /\ LateFits(r)

-----------------------------------------------------------------------------
\* Types.

LEMMA RequestRow ==
  ASSUME NEW c \in RequestType
  PROVE  /\ \A s \in Sessions : [c EXCEPT !.sess = s] \in RequestType
         /\ \A u \in Users : [c EXCEPT !.user = u] \in RequestType
         /\ NoRequest \in RequestType
         /\ \A s \in Sessions, k \in {"admin", "logout"}, b \in BOOLEAN, n \in Nat :
              [NoRequest EXCEPT !.kind = k, !.sess = s, !.since = n, !.late = b] \in RequestType
         /\ \A t \in Txns, n \in Nat :
              [NoRequest EXCEPT !.kind = "callback", !.txn = t, !.since = n] \in RequestType
  BY DEF RequestType, NoRequest

LEMMA RowTypes ==
  ASSUME now \in Nat, NEW c \in SessionRow, NEW n \in Nat
  PROVE  /\ [c EXCEPT !.state = "revoked"] \in SessionRow
         /\ Refreshed(c) \in SessionRow
         /\ [NoSession EXCEPT !.state = "gone", !.txn = c.txn] \in SessionRow
         /\ \A u \in Users \cup {Nil}, t \in Txns \cup {Nil}, m \in Nat :
              [state |-> "live", user |-> u, txn |-> t, expires |-> m, seen |-> n] \in SessionRow
<1>1. [c EXCEPT !.state = "revoked"] \in SessionRow
  BY DEF SessionRow
<1>2. Refreshed(c) \in SessionRow
  BY DEF SessionRow, Refreshed
<1>3. [NoSession EXCEPT !.state = "gone", !.txn = c.txn] \in SessionRow
  <2>1. c.txn \in Txns \cup {Nil}
    BY DEF SessionRow
  <2> QED BY <2>1 DEF SessionRow, NoSession
<1>4. \A u \in Users \cup {Nil}, t \in Txns \cup {Nil}, m \in Nat :
         [state |-> "live", user |-> u, txn |-> t, expires |-> m, seen |-> n] \in SessionRow
  BY DEF SessionRow
<1> QED BY <1>1, <1>2, <1>3, <1>4

\* The two ways a request goes on keep the types.
LEMMA GoTypes ==
  ASSUME TypeOK, NEW r \in Requests,
         \/ \E step \in Pending : Go(r, step)
         \/ End(r)
  PROVE  pc' \in [Requests -> Pending \cup {"idle"}] /\ req' \in [Requests -> RequestType]
<1>1. pc \in [Requests -> Pending \cup {"idle"}] /\ req \in [Requests -> RequestType]
  BY DEF TypeOK, RequestType
<1>2. NoRequest \in RequestType
  BY DEF NoRequest, RequestType
<1> QED BY <1>1, <1>2 DEF Go, End

\* Types, unfolded once.
LEMMA Types ==
  TypeOK <=> /\ now \in Nat /\ allowed \subseteq Users
             /\ txns \in [Txns -> TxnRow] /\ sessions \in [Sessions -> SessionRow]
             /\ held \subseteq Sessions /\ logins \subseteq Sessions
             /\ lastUse \in [Sessions -> Nat]
             /\ pc \in [Requests -> Pending \cup {"idle"}]
             /\ req \in [Requests -> RequestType]
  BY DEF TypeOK, RequestType

\* Each step keeps the types.
LEMMA TypesKept ==
  ASSUME TypeOK, \A r \in Requests : RequestFits(r), [Next]_vars
  PROVE  TypeOK'
<1> DEFINE T == /\ now \in Nat /\ allowed \subseteq Users
                /\ txns \in [Txns -> TxnRow] /\ sessions \in [Sessions -> SessionRow]
                /\ held \subseteq Sessions /\ logins \subseteq Sessions
                /\ lastUse \in [Sessions -> Nat]
                /\ pc \in [Requests -> Pending \cup {"idle"}]
                /\ req \in [Requests -> RequestType]
<1>0. T /\ (T' => TypeOK')
  BY DEF TypeOK, RequestType
<1>1. CASE BeginTransaction
  <2>1. \A m \in Nat : [state |-> "open", expires |-> m] \in TxnRow
    BY DEF TxnRow
  <2>2. now + TxnTTL \in Nat
    BY <1>0, TimeAssumption
  <2>3. txns' \in [Txns -> TxnRow]
    BY <1>0, <1>1, <2>1, <2>2 DEF BeginTransaction
  <2> QED BY <1>0, <1>1, <2>3 DEF BeginTransaction
<1>2. CASE PurgeSessions
  <2>1. \A s \in Sessions : [NoSession EXCEPT !.state = "gone", !.txn = sessions[s].txn] \in SessionRow
    BY <1>0, RowTypes
  <2>2. sessions' \in [Sessions -> SessionRow]
    BY <1>0, <1>2, <2>1 DEF PurgeSessions
  <2> QED BY <1>0, <1>2, <2>2 DEF PurgeSessions
<1>3. CASE PurgeTransactions
  <2>1. [state |-> "gone", expires |-> 0] \in TxnRow
    BY DEF TxnRow
  <2>2. txns' \in [Txns -> TxnRow]
    BY <1>0, <1>3, <2>1 DEF PurgeTransactions
  <2> QED BY <1>0, <1>3, <2>2 DEF PurgeTransactions
<1>4. CASE Redeploy
  BY <1>0, <1>4 DEF Redeploy
<1>5. CASE Tick
  BY <1>0, <1>5 DEF Tick
<1>6. ASSUME NEW r \in Requests, Serve(r) PROVE T'
  <2> DEFINE s == req[r].sess
  <2>0. req[r] \in RequestType
    BY <1>0
  <2>1. CASE Arrive(r)
    <3>1. PICK u \in held, kind \in {"admin", "logout"} :
             req' = [req EXCEPT ![r] = [NoRequest EXCEPT !.kind = kind, !.sess = u, !.since = now,
                                               !.late = kind = "admin" /\ TooLate(u)]]
      BY <2>1 DEF Arrive
    <3>2. (kind = "admin" /\ TooLate(u)) \in BOOLEAN
      OBVIOUS
    <3>3. req' \in [Requests -> RequestType]
      BY <1>0, <3>1, <3>2, RequestRow
    <3>4. pc' \in [Requests -> Pending \cup {"idle"}]
      BY <1>0, <2>1 DEF Arrive, Pending
    <3> QED BY <1>0, <2>1, <3>3, <3>4 DEF Arrive
  <2>2. CASE ArriveCallback(r)
    <3>1. req' \in [Requests -> RequestType]
      <4>1. PICK t \in Txns :
               req' = [req EXCEPT ![r] = [NoRequest EXCEPT !.kind = "callback", !.txn = t, !.since = now]]
        BY <2>2 DEF ArriveCallback
      <4>2. [NoRequest EXCEPT !.kind = "callback", !.txn = t, !.since = now] \in RequestType
        BY <1>0, RequestRow
      <4> QED BY <1>0, <4>1, <4>2
    <3>2. pc' \in [Requests -> Pending \cup {"idle"}]
      BY <1>0, <2>2 DEF ArriveCallback, Pending, Callback
    <3> QED BY <1>0, <2>2, <3>1, <3>2 DEF ArriveCallback
  <2>3. CASE Lookup(r)
    <3>1. s \in Sessions
      BY <2>3 DEF Lookup, RequestFits, OnSession
    <3>2. pc' \in [Requests -> Pending \cup {"idle"}] /\ req' \in [Requests -> RequestType]
      BY <2>3, GoTypes DEF Lookup, Enter, Pending
    <3>3. lastUse' \in [Sessions -> Nat]
      BY <1>0, <2>3, <3>1 DEF Lookup, Enter
    <3> QED BY <1>0, <2>3, <3>2, <3>3 DEF Lookup
  <2>4. CASE RevokeExpired(r)
    <3>1. pc' \in [Requests -> Pending \cup {"idle"}] /\ req' \in [Requests -> RequestType]
      BY <2>4, GoTypes DEF RevokeExpired
    <3>2. \A u \in Sessions : [sessions[u] EXCEPT !.state = "revoked"] \in SessionRow
      BY <1>0, RowTypes
    <3>3. sessions' \in [Sessions -> SessionRow]
      BY <1>0, <2>4, <3>2 DEF RevokeExpired
    <3> QED BY <1>0, <2>4, <3>1, <3>3 DEF RevokeExpired
  <2>5. CASE RefreshSeen(r)
    <3>1. s \in Sessions
      BY <2>5 DEF RefreshSeen, RequestFits, OnSession
    <3>2. pc' \in [Requests -> Pending \cup {"idle"}] /\ req' \in [Requests -> RequestType]
      BY <2>5, GoTypes DEF RefreshSeen, Enter, Pending
    <3>3. lastUse' \in [Sessions -> Nat]
      BY <1>0, <2>5, <3>1 DEF RefreshSeen, Enter
    <3>4. \A u \in Sessions : Refreshed(sessions[u]) \in SessionRow
      BY <1>0, RowTypes
    <3>5. sessions' \in [Sessions -> SessionRow]
      BY <1>0, <2>5, <3>4 DEF RefreshSeen
    <3> QED BY <1>0, <2>5, <3>2, <3>3, <3>5 DEF RefreshSeen
  <2>6. CASE RevokeByToken(r)
    <3>1. pc' \in [Requests -> Pending \cup {"idle"}] /\ req' \in [Requests -> RequestType]
      BY <2>6, GoTypes DEF RevokeByToken, Pending
    <3>2. \A u \in Sessions : [sessions[u] EXCEPT !.state = "revoked"] \in SessionRow
      BY <1>0, RowTypes
    <3>3. sessions' \in [Sessions -> SessionRow]
      BY <1>0, <2>6, <3>2 DEF RevokeByToken
    <3> QED BY <1>0, <2>6, <3>1, <3>3 DEF RevokeByToken
  <2>7. CASE Consume(r)
    <3>1. pc' \in [Requests -> Pending \cup {"idle"}] /\ req' \in [Requests -> RequestType]
      BY <2>7, GoTypes DEF Consume, Pending, Callback
    <3>2. \A t \in Txns : [txns[t] EXCEPT !.state = "consumed"] \in TxnRow
      BY <1>0 DEF TxnRow
    <3>3. txns' \in [Txns -> TxnRow]
      BY <1>0, <2>7, <3>2 DEF Consume
    <3> QED BY <1>0, <2>7, <3>1, <3>3 DEF Consume
  <2>8. CASE ExchangeCode(r)
    <3>1. CASE Go(r, "auditfail")
      <4>1. pc' \in [Requests -> Pending \cup {"idle"}] /\ req' \in [Requests -> RequestType]
        BY <3>1, GoTypes DEF Pending
      <4> QED BY <1>0, <2>8, <4>1 DEF ExchangeCode
    <3>2. ASSUME NEW u \in Users, req' = [req EXCEPT ![r].user = u],
                 pc' = [pc EXCEPT ![r] = IF u \in allowed THEN "create" ELSE "auditreject"]
          PROVE T'
      <4>1. req' \in [Requests -> RequestType]
        BY <1>0, <3>2, RequestRow
      <4>2. pc' \in [Requests -> Pending \cup {"idle"}]
        BY <1>0, <3>2 DEF Pending, Callback
      <4> QED BY <1>0, <2>8, <4>1, <4>2 DEF ExchangeCode
    <3> QED BY <2>8, <3>1, <3>2 DEF ExchangeCode
  <2>9. CASE CreateSession(r)
    <3>1. PICK u \in Sessions :
             /\ sessions' = [sessions EXCEPT ![u] =
                  [state |-> "live", user |-> req[r].user, txn |-> req[r].txn,
                   expires |-> now + SessionTTL, seen |-> now]]
             /\ req' = [req EXCEPT ![r].sess = u]
             /\ lastUse' = [lastUse EXCEPT ![u] = now]
      BY <2>9 DEF CreateSession
    <3>2. req' \in [Requests -> RequestType]
      BY <1>0, <3>1, RequestRow
    <3>3. pc' \in [Requests -> Pending \cup {"idle"}]
      BY <1>0, <2>9 DEF CreateSession, Pending, Callback
    <3>4. now + SessionTTL \in Nat /\ req[r].user \in Users \cup {Nil} /\ req[r].txn \in Txns \cup {Nil}
      BY <1>0, <2>0, TimeAssumption DEF RequestType
    <3>5. [state |-> "live", user |-> req[r].user, txn |-> req[r].txn,
           expires |-> now + SessionTTL, seen |-> now] \in SessionRow
      BY <1>0, <3>4 DEF SessionRow
    <3>6. sessions' \in [Sessions -> SessionRow] /\ lastUse' \in [Sessions -> Nat]
      BY <1>0, <3>1, <3>5
    <3> QED BY <1>0, <2>9, <3>2, <3>3, <3>6 DEF CreateSession
  <2>10. CASE AuditLogin(r)
    <3>1. pc' \in [Requests -> Pending \cup {"idle"}] /\ req' \in [Requests -> RequestType]
      BY <2>10, GoTypes DEF AuditLogin, Pending
    <3>2. s \in Sessions
      BY <2>10 DEF AuditLogin, RequestFits, OnSession
    <3> QED BY <1>0, <2>10, <3>1, <3>2 DEF AuditLogin
  <2>11. CASE Answer(r)
    <3>1. pc' \in [Requests -> Pending \cup {"idle"}] /\ req' \in [Requests -> RequestType]
      BY <2>11, GoTypes DEF Answer
    <3>2. s \in Sessions
      BY <2>11 DEF Answer, RequestFits, OnSession
    <3> QED BY <1>0, <2>11, <3>1, <3>2 DEF Answer
  <2>12. CASE Finish(r) \/ AuditLogout(r) \/ Diagnose(r) \/ ReadBack(r) \/ AuditFailure(r) \/ Throw(r)
    <3>1. \/ \E step \in Pending : Go(r, step)
          \/ End(r)
      BY <2>12 DEF Finish, AuditLogout, Diagnose, ReadBack, AuditFailure, Throw, Pending, Callback
    <3>2. pc' \in [Requests -> Pending \cup {"idle"}] /\ req' \in [Requests -> RequestType]
      BY <3>1, GoTypes
    <3>3. UNCHANGED <<now, allowed, txns, sessions, held, logins, lastUse>>
      BY <2>12 DEF Finish, AuditLogout, Diagnose, ReadBack, AuditFailure, Throw
    <3> QED BY <1>0, <3>2, <3>3
  <2> QED BY <1>6, <2>1, <2>2, <2>3, <2>4, <2>5, <2>6, <2>7, <2>8, <2>9, <2>10, <2>11, <2>12 DEF Serve
<1>7. CASE UNCHANGED vars
  BY <1>0, <1>7 DEF vars
<1>8. CASE \E r \in Requests : Serve(r)
  BY <1>0, <1>6, <1>8
<1> QED BY <1>0, <1>1, <1>2, <1>3, <1>4, <1>5, <1>7, <1>8 DEF Next

-----------------------------------------------------------------------------
\* What a step of one request does to it, and to the others.

Carries(r) == /\ req'[r].kind = req[r].kind /\ req'[r].sess = req[r].sess
              /\ req'[r].txn = req[r].txn /\ req'[r].late = req[r].late

From(r, here, there) == pc[r] = here /\ pc'[r] = there /\ Carries(r)

\* The table of steps.
Moves(r) ==
  \/ pc[r] \in Pending /\ pc'[r] = "idle" /\ req'[r] = NoRequest
  \/ /\ pc[r] = "idle" /\ pc'[r] = "lookup" /\ req'[r].sess \in held
     /\ req'[r].late => req'[r].kind = "admin" /\ TooLate(req'[r].sess)
  \/ /\ pc[r] = "idle" /\ pc'[r] = "consume" /\ req'[r].txn \in Txns
     /\ req'[r].sess = Nil /\ ~req'[r].late
  \/ /\ From(r, "lookup", "revoke")
     /\ sessions[req[r].sess].state = "live" /\ (Expired(req[r].sess) \/ Idle(req[r].sess))
  \/ From(r, "lookup", "refresh") /\ Usable(req[r].sess)
  \/ /\ From(r, "lookup", "logout") \/ From(r, "lookup", "admitted")
     /\ Usable(req[r].sess) /\ ~SeenIsStale(req[r].sess)
     /\ pc'[r] = "logout" => req[r].kind = "logout"
     /\ pc'[r] = "admitted" => sessions[req[r].sess].user \in allowed
  \/ From(r, "refresh", "logout") /\ req[r].kind = "logout"
  \/ From(r, "refresh", "admitted") /\ sessions[req[r].sess].user \in allowed
  \/ From(r, "logout", "auditlogout")
  \/ /\ From(r, "consume", "readback") /\ txns[req[r].txn].state = "open"
     /\ req[r].txn \in Txns => txns'[req[r].txn].state = "consumed"
  \/ /\ pc[r] \in Callback \cup {"auditreject"} /\ pc'[r] \in {"diagnose", "auditfail", "auditreject"}
     /\ Carries(r)
  \/ From(r, "readback", "exchange")
  \/ From(r, "exchange", "create")
  \/ /\ pc[r] = "create" /\ pc'[r] = "auditlogin"
     /\ req'[r].sess \in Sessions /\ sessions[req'[r].sess].state = "none"
     /\ sessions'[req'[r].sess].state = "live"
     /\ req'[r].txn = req[r].txn /\ req'[r].late = req[r].late
  \/ From(r, "auditlogin", "answer") /\ req[r].sess \in logins'

LEMMA GoMoves ==
  ASSUME TypeOK, NEW r \in Requests, NEW step, Go(r, step)
  PROVE  pc'[r] = step /\ Carries(r)
  BY Types DEF Go, Carries

LEMMA EndMoves ==
  ASSUME TypeOK, NEW r \in Requests, pc[r] \in Pending, End(r)
  PROVE  Moves(r)
  BY Types DEF End, Moves

LEMMA Transitions ==
  ASSUME TypeOK, NEW r \in Requests, Serve(r)
  PROVE  Moves(r)
<1>0. /\ pc \in [Requests -> Pending \cup {"idle"}] /\ req \in [Requests -> RequestType]
      /\ sessions \in [Sessions -> SessionRow] /\ req[r] \in RequestType
  BY Types
<1>1. CASE Arrive(r)
  <2>1. PICK u \in held, kind \in {"admin", "logout"} :
           req' = [req EXCEPT ![r] = [NoRequest EXCEPT !.kind = kind, !.sess = u, !.since = now,
                                             !.late = kind = "admin" /\ TooLate(u)]]
    BY <1>1 DEF Arrive
  <2>2. /\ req'[r].sess = u /\ req'[r].kind = kind
        /\ req'[r].late <=> kind = "admin" /\ TooLate(u)
    BY <1>0, <2>1 DEF NoRequest
  <2> QED BY <1>0, <1>1, <2>2 DEF Arrive, Moves
<1>2. CASE ArriveCallback(r)
  <2>1. req'[r].txn \in Txns /\ req'[r].sess = Nil /\ req'[r].late = FALSE
    BY <1>0, <1>2 DEF ArriveCallback, NoRequest
  <2> QED BY <1>0, <1>2, <2>1 DEF ArriveCallback, Moves
<1>3. ASSUME pc[r] \in {"lookup", "refresh"}, Enter(r, req[r].sess)
      PROVE  \/ Moves(r)
             \/ pc'[r] = "logout" /\ Carries(r) /\ req[r].kind = "logout"
             \/ pc'[r] = "admitted" /\ Carries(r) /\ sessions[req[r].sess].user \in allowed
  BY <1>3, GoMoves, EndMoves DEF Enter, Pending
<1>4. CASE Lookup(r)
  <2>1. CASE End(r)
    BY <1>4, <2>1, EndMoves DEF Lookup, Pending
  <2>2. CASE sessions[req[r].sess].state = "live" /\ ~Usable(req[r].sess) /\ Go(r, "revoke")
    BY <1>4, <2>2, GoMoves DEF Lookup, Moves, From, Usable
  <2>3. CASE Usable(req[r].sess) /\ Go(r, "refresh")
    BY <1>4, <2>3, GoMoves DEF Lookup, Moves, From
  <2>4. CASE Usable(req[r].sess) /\ ~SeenIsStale(req[r].sess) /\ Enter(r, req[r].sess)
    BY <1>3, <1>4, <2>4 DEF Lookup, Moves, From
  <2> QED BY <1>4, <2>1, <2>2, <2>3, <2>4 DEF Lookup
<1>5. CASE RefreshSeen(r)
  BY <1>3, <1>5 DEF RefreshSeen, Moves, From
<1>6. CASE Finish(r) \/ RevokeExpired(r) \/ AuditLogout(r) \/ Answer(r) \/ AuditFailure(r)
  BY <1>6, EndMoves DEF Finish, RevokeExpired, AuditLogout, Answer, AuditFailure, Pending
<1>7. CASE RevokeByToken(r)
  BY <1>7, GoMoves DEF RevokeByToken, Moves, From
<1>8. CASE Consume(r)
  <2>1. CASE Consumable(txns[req[r].txn])
    <3>1. txns \in [Txns -> TxnRow] /\ txns' = [txns EXCEPT ![req[r].txn].state = "consumed"]
      BY <1>8, <2>1, Types DEF Consume
    <3>2. req[r].txn \in Txns => txns'[req[r].txn].state = "consumed"
      BY <3>1 DEF TxnRow
    <3> QED BY <1>8, <2>1, <3>2, GoMoves DEF Consume, Consumable, Moves, From
  <2>2. CASE ~Consumable(txns[req[r].txn])
    BY <1>8, <2>2, GoMoves DEF Consume, Moves, Callback
  <2> QED BY <2>1, <2>2
<1>9. CASE Diagnose(r)
  BY <1>9, GoMoves DEF Diagnose, Moves, Callback
<1>10. CASE ReadBack(r)
  BY <1>10, GoMoves DEF ReadBack, Moves, From, Callback
<1>11. CASE ExchangeCode(r)
  <2>1. CASE Go(r, "auditfail")
    BY <1>11, <2>1, GoMoves DEF ExchangeCode, Moves, Callback
  <2>2. ASSUME NEW u \in Users, req' = [req EXCEPT ![r].user = u],
               pc' = [pc EXCEPT ![r] = IF u \in allowed THEN "create" ELSE "auditreject"]
        PROVE  Moves(r)
    <3>1. Carries(r)
      BY <1>0, <2>2 DEF Carries, RequestType
    <3>2. pc'[r] \in {"create", "auditreject"}
      BY <1>0, <2>2
    <3> QED BY <1>11, <3>1, <3>2 DEF ExchangeCode, Moves, From, Callback
  <2> QED BY <1>11, <2>1, <2>2 DEF ExchangeCode
<1>12. CASE CreateSession(r)
  <2>1. PICK u \in Sessions :
           /\ sessions[u].state = "none"
           /\ sessions' = [sessions EXCEPT ![u] =
                [state |-> "live", user |-> req[r].user, txn |-> req[r].txn,
                 expires |-> now + SessionTTL, seen |-> now]]
           /\ req' = [req EXCEPT ![r].sess = u]
    BY <1>12 DEF CreateSession
  <2>2. /\ req'[r].sess = u /\ req'[r].txn = req[r].txn /\ req'[r].late = req[r].late
        /\ sessions'[u].state = "live"
    BY <1>0, <2>1 DEF RequestType
  <2> QED BY <1>0, <1>12, <2>1, <2>2 DEF CreateSession, Moves
<1>13. CASE AuditLogin(r)
  BY <1>13, GoMoves DEF AuditLogin, Moves, From
<1>14. CASE Throw(r)
  BY <1>14, GoMoves, EndMoves DEF Throw, Moves
<1> QED
  BY <1>1, <1>2, <1>4, <1>5, <1>6, <1>7, <1>8, <1>9, <1>10, <1>11, <1>12, <1>13, <1>14 DEF Serve

LEMMA OthersStay ==
  ASSUME TypeOK, NEW r \in Requests, Serve(r), NEW q \in Requests \ {r}
  PROVE  pc'[q] = pc[q] /\ req'[q] = req[q]
<1>0. pc \in [Requests -> Pending \cup {"idle"}] /\ req \in [Requests -> RequestType]
  BY Types
<1>1. \A step : Go(r, step) => pc'[q] = pc[q] /\ req'[q] = req[q]
  BY <1>0 DEF Go
<1>2. End(r) => pc'[q] = pc[q] /\ req'[q] = req[q]
  BY <1>0 DEF End
<1>3. CASE Arrive(r) \/ ArriveCallback(r)
  BY <1>0, <1>3 DEF Arrive, ArriveCallback
<1>4. CASE Lookup(r) \/ RefreshSeen(r)
  BY <1>1, <1>2, <1>4 DEF Lookup, RefreshSeen, Enter
<1>5. CASE Finish(r) \/ RevokeExpired(r) \/ AuditLogout(r) \/ Answer(r) \/ AuditFailure(r) \/ Throw(r)
  BY <1>1, <1>2, <1>5 DEF Finish, RevokeExpired, AuditLogout, Answer, AuditFailure, Throw
<1>6. CASE RevokeByToken(r) \/ Consume(r) \/ Diagnose(r) \/ ReadBack(r) \/ AuditLogin(r)
  BY <1>1, <1>6 DEF RevokeByToken, Consume, Diagnose, ReadBack, AuditLogin
<1>7. CASE ExchangeCode(r)
  BY <1>0, <1>1, <1>7 DEF ExchangeCode
<1>8. CASE CreateSession(r)
  BY <1>0, <1>8 DEF CreateSession
<1> QED BY <1>3, <1>4, <1>5, <1>6, <1>7, <1>8 DEF Serve

-----------------------------------------------------------------------------
\* What a step does to a session and to a transaction.

\* A session that was created keeps its transaction, and its lifetime while
\* the row is there; what is over stays over.
SessionKept(s) ==
  /\ sessions'[s].state # "none" /\ sessions'[s].txn = sessions[s].txn
  /\ sessions[s].state \in {"revoked", "gone"} => sessions'[s].state \in {"revoked", "gone"}
  /\ \/ sessions'[s].state = "gone" /\ sessions'[s].user \in {sessions[s].user, Nil}
     \/ sessions'[s].expires = sessions[s].expires /\ sessions'[s].user = sessions[s].user
  /\ \/ sessions'[s].state \in {"revoked", "gone"}
     \/ sessions'[s].seen = sessions[s].seen
     \/ /\ sessions'[s].seen = now /\ lastUse'[s] = now
        /\ \E r \in Requests : pc[r] = "refresh" /\ req[r].sess = s

LEMMA SameRow ==
  ASSUME NEW s \in Sessions, sessions[s].state # "none", sessions'[s] = sessions[s]
  PROVE  SessionKept(s)
  BY DEF SessionKept

LEMMA RevokedRow ==
  ASSUME TypeOK, NEW s \in Sessions, sessions[s].state # "none",
         sessions'[s] = [sessions[s] EXCEPT !.state = "revoked"]
  PROVE  SessionKept(s)
<1>1. sessions[s] \in SessionRow
  BY Types
<1>2. /\ sessions'[s].state = "revoked" /\ sessions'[s].txn = sessions[s].txn
      /\ sessions'[s].user = sessions[s].user /\ sessions'[s].expires = sessions[s].expires
  BY <1>1 DEF SessionRow
<1> QED BY <1>2 DEF SessionKept

LEMMA SessionStep ==
  ASSUME TypeOK, \A r \in Requests : RequestFits(r), [Next]_vars,
         NEW s \in Sessions, sessions[s].state # "none"
  PROVE  SessionKept(s)
<1>0. /\ sessions \in [Sessions -> SessionRow] /\ sessions[s] \in SessionRow
      /\ lastUse \in [Sessions -> Nat]
  BY Types
<1>1. CASE UNCHANGED sessions
  BY <1>1, SameRow
<1>2. CASE PurgeSessions
  <2>1. CASE ~Purgeable(s)
    BY <1>2, <2>1, SameRow DEF PurgeSessions
  <2>2. CASE Purgeable(s)
    <3>1. sessions'[s] = [NoSession EXCEPT !.state = "gone", !.txn = sessions[s].txn]
      BY <1>2, <2>2 DEF PurgeSessions
    <3>2. sessions'[s].state = "gone" /\ sessions'[s].txn = sessions[s].txn /\ sessions'[s].user = Nil
      BY <3>1 DEF NoSession
    <3> QED BY <3>2 DEF SessionKept
  <2> QED BY <2>1, <2>2
<1>3. ASSUME NEW r \in Requests, RevokeExpired(r) \/ RevokeByToken(r) PROVE SessionKept(s)
  <2>1. \/ sessions'[s] = sessions[s]
        \/ sessions'[s] = [sessions[s] EXCEPT !.state = "revoked"]
    BY <1>0, <1>3 DEF RevokeExpired, RevokeByToken
  <2> QED BY <2>1, SameRow, RevokedRow
<1>4. ASSUME NEW r \in Requests, RefreshSeen(r) PROVE SessionKept(s)
  <2>1. CASE s # req[r].sess \/ ~Stored(req[r].sess)
    <3>1. sessions'[s] = sessions[s]
      BY <1>0, <1>4, <2>1 DEF RefreshSeen
    <3> QED BY <3>1, SameRow
  <2>2. CASE s = req[r].sess /\ Stored(req[r].sess)
    <3>1. sessions'[s] = Refreshed(sessions[s]) /\ lastUse'[s] = now
      BY <1>0, <1>4, <2>2 DEF RefreshSeen, Enter
    <3>2. /\ sessions'[s].state = sessions[s].state /\ sessions'[s].txn = sessions[s].txn
          /\ sessions'[s].user = sessions[s].user /\ sessions'[s].expires = sessions[s].expires
          /\ sessions'[s].seen = now
      BY <1>0, <3>1 DEF Refreshed, SessionRow
    <3> QED BY <1>4, <2>2, <3>1, <3>2 DEF SessionKept, RefreshSeen
  <2> QED BY <2>1, <2>2
<1>5. ASSUME NEW r \in Requests, CreateSession(r) PROVE SessionKept(s)
  <2>1. sessions'[s] = sessions[s]
    BY <1>0, <1>5 DEF CreateSession
  <2> QED BY <2>1, SameRow
<1>6. \/ UNCHANGED sessions \/ PurgeSessions
      \/ \E r \in Requests : \/ RevokeExpired(r) \/ RevokeByToken(r)
                             \/ RefreshSeen(r) \/ CreateSession(r)
  BY DEF Next, Serve, vars, BeginTransaction, PurgeTransactions, Redeploy, Tick, Arrive,
         ArriveCallback, Lookup, Finish, AuditLogout, Consume, Diagnose, ReadBack, ExchangeCode,
         AuditLogin, Answer, AuditFailure, Throw
<1> QED BY <1>1, <1>2, <1>3, <1>4, <1>5, <1>6

\* A session is created in one way only.
LEMMA NewSession ==
  ASSUME TypeOK, [Next]_vars, NEW s \in Sessions, sessions[s].state = "none", sessions'[s] # sessions[s]
  PROVE  \E r \in Requests :
           /\ CreateSession(r) /\ req'[r].sess = s /\ sessions'[s].txn = req[r].txn
           /\ sessions'[s].seen = now /\ lastUse'[s] = now
           /\ \A u \in Sessions \ {s} : sessions'[u] = sessions[u] /\ lastUse'[u] = lastUse[u]
<1>0. /\ sessions \in [Sessions -> SessionRow] /\ lastUse \in [Sessions -> Nat]
      /\ req \in [Requests -> RequestType]
  BY Types
<1>1. CASE PurgeSessions
  BY <1>1 DEF PurgeSessions, Purgeable, Stored
<1>2. ASSUME NEW r \in Requests, RevokeExpired(r) \/ RevokeByToken(r) \/ RefreshSeen(r) PROVE FALSE
  BY <1>0, <1>2 DEF RevokeExpired, RevokeByToken, RefreshSeen, Stored
<1>3. ASSUME NEW r \in Requests, CreateSession(r)
      PROVE  /\ req'[r].sess = s /\ sessions'[s].txn = req[r].txn
             /\ sessions'[s].seen = now /\ lastUse'[s] = now
             /\ \A u \in Sessions \ {s} : sessions'[u] = sessions[u] /\ lastUse'[u] = lastUse[u]
  <2>1. PICK u \in Sessions :
           /\ sessions' = [sessions EXCEPT ![u] =
                [state |-> "live", user |-> req[r].user, txn |-> req[r].txn,
                 expires |-> now + SessionTTL, seen |-> now]]
           /\ req' = [req EXCEPT ![r].sess = u]
           /\ lastUse' = [lastUse EXCEPT ![u] = now]
    BY <1>3 DEF CreateSession
  <2>2. u = s
    BY <1>0, <2>1
  <2>3. req[r] \in RequestType
    BY <1>0
  <2>4. req'[r].sess = s
    BY <1>0, <2>1, <2>2, <2>3 DEF RequestType
  <2> QED BY <1>0, <2>1, <2>2, <2>4
<1>4. \/ PurgeSessions
      \/ \E r \in Requests : \/ RevokeExpired(r) \/ RevokeByToken(r)
                             \/ RefreshSeen(r) \/ CreateSession(r)
  BY DEF Next, Serve, vars, BeginTransaction, PurgeTransactions, Redeploy, Tick, Arrive,
         ArriveCallback, Lookup, Finish, AuditLogout, Consume, Diagnose, ReadBack, ExchangeCode,
         AuditLogin, Answer, AuditFailure, Throw
<1> QED BY <1>1, <1>2, <1>3, <1>4

\* A transaction that is closed stays closed; only a callback consumes one.
LEMMA TransactionStep ==
  ASSUME TypeOK, [Next]_vars, NEW t \in Txns, txns[t].state \in {"consumed", "gone"}
  PROVE  txns'[t].state \in {"consumed", "gone"}
<1>0. txns \in [Txns -> TxnRow]
  BY Types
<1>1. CASE UNCHANGED txns
  BY <1>1
<1>2. CASE BeginTransaction
  BY <1>0, <1>2 DEF BeginTransaction
<1>3. CASE PurgeTransactions
  BY <1>3 DEF PurgeTransactions
<1>4. ASSUME NEW r \in Requests, Consume(r) PROVE txns'[t].state \in {"consumed", "gone"}
  <2>1. txns[t] \in TxnRow
    BY <1>0
  <2>2. txns'[t] = txns[t] \/ txns'[t] = [txns[t] EXCEPT !.state = "consumed"]
    BY <1>0, <1>4 DEF Consume
  <2> QED BY <2>1, <2>2 DEF TxnRow
<1>5. \/ UNCHANGED txns \/ BeginTransaction \/ PurgeTransactions
      \/ \E r \in Requests : Consume(r)
  BY DEF Next, Serve, vars, PurgeSessions, Redeploy, Tick, Arrive, ArriveCallback, Lookup, Finish,
         RevokeExpired, RefreshSeen, RevokeByToken, AuditLogout, Diagnose, ReadBack, ExchangeCode,
         CreateSession, AuditLogin, Answer, AuditFailure, Throw
<1> QED BY <1>1, <1>2, <1>3, <1>4, <1>5

\* Time does not go back, the allow list does not grow, the audit log loses nothing.
LEMMA EnvironmentStep ==
  ASSUME TypeOK, [Next]_vars
  PROVE  /\ now' \in Nat /\ now <= now' /\ allowed' \subseteq allowed /\ logins \subseteq logins'
         /\ (\E r \in Requests : Serve(r)) => now' = now
         /\ (~ \E r \in Requests : Serve(r)) => UNCHANGED <<held, logins, lastUse, pc, req>>
<1>0. now \in Nat
  BY Types
<1>1. CASE \E r \in Requests : Serve(r)
  <2>1. UNCHANGED <<now, allowed>> /\ logins \subseteq logins'
    BY <1>1 DEF Serve, Arrive, ArriveCallback, Lookup, Finish, RevokeExpired, RefreshSeen,
         RevokeByToken, AuditLogout, Consume, Diagnose, ReadBack, ExchangeCode, CreateSession,
         AuditLogin, Answer, AuditFailure, Throw
  <2> QED BY <1>0, <1>1, <2>1
<1>2. CASE ~ \E r \in Requests : Serve(r)
  <2>1. BeginTransaction \/ PurgeSessions \/ PurgeTransactions \/ Redeploy \/ Tick \/ UNCHANGED vars
    BY <1>2 DEF Next
  <2>2. UNCHANGED <<held, logins, lastUse, pc, req>>
    BY <2>1 DEF BeginTransaction, PurgeSessions, PurgeTransactions, Redeploy, Tick, vars
  <2>3. now' \in {now, now + 1}
    BY <2>1 DEF BeginTransaction, PurgeSessions, PurgeTransactions, Redeploy, Tick, vars
  <2>4. allowed' \subseteq allowed
    BY <2>1 DEF BeginTransaction, PurgeSessions, PurgeTransactions, Redeploy, Tick, vars
  <2> QED BY <1>0, <1>2, <2>2, <2>3, <2>4
<1> QED BY <1>1, <1>2

-----------------------------------------------------------------------------
\* Each part of the invariant is kept.

\* What is dead stays dead.
LEMMA DeadStays ==
  ASSUME AuthInv, [Next]_vars, NEW s \in Sessions, sessions[s].state # "none", Dead(s)
  PROVE  Dead(s)'
<1>0. /\ TypeOK /\ (\A r \in Requests : RequestFits(r)) /\ SessionKept(s)
      /\ now' \in Nat /\ now \in Nat /\ now <= now' /\ allowed' \subseteq allowed /\ allowed \subseteq Users
  BY SessionStep, EnvironmentStep, Types DEF AuthInv
<1>1. /\ sessions[s] \in SessionRow /\ sessions'[s] \in SessionRow
      /\ sessions[s].seen \in Nat /\ sessions'[s].seen \in Nat
      /\ sessions[s].expires \in Nat /\ sessions'[s].expires \in Nat
  <2>1. TypeOK'
    BY <1>0, TypesKept
  <2>2. sessions \in [Sessions -> SessionRow] /\ sessions' \in [Sessions -> SessionRow]
    BY <1>0, <2>1 DEF TypeOK
  <2> QED BY <2>2 DEF SessionRow
<1>2. CASE sessions'[s].state \in {"revoked", "gone"}
  BY <1>2 DEF Dead
<1>3. CASE sessions'[s].state \notin {"revoked", "gone"}
  <2>1. /\ sessions[s].state \notin {"revoked", "gone"}
        /\ sessions'[s].expires = sessions[s].expires /\ sessions'[s].user = sessions[s].user
    BY <1>0, <1>3 DEF SessionKept
  <2>2. CASE Expired(s)
    BY <1>0, <1>1, <2>1, <2>2 DEF Dead, Expired
  <2>3. CASE sessions[s].user \notin allowed
    BY <1>0, <2>1, <2>3 DEF Dead
  <2>4. CASE ~Expired(s) /\ sessions[s].user \in allowed
    <3>1. Idle(s)
      BY <2>1, <2>4 DEF Dead
    <3>2. \A q \in Requests : req[q].sess = s /\ pc[q] \in Pending => pc[q] \in {"lookup", "revoke"}
      BY <2>1, <2>4 DEF Dead
    <3>3. ~ \E q \in Requests : pc[q] = "refresh" /\ req[q].sess = s
      BY <3>2 DEF Pending
    <3>4. sessions'[s].seen = sessions[s].seen
      BY <1>0, <1>3, <3>3 DEF SessionKept
    <3>5. Idle(s)'
      BY <1>0, <1>1, <3>1, <3>4, TimeAssumption DEF Idle
    <3>6. ASSUME NEW q \in Requests, req'[q].sess = s, pc'[q] \in Pending
          PROVE  pc'[q] \in {"lookup", "revoke"}
      <4>1. CASE ~Serve(q)
        <5>1. pc'[q] = pc[q] /\ req'[q] = req[q]
          BY <1>0, <4>1, OthersStay, EnvironmentStep
        <5> QED BY <3>2, <3>6, <5>1
      <4>2. CASE Serve(q)
        <5>1. Moves(q)
          BY <1>0, <4>2, Transitions
        <5>2. s # Nil
          BY NilAssumption
        <5>3. "idle" \notin Pending
          BY DEF Pending, Callback
        <5>4. pc[q] \in Pending /\ req[q].sess = s => pc[q] \in {"lookup", "revoke"}
          BY <3>2
        <5> QED BY <3>1, <3>6, <5>1, <5>2, <5>3, <5>4 DEF Moves, From, Carries, Usable, Pending, Callback
      <4> QED BY <4>1, <4>2
    <3> QED BY <3>5, <3>6 DEF Dead
  <2> QED BY <2>2, <2>3, <2>4
<1> QED BY <1>2, <1>3

LEMMA RequestsKept ==
  ASSUME AuthInv, [Next]_vars, NEW r \in Requests
  PROVE  RequestFits(r)'
<1>0. /\ TypeOK /\ (\A q \in Requests : RequestFits(q)) /\ RequestFits(r)
      /\ logins \subseteq logins' /\ held \subseteq Sessions
      /\ \A s \in held : sessions[s].state # "none"
  BY EnvironmentStep, Types DEF AuthInv, SessionFits
<1>1. \A s \in Sessions : sessions[s].state # "none" => sessions'[s].state # "none"
  BY <1>0, SessionStep DEF SessionKept
<1>2. CASE ~Serve(r)
  <2>1. pc'[r] = pc[r] /\ req'[r] = req[r]
    BY <1>0, <1>2, OthersStay, EnvironmentStep
  <2> QED BY <1>0, <1>1, <2>1 DEF RequestFits
<1>3. CASE Serve(r)
  <2>1. Moves(r)
    BY <1>0, <1>3, Transitions
  <2>2. pc'[r] = "idle" => req'[r] = NoRequest
    BY <2>1 DEF Moves, From
  <2>3. pc'[r] \in OnSession => req'[r].sess \in Sessions /\ sessions'[req'[r].sess].state # "none"
    BY <1>0, <1>1, <2>1 DEF Moves, From, Carries, RequestFits, OnSession
  <2>4. pc'[r] \in {"consume"} \cup Spending => req'[r].txn \in Txns
    BY <1>0, <2>1 DEF Moves, From, Carries, RequestFits, Spending
  <2>5. pc'[r] = "answer" => req'[r].sess \in logins'
    BY <2>1 DEF Moves, From, Carries
  <2> QED BY <2>2, <2>3, <2>4, <2>5 DEF RequestFits
<1> QED BY <1>2, <1>3

LEMMA LateKept ==
  ASSUME AuthInv, [Next]_vars, NEW r \in Requests
  PROVE  LateFits(r)'
<1>0. /\ TypeOK /\ (\A q \in Requests : RequestFits(q)) /\ RequestFits(r) /\ LateFits(r)
      /\ now' \in Nat /\ now \in Nat /\ allowed' \subseteq allowed /\ allowed \subseteq Users
      /\ held \subseteq Sessions /\ \A s \in held : sessions[s].state # "none"
  BY EnvironmentStep, Types DEF AuthInv, SessionFits
<1> DEFINE s == req[r].sess
<1>1. pc[r] \in OnSession => s \in Sessions /\ sessions[s].state # "none" /\ SessionKept(s)
  BY <1>0, SessionStep DEF RequestFits
<1>2. pc[r] \in OnSession /\ sessions[s].user \notin allowed => sessions'[s].user \notin allowed'
  BY <1>0, <1>1, NilAssumption DEF SessionKept
<1>3. CASE ~Serve(r)
  <2>1. pc'[r] = pc[r] /\ req'[r] = req[r]
    BY <1>0, <1>3, OthersStay, EnvironmentStep
  <2>2. \A u \in Sessions : sessions[u].state # "none" /\ Dead(u) => Dead(u)'
    BY DeadStays
  <2>3. pc[r] = "lookup" /\ Dead(s) => Dead(req[r].sess)'
    BY <1>1, <2>1, <2>2 DEF OnSession
  <2> QED BY <1>0, <1>2, <2>1, <2>3 DEF LateFits, OnSession
<1>4. CASE Serve(r)
  <2>1. Moves(r) /\ now' = now
    BY <1>0, <1>4, Transitions, EnvironmentStep
  <2>2. CASE pc[r] = "idle"
    <3>1. "idle" \notin Pending
      BY DEF Pending, Callback
    <3>2. CASE pc'[r] # "lookup" \/ ~req'[r].late
      BY <2>1, <2>2, <3>1, <3>2 DEF Moves, From, LateFits, Callback
    <3>3. CASE pc'[r] = "lookup" /\ req'[r].late
      <4> DEFINE u == req'[r].sess
      <4>1. u \in held /\ req'[r].kind = "admin" /\ TooLate(u)
        BY <2>1, <2>2, <3>1, <3>3 DEF Moves, From
      <4>2. u \in Sessions /\ sessions[u].state # "none"
        BY <1>0, <4>1
      <4>3. Arrive(r)
        BY <1>0, <1>4, <2>2, <3>3, Types DEF Serve, ArriveCallback, Lookup, Finish, RevokeExpired,
           RefreshSeen, RevokeByToken, AuditLogout, Consume, Diagnose, ReadBack, ExchangeCode,
           CreateSession, AuditLogin, Answer, AuditFailure, Throw, Pending, Callback
      <4>4. UNCHANGED <<sessions, allowed, now>>
        BY <4>3 DEF Arrive
      <4>5. SessionFits(u) /\ lastUse[u] \in Nat /\ sessions[u] \in SessionRow
        BY <4>2, Types DEF AuthInv
      <4>6. CASE sessions[u].state \in {"revoked", "gone"} \/ Expired(u) \/ sessions[u].user \notin allowed
        BY <3>3, <4>1, <4>4, <4>6 DEF LateFits, Dead, Expired
      <4>7. CASE ~ (sessions[u].state \in {"revoked", "gone"} \/ Expired(u) \/ sessions[u].user \notin allowed)
        <5>1. sessions[u].state = "live"
          BY <4>2, <4>5, <4>7 DEF SessionRow
        <5>2. /\ lastUse[u] + IdleTTL <= now
              /\ \A q \in Requests : req[q].sess = u => pc[q] \notin Pending
          BY <4>1, <4>7, <5>1 DEF TooLate
        <5>3. sessions[u].seen <= lastUse[u] /\ sessions[u].seen \in Nat
          BY <4>5, <5>1 DEF SessionFits, SessionRow
        <5>4. Idle(u)
          BY <1>0, <4>5, <5>2, <5>3, TimeAssumption DEF Idle
        <5>5. \A q \in Requests \ {r} : req'[q].sess = u => pc'[q] \notin Pending
          BY <1>0, <1>4, <5>2, OthersStay
        <5> QED BY <3>3, <4>1, <4>4, <5>4, <5>5 DEF LateFits, Dead, Idle
      <4> QED BY <4>6, <4>7
    <3> QED BY <3>2, <3>3
  <2>3. CASE pc[r] # "idle"
    <3>1. CASE ~req'[r].late
      BY <3>1 DEF LateFits
    <3>2. CASE req'[r].late
      <4>0. NoRequest.late = FALSE
        BY DEF NoRequest
      <4>1. req[r].late /\ pc'[r] # "idle"
        <5>1. \/ pc'[r] = "idle" /\ req'[r] = NoRequest
              \/ pc'[r] # "idle" /\ req'[r].late = req[r].late
          BY <2>1, <2>3 DEF Moves, From, Carries
        <5> QED BY <3>2, <4>0, <5>1
      <4>2. /\ req[r].kind = "admin" /\ pc[r] \in {"lookup", "revoke", "refresh"}
            /\ pc[r] = "lookup" => Dead(s)
            /\ pc[r] = "refresh" => sessions[s].user \notin allowed
        BY <1>0, <4>1 DEF LateFits
      <4>3. /\ Carries(r)
            /\ \/ pc[r] = "lookup" /\ pc'[r] = "revoke"
               \/ pc[r] = "lookup" /\ pc'[r] = "refresh" /\ Usable(s)
               \/ pc[r] = "lookup" /\ pc'[r] = "admitted" /\ Usable(s) /\ sessions[s].user \in allowed
        BY <2>1, <2>3, <4>1, <4>2 DEF Moves, From, Carries, Callback
      <4>4. Usable(s) => sessions[s].user \notin allowed
        BY <4>2, <4>3 DEF Usable, Dead
      <4> QED BY <1>2, <3>2, <4>2, <4>3, <4>4 DEF LateFits, Carries, OnSession
    <3> QED BY <3>1, <3>2
  <2> QED BY <2>2, <2>3
<1> QED BY <1>3, <1>4

LEMMA SpendingKept ==
  ASSUME AuthInv, [Next]_vars, NEW r \in Requests
  PROVE  SpendsAlone(r)'
<1> SUFFICES ASSUME pc'[r] \in Spending
             PROVE  /\ txns'[req'[r].txn].state \in {"consumed", "gone"}
                    /\ \A s \in Sessions : sessions'[s].txn # req'[r].txn
                    /\ \A q \in Requests \ {r} : pc'[q] \in Spending => req'[q].txn # req'[r].txn
  BY DEF SpendsAlone
<1>0. /\ TypeOK /\ \A q \in Requests : RequestFits(q) /\ SpendsAlone(q)
      /\ \A s \in Sessions : SessionFits(s)
  BY DEF AuthInv
<1> DEFINE t == req'[r].txn
<1>1. /\ req[r].txn = t
      /\ \/ pc[r] \in Spending
         \/ Serve(r) /\ pc[r] = "consume" /\ txns[t].state = "open" /\ (t \in Txns => txns'[t].state = "consumed")
  <2>1. CASE ~Serve(r)
    BY <1>0, <2>1, OthersStay, EnvironmentStep
  <2>2. CASE Serve(r)
    <3>1. Moves(r)
      BY <1>0, <2>2, Transitions
    <3> QED BY <2>2, <3>1 DEF Moves, From, Carries, Spending
  <2> QED BY <2>1, <2>2
<1>2. t \in Txns /\ t # Nil
  BY <1>0, <1>1, NilAssumption DEF RequestFits
<1>3. txns'[t].state \in {"consumed", "gone"}
  <2>1. CASE pc[r] \in Spending
    <3>1. txns[t].state \in {"consumed", "gone"}
      BY <1>0, <1>1, <2>1 DEF SpendsAlone
    <3> QED BY <1>0, <1>2, <3>1, TransactionStep
  <2> QED BY <1>1, <1>2, <2>1
<1>4. /\ \A s \in Sessions : sessions[s].txn # t
      /\ \A q \in Requests \ {r} : pc[q] \in Spending => req[q].txn # t
  <2>1. CASE pc[r] \in Spending
    BY <1>0, <1>1, <2>1 DEF SpendsAlone
  <2>2. CASE txns[t].state = "open"
    BY <1>0, <1>2, <2>2 DEF SessionFits, SpendsAlone
  <2> QED BY <1>1, <2>1, <2>2
<1>5. ASSUME NEW s \in Sessions PROVE sessions'[s].txn # t
  <2>1. CASE sessions[s].state # "none"
    BY <1>0, <1>4, <2>1, SessionStep DEF SessionKept
  <2>2. CASE sessions[s].state = "none" /\ sessions'[s] # sessions[s]
    <3>1. PICK q \in Requests : CreateSession(q) /\ sessions'[s].txn = req[q].txn
      BY <1>0, <2>2, NewSession
    <3>2. pc[q] = "create" /\ pc'[q] = "auditlogin"
      BY <1>0, <3>1, Types DEF CreateSession
    <3>3. q # r
      BY <3>2 DEF Spending
    <3> QED BY <1>4, <3>1, <3>2, <3>3 DEF Spending
  <2> QED BY <1>4, <2>1, <2>2
<1>6. ASSUME NEW q \in Requests \ {r}, pc'[q] \in Spending PROVE req'[q].txn # t
  <2>1. CASE ~Serve(q)
    <3>1. pc'[q] = pc[q] /\ req'[q] = req[q]
      BY <1>0, <2>1, OthersStay, EnvironmentStep
    <3> QED BY <1>4, <1>6, <3>1
  <2>2. CASE Serve(q)
    <3>1. Moves(q) /\ pc'[r] = pc[r]
      BY <1>0, <2>2, Transitions, OthersStay
    <3>2. pc[r] \in Spending /\ txns[t].state \in {"consumed", "gone"}
      BY <1>0, <1>1, <3>1 DEF SpendsAlone
    <3>3. /\ req'[q].txn = req[q].txn
          /\ pc[q] \in Spending \/ txns[req[q].txn].state = "open"
      BY <1>6, <3>1 DEF Moves, From, Carries, Spending
    <3> QED BY <1>4, <3>2, <3>3
  <2> QED BY <2>1, <2>2
<1> QED BY <1>3, <1>5, <1>6

LEMMA OneSessionKept ==
  ASSUME AuthInv, [Next]_vars
  PROVE  OneSessionPerTransaction'
<1>0. /\ TypeOK /\ OneSessionPerTransaction
      /\ \A q \in Requests : RequestFits(q) /\ SpendsAlone(q)
  BY DEF AuthInv
<1>1. \A s \in Sessions : sessions[s].state # "none" \/ sessions'[s] = sessions[s]
                            => sessions'[s].txn = sessions[s].txn
  BY <1>0, SessionStep DEF SessionKept
<1>2. ASSUME NEW s \in Sessions, NEW u \in Sessions, s # u,
             sessions[s].state = "none", sessions'[s] # sessions[s]
      PROVE  sessions'[s].txn # sessions'[u].txn
  <2>1. PICK r \in Requests : /\ CreateSession(r) /\ sessions'[s].txn = req[r].txn
                              /\ sessions'[u] = sessions[u]
    BY <1>0, <1>2, NewSession
  <2>2. pc[r] \in Spending
    BY <2>1 DEF CreateSession, Spending
  <2> QED BY <1>0, <2>1, <2>2 DEF SpendsAlone
<1> QED BY <1>0, <1>1, <1>2 DEF OneSessionPerTransaction

\* Which request uses a session, and how.
LEMMA UseStep ==
  ASSUME TypeOK, \A q \in Requests : RequestFits(q), [Next]_vars,
         NEW s \in Sessions, lastUse'[s] # lastUse[s]
  PROVE  /\ lastUse'[s] = now
         /\ \/ Usable(s) /\ ~SeenIsStale(s)
            \/ sessions'[s].seen = now
            \/ sessions'[s].state \notin {"live", "revoked"}
<1>0. lastUse \in [Sessions -> Nat] /\ sessions \in [Sessions -> SessionRow]
  BY Types
<1>1. ASSUME NEW r \in Requests, Lookup(r)
      PROVE  lastUse'[s] = now /\ Usable(s) /\ ~SeenIsStale(s)
  <2>1. Usable(req[r].sess) /\ ~SeenIsStale(req[r].sess) /\ lastUse' = [lastUse EXCEPT ![req[r].sess] = now]
    BY <1>1 DEF Lookup, Enter
  <2>2. req[r].sess = s
    BY <1>0, <2>1
  <2> QED BY <1>0, <2>1, <2>2
<1>2. ASSUME NEW r \in Requests, RefreshSeen(r)
      PROVE  /\ lastUse'[s] = now
             /\ sessions'[s].seen = now \/ sessions'[s].state \notin {"live", "revoked"}
  <2>1. lastUse' = [lastUse EXCEPT ![req[r].sess] = now]
    BY <1>2 DEF RefreshSeen, Enter
  <2>2. req[r].sess = s
    BY <1>0, <2>1
  <2>3. CASE Stored(s)
    <3>1. sessions'[s] = Refreshed(sessions[s]) /\ sessions[s] \in SessionRow
      BY <1>0, <1>2, <2>2, <2>3 DEF RefreshSeen
    <3>2. sessions'[s].seen = now
      BY <3>1 DEF Refreshed, SessionRow
    <3> QED BY <1>0, <2>1, <2>2, <3>2
  <2>4. CASE ~Stored(s)
    BY <1>0, <1>2, <2>1, <2>2, <2>4 DEF RefreshSeen, Stored
  <2> QED BY <2>3, <2>4
<1>3. ASSUME NEW r \in Requests, CreateSession(r) PROVE lastUse'[s] = now /\ sessions'[s].seen = now
  BY <1>0, <1>3 DEF CreateSession
<1>4. \E r \in Requests : Lookup(r) \/ RefreshSeen(r) \/ CreateSession(r)
  BY DEF Next, Serve, vars, BeginTransaction, PurgeSessions, PurgeTransactions, Redeploy, Tick, Arrive,
         ArriveCallback, Finish, RevokeExpired, RevokeByToken, AuditLogout, Consume, Diagnose,
         ReadBack, ExchangeCode, AuditLogin, Answer, AuditFailure, Throw
<1> QED BY <1>1, <1>2, <1>3, <1>4

\* Only an answer gives a browser a cookie.
LEMMA HeldStep ==
  ASSUME [Next]_vars, NEW s \in held' \ held
  PROVE  \E r \in Requests : pc[r] = "answer" /\ req[r].sess = s
<1>1. PICK r \in Requests : Answer(r)
  BY DEF Next, Serve, vars, BeginTransaction, PurgeSessions, PurgeTransactions, Redeploy, Tick, Arrive,
         ArriveCallback, Lookup, Finish, RevokeExpired, RefreshSeen, RevokeByToken, AuditLogout,
         Consume, Diagnose, ReadBack, ExchangeCode, CreateSession, AuditLogin, AuditFailure, Throw
<1> QED BY <1>1 DEF Answer

LEMMA SessionsKept ==
  ASSUME AuthInv, [Next]_vars, NEW s \in Sessions
  PROVE  SessionFits(s)'
<1>0. /\ TypeOK /\ SessionFits(s)
      /\ \A q \in Requests : RequestFits(q) /\ SpendsAlone(q)
      /\ now \in Nat /\ now' \in Nat /\ now <= now' /\ logins \subseteq logins'
  BY EnvironmentStep, Types DEF AuthInv
<1>1. TypeOK'
  BY <1>0, TypesKept
<1>2. /\ sessions[s] \in SessionRow /\ sessions'[s] \in SessionRow
      /\ lastUse[s] \in Nat /\ lastUse'[s] \in Nat
  BY <1>0, <1>1 DEF TypeOK
<1>3. sessions[s].state # "none" => SessionKept(s)
  BY <1>0, SessionStep
<1>4. s \in held' => s \in logins' /\ sessions'[s].state # "none"
  <2>1. s \in held' \ held => s \in logins /\ sessions[s].state # "none"
    BY <1>0, HeldStep DEF RequestFits, OnSession
  <2> QED BY <1>0, <1>3, <2>1 DEF SessionFits, SessionKept
<1>5. ASSUME sessions'[s].txn # Nil PROVE txns'[sessions'[s].txn].state \in {"consumed", "gone"}
  <2>1. sessions'[s].txn \in Txns
    BY <1>2, <1>5 DEF SessionRow
  <2>2. txns[sessions'[s].txn].state \in {"consumed", "gone"}
    <3>1. CASE sessions[s].state # "none" \/ sessions'[s] = sessions[s]
      BY <1>0, <1>3, <1>5, <3>1 DEF SessionFits, SessionKept
    <3>2. CASE sessions[s].state = "none" /\ sessions'[s] # sessions[s]
      <4>1. PICK r \in Requests : CreateSession(r) /\ sessions'[s].txn = req[r].txn
        BY <1>0, <3>2, NewSession
      <4> QED BY <1>0, <4>1 DEF CreateSession, Spending, SpendsAlone
    <3> QED BY <3>1, <3>2
  <2> QED BY <1>0, <2>1, <2>2, TransactionStep
<1>6. lastUse[s] <= now /\ lastUse'[s] \in {lastUse[s], now}
  BY <1>0, UseStep DEF SessionFits
<1>7. lastUse'[s] <= now'
  BY <1>0, <1>2, <1>6
<1>8. ASSUME sessions'[s].state = "live"
      PROVE  sessions'[s].seen <= lastUse'[s] /\ lastUse'[s] < sessions'[s].seen + SeenThreshold
  <2>1. SeenThreshold \in Nat /\ 0 < SeenThreshold
    BY TimeAssumption
  <2>2. CASE sessions'[s].seen = now /\ lastUse'[s] = now
    BY <1>0, <2>1, <2>2
  <2>3. CASE sessions[s].state = "none" /\ sessions'[s] # sessions[s]
    BY <1>0, <2>2, <2>3, NewSession
  <2>4. CASE sessions[s].state # "none" /\ ~(sessions'[s].seen = now /\ lastUse'[s] = now)
    <3>1. /\ sessions[s].state = "live" /\ sessions'[s].seen = sessions[s].seen
          /\ sessions[s].seen \in Nat
      BY <1>2, <1>3, <1>8, <2>4 DEF SessionKept, SessionRow
    <3>2. sessions[s].seen <= lastUse[s] /\ lastUse[s] < sessions[s].seen + SeenThreshold
      BY <1>0, <3>1 DEF SessionFits
    <3>3. CASE lastUse'[s] = lastUse[s]
      BY <3>1, <3>2, <3>3
    <3>4. CASE lastUse'[s] # lastUse[s]
      <4>1. lastUse'[s] = now /\ ~SeenIsStale(s)
        BY <1>0, <1>8, <2>4, <3>4, UseStep
      <4> QED BY <1>0, <1>2, <1>6, <2>1, <3>1, <3>2, <4>1 DEF SeenIsStale
    <3> QED BY <3>3, <3>4
  <2>5. CASE sessions[s].state = "none" /\ sessions'[s] = sessions[s]
    BY <1>8, <2>5
  <2> QED BY <2>2, <2>3, <2>4, <2>5
<1> QED BY <1>4, <1>5, <1>7, <1>8 DEF SessionFits

-----------------------------------------------------------------------------
\* The theorems.

LEMMA InitFits == Init => AuthInv
<1> SUFFICES ASSUME Init PROVE AuthInv
  OBVIOUS
<1>1. TypeOK
  <2>1. NoRequest \in RequestType
    BY DEF NoRequest, RequestType
  <2>2. NoSession \in SessionRow /\ [state |-> "none", expires |-> 0] \in TxnRow
    BY DEF NoSession, SessionRow, TxnRow
  <2> QED BY <2>1, <2>2, Types DEF Init
<1>2. \A s \in Sessions : sessions[s].txn = Nil /\ sessions[s].state = "none"
  BY DEF Init, NoSession
<1>3. \A r \in Requests : pc[r] = "idle" /\ req[r] = NoRequest /\ req[r].late = FALSE
  BY DEF Init, NoRequest
<1>4. \A s \in Sessions : s \notin held /\ lastUse[s] <= now
  BY DEF Init
<1> QED
  BY <1>1, <1>2, <1>3, <1>4
  DEF AuthInv, OneSessionPerTransaction, SessionFits, RequestFits, SpendsAlone, LateFits, OnSession, Spending

\* Every step of the service keeps the invariant that ties requests, sessions
\* and transactions together.
THEOREM AuthInvariant == Spec => []AuthInv
<1>1. Init => AuthInv
  BY InitFits
<1>2. AuthInv /\ [Next]_vars => AuthInv'
  <2> SUFFICES ASSUME AuthInv, [Next]_vars PROVE AuthInv'
    OBVIOUS
  <2>1. TypeOK'
    BY TypesKept DEF AuthInv
  <2>2. OneSessionPerTransaction'
    BY OneSessionKept
  <2>3. \A s \in Sessions : SessionFits(s)'
    BY SessionsKept
  <2>4. \A r \in Requests : RequestFits(r)' /\ SpendsAlone(r)' /\ LateFits(r)'
    BY RequestsKept, SpendingKept, LateKept
  <2> QED BY <2>1, <2>2, <2>3, <2>4 DEF AuthInv
<1> QED BY <1>1, <1>2, PTL DEF Spec

\* Requests, sessions and transactions keep their types: no request reaches a
\* step, and no row a state, that the handlers do not know.
THEOREM AuthTypes == Spec => []TypeOK
<1>1. AuthInv => TypeOK
  BY DEF AuthInv
<1> QED BY <1>1, AuthInvariant, PTL

\* consumeOAuthTransaction's conditional UPDATE makes a state single-use: at
\* most one session comes of it, however callbacks overlap and fail.
THEOREM SingleUse == Spec => []OneSessionPerTransaction
<1>1. AuthInv => OneSessionPerTransaction
  BY DEF AuthInv
<1> QED BY <1>1, AuthInvariant, PTL

\* lookupSession and the allow list of requireAdmin let no request in that
\* arrived after its session was over, whatever else was under way.
THEOREM Denial == Spec => []LateRequestsAreDenied
<1>1. AuthInv => LateRequestsAreDenied
  BY DEF AuthInv, LateFits, LateRequestsAreDenied
<1> QED BY <1>1, AuthInvariant, PTL

\* handleAuth hands out a cookie only after the audit row of the sign-in.
THEOREM AuditedSignIns == Spec => []SignInsAreAudited
<1>1. AuthInv => SignInsAreAudited
  BY Types DEF AuthInv, SessionFits, SignInsAreAudited
<1> QED BY <1>1, AuthInvariant, PTL

\* No statement brings a revoked or purged session back, or prolongs one: the
\* last_seen_at UPDATE of a late request included.
THEOREM Finality == Spec => RevocationIsFinal
<1>1. AuthInv /\ [Next]_vars =>
        [\A s \in Sessions : sessions[s].state # "none" =>
            /\ sessions[s].state \in {"revoked", "gone"} => sessions'[s].state \in {"revoked", "gone"}
            /\ sessions'[s].state # "gone" => sessions'[s].expires = sessions[s].expires]_vars
  BY SessionStep DEF AuthInv, SessionKept
<1> QED BY <1>1, AuthInvariant, PTL DEF Spec, RevocationIsFinal

\* The throttle of last_seen_at never costs more than its threshold: a cut-off
\* as idle means IdleTTL less SeenThreshold without a request let in.
THEOREM HonestIdle == Spec => IdleIsHonest
<1>1. ASSUME AuthInv, [Next]_vars, NEW r \in Requests,
             pc[r] = "lookup", pc'[r] = "revoke", ~Expired(req[r].sess)
      PROVE  lastUse[req[r].sess] + IdleTTL < now + SeenThreshold
  <2> DEFINE s == req[r].sess
  <2>1. TypeOK /\ s \in Sessions /\ SessionFits(s)
    BY <1>1 DEF AuthInv, RequestFits, OnSession
  <2>2. Serve(r)
    BY <1>1, <2>1, OthersStay, EnvironmentStep
  <2>3. Moves(r)
    BY <2>1, <2>2, Transitions
  <2>4. sessions[s].state = "live" /\ Idle(s)
    BY <1>1, <2>3 DEF Moves, From, OnSession, Callback
  <2>5. lastUse[s] \in Nat /\ now \in Nat /\ sessions[s].seen \in Nat
    BY <2>1, Types DEF SessionRow
  <2>6. lastUse[s] < sessions[s].seen + SeenThreshold
    BY <2>1, <2>4 DEF SessionFits
  <2> QED BY <2>4, <2>5, <2>6, TimeAssumption DEF Idle
<1>2. AuthInv /\ [Next]_vars =>
        [\A r \in Requests :
            LET s == req[r].sess
            IN pc[r] = "lookup" /\ pc'[r] = "revoke" /\ ~Expired(s) =>
                 lastUse[s] + IdleTTL < now + SeenThreshold]_vars
  BY <1>1
<1> QED BY <1>2, AuthInvariant, PTL DEF Spec, IdleIsHonest

\* A sign-in makes at most one session, and nobody holds it before the audit
\* log does.
THEOREM SoundSignIns == Spec => []SignInsAreSound
<1>1. OneSessionPerTransaction /\ SignInsAreAudited => SignInsAreSound
  BY DEF SignInsAreSound
<1> QED BY <1>1, SingleUse, AuditedSignIns, PTL

\* A session ends once and for good, and not while it is used.
THEOREM OneEnd == Spec => SessionsEndOnce
BY HonestIdle, Finality DEF SessionsEndOnce

-----------------------------------------------------------------------------
\* The administration page: AdminCatalog.

Steps == {"idle", "call", "answer", "get", "list"}
Operations == [step : Steps, kind : Kinds, ids : SUBSET Ids, from : Bodies, flag : BOOLEAN,
               rows : [Ids -> Row]]
Forms == [id : Ids, body : Bodies] \cup {<<>>}
Notices == {"none", "loading", "loaded", "migrated", "error"}

\* What is sent to the server is a mutation, and an import sends drafts only.
IsDraft(row) == ~row.published
CallFits(job) ==
  job.step = "call" => /\ job.kind # "load"
                       /\ job.kind = "import" => \A i \in Ids : IsDraft(job.rows[i])

CatInv == PageTypeOK /\ \A p \in Pages, j \in Jobs : CallFits(jobs[p][j])

LEMMA CatTyped ==
  PageTypeOK <=> /\ rows \in [Ids -> Row]
                 /\ local \in [Pages -> [Ids -> Item]]
                 /\ backed \in [Pages -> BOOLEAN] /\ loaded \in [Pages -> BOOLEAN]
                 /\ entries \in [Pages -> [Ids -> Row]]
                 /\ form \in [Pages -> Forms]
                 /\ jobs \in [Pages -> [Jobs -> Operations]]
                 /\ notice \in [Pages -> Notices]
                 /\ ops \in [Pages -> 0..MaxOps]
BY DEF PageTypeOK, Forms, Operations, Steps, Notices

LEMMA CatBases ==
  /\ NoRow \in Row /\ NoItem \in Item /\ NoJob \in Operations /\ CallFits(NoJob)
  /\ "seed" \in Bodies /\ Pages \subseteq Bodies
  /\ [i \in Ids |-> NoRow] \in [Ids -> Row] /\ NoJob.step = "idle"
<1>1. NoRow \in Row /\ NoItem \in Item /\ "seed" \in Bodies /\ Pages \subseteq Bodies
  BY DEF NoRow, Row, NoItem, Item, Bodies
<1>2. NoJob \in Operations /\ NoJob.step = "idle"
  BY <1>1 DEF NoJob, Operations, Steps, Kinds
<1> QED BY <1>1, <1>2 DEF CallFits

LEMMA InitCatInv == PageInit => CatInv
<1> SUFFICES ASSUME PageInit PROVE CatInv
  OBVIOUS
<1>1. rows \in [Ids -> Row]
  <2> DEFINE live(b) == [state |-> "live", enabled |-> TRUE, published |-> b, body |-> "seed"]
             S == {NoRow} \cup {live(b) : b \in BOOLEAN}
  <2>1. \A b \in BOOLEAN : live(b) \in Row
    BY CatBases DEF Row
  <2>2. S \subseteq Row
    BY <2>1, CatBases
  <2>3. rows \in [Ids -> S]
    BY DEF PageInit
  <2> HIDE DEF S
  <2> QED BY <2>2, <2>3
<1>2. local \in [Pages -> [Ids -> Item]]
  <2> DEFINE S == {NoItem, [here |-> TRUE, enabled |-> TRUE, body |-> "seed"]}
  <2>1. S \subseteq Item
    BY CatBases DEF Item
  <2>2. local \in [Pages -> [Ids -> S]]
    BY DEF PageInit
  <2> HIDE DEF S
  <2> QED BY <2>1, <2>2
<1>3. /\ backed \in [Pages -> BOOLEAN] /\ loaded \in [Pages -> BOOLEAN]
      /\ entries \in [Pages -> [Ids -> Row]] /\ form \in [Pages -> Forms]
      /\ jobs \in [Pages -> [Jobs -> Operations]] /\ notice \in [Pages -> Notices]
  BY CatBases DEF PageInit, Forms, Notices
<1>4. ops \in [Pages -> 0..MaxOps]
  BY MaxOpsAssumption DEF PageInit
<1>5. \A p \in Pages, j \in Jobs : CallFits(jobs[p][j])
  BY CatBases DEF PageInit
<1> QED BY <1>1, <1>2, <1>3, <1>4, <1>5, CatTyped DEF CatInv

\* A call that is sent: it is a mutation, and the operation was counted.
Carried(p, j) ==
  /\ jobs' \in [Pages -> [Jobs -> Operations]] /\ notice' \in [Pages -> Notices]
  /\ ops' \in [Pages -> 0..MaxOps] /\ ops'[p] # ops[p]
  /\ \A q \in Pages, k \in Jobs : CallFits(jobs'[q][k])
  /\ UNCHANGED <<rows, backed, entries, loaded>>
  /\ \/ jobs'[p][j].step = "call" /\ backed[p]
     \/ ~backed[p] /\ UNCHANGED <<jobs, notice>>

LEMMA CarryStep ==
  ASSUME CatInv, NEW p \in Pages, NEW j \in Jobs, NEW kind \in Kinds \ {"load"},
         NEW ids \in SUBSET Ids, NEW from \in Bodies, NEW flag \in BOOLEAN,
         NEW payload \in [Ids -> Row], kind = "import" => \A i \in Ids : IsDraft(payload[i]),
         Carry(p, j, kind, ids, from, flag, payload)
  PROVE  Carried(p, j)
<1>1. /\ jobs \in [Pages -> [Jobs -> Operations]] /\ notice \in [Pages -> Notices]
      /\ ops \in [Pages -> 0..MaxOps] /\ \A q \in Pages, k \in Jobs : CallFits(jobs[q][k])
  BY CatTyped DEF CatInv
<1>2. /\ ops[p] < MaxOps /\ ops' = [ops EXCEPT ![p] = ops[p] + 1] /\ jobs[p][j].step = "idle"
      /\ UNCHANGED <<rows, backed, entries, loaded>>
  BY <1>1 DEF Carry
<1>3. ops' \in [Pages -> 0..MaxOps] /\ ops'[p] # ops[p]
  <2>1. ops[p] \in 0..MaxOps
    BY <1>1
  <2>2. ops[p] + 1 \in 0..MaxOps /\ ops[p] + 1 # ops[p]
    BY <1>2, <2>1, MaxOpsAssumption
  <2> QED BY <1>1, <1>2, <2>2
<1>4. CASE backed[p]
  <2> DEFINE job == [NoJob EXCEPT !.step = "call", !.kind = kind, !.ids = ids,
                                  !.from = from, !.flag = flag, !.rows = payload]
  <2>1. /\ job \in Operations /\ job.step = "call" /\ job.kind = kind /\ job.rows = payload
    BY CatBases DEF Operations, Steps
  <2>2. jobs' = [jobs EXCEPT ![p][j] = job] /\ notice' = [notice EXCEPT ![p] = "loading"]
    BY <1>4 DEF Carry, SetJob
  <2> HIDE DEF job
  <2>3. CallFits(job)
    BY <2>1 DEF CallFits
  <2>4. /\ jobs' \in [Pages -> [Jobs -> Operations]] /\ jobs'[p][j] = job
        /\ \A q \in Pages, k \in Jobs : jobs'[q][k] = job \/ jobs'[q][k] = jobs[q][k]
    BY <1>1, <2>1, <2>2
  <2>5. notice' \in [Pages -> Notices]
    BY <1>1, <2>2 DEF Notices
  <2> QED BY <1>1, <1>2, <1>3, <1>4, <2>1, <2>3, <2>4, <2>5 DEF Carried
<1>5. CASE ~backed[p]
  <2>1. UNCHANGED <<jobs, notice>>
    BY <1>5 DEF Carry
  <2> QED BY <1>1, <1>2, <1>3, <1>5, <2>1 DEF Carried
<1> QED BY <1>4, <1>5

\* What is written to the record stays in the browser of the page.
LEMMA KeepStep ==
  ASSUME CatInv, NEW p \in Pages, NEW ids, NEW item \in Item, Keep(p, ids, item)
  PROVE  /\ local' \in [Pages -> [Ids -> Item]]
         /\ \A q \in Pages \ {p} : local'[q] = local[q]
BY CatTyped DEF CatInv, Keep

\* What an operation of a page may change at once.
OperationStep(p, j) ==
  /\ local' \in [Pages -> [Ids -> Item]] /\ \A q \in Pages \ {p} : local'[q] = local[q]
  /\ local' = local \/ ops'[p] # ops[p]
  /\ backed' \in [Pages -> BOOLEAN] /\ form' \in [Pages -> Forms]
  /\ jobs' \in [Pages -> [Jobs -> Operations]] /\ notice' \in [Pages -> Notices]
  /\ ops' \in [Pages -> 0..MaxOps]
  /\ \A q \in Pages, k \in Jobs : CallFits(jobs'[q][k])
  /\ UNCHANGED <<rows, entries, loaded>>
  /\ \/ jobs'[p][j].step \in {"call", "get"} /\ backed'[p]
     \/ ~backed[p] /\ UNCHANGED <<backed, jobs, notice>>

LEMMA SendStep ==
  ASSUME CatInv, NEW p \in Pages, NEW j \in Jobs,
         NEW kind \in Kinds \ {"load", "import"}, NEW ids \in SUBSET Ids, NEW from \in Bodies,
         NEW flag \in BOOLEAN, Send(p, j, kind, ids, from, flag),
         local' \in [Pages -> [Ids -> Item]], \A q \in Pages \ {p} : local'[q] = local[q],
         form' \in [Pages -> Forms]
  PROVE  OperationStep(p, j)
<1> DEFINE payload == [i \in Ids |-> NoRow]
<1>1. /\ Carry(p, j, kind, ids, from, flag, payload) /\ payload \in [Ids -> Row]
      /\ \A i \in Ids : IsDraft(payload[i])
  BY CatBases DEF Send, IsDraft, NoRow
<1> HIDE DEF payload
<1>2. Carried(p, j)
  <2>1. kind \in Kinds \ {"load"} /\ (kind = "import" => \A i \in Ids : IsDraft(payload[i]))
    BY <1>1
  <2> QED BY <1>1, <2>1, CarryStep
<1>3. backed \in [Pages -> BOOLEAN]
  BY CatTyped DEF CatInv
<1> QED BY <1>2, <1>3 DEF OperationStep, Carried

LEMMA ImportStep ==
  ASSUME CatInv, NEW p \in Pages, NEW j \in Jobs, NEW ids \in SUBSET Ids,
         NEW body \in [Ids -> Bodies], Import(p, j, ids, body),
         local' \in [Pages -> [Ids -> Item]], \A q \in Pages \ {p} : local'[q] = local[q],
         UNCHANGED form
  PROVE  OperationStep(p, j)
<1> DEFINE payload == [i \in Ids |-> IF i \in ids
                                     THEN [state |-> "live", enabled |-> TRUE, published |-> FALSE,
                                           body |-> body[i]]
                                     ELSE NoRow]
<1>1. Carry(p, j, "import", ids, "seed", FALSE, payload)
  BY DEF Import
<1>2. payload \in [Ids -> Row] /\ \A i \in Ids : IsDraft(payload[i])
  <2>1. \A i \in Ids : payload[i] \in Row /\ IsDraft(payload[i])
    BY CatBases DEF Row, NoRow, IsDraft
  <2> QED BY <2>1
<1> HIDE DEF payload
<1>3. Carried(p, j)
  <2>1. "import" \in Kinds \ {"load"} /\ "seed" \in Bodies /\ FALSE \in BOOLEAN
    BY DEF Kinds, Bodies
  <2> QED BY <1>1, <1>2, <2>1, CarryStep
<1>4. backed \in [Pages -> BOOLEAN] /\ form \in [Pages -> Forms]
  BY CatTyped DEF CatInv
<1> QED BY <1>3, <1>4 DEF OperationStep, Carried

LEMMA OperationsStep ==
  ASSUME CatInv, NEW p \in Pages, NEW j \in Jobs, Operate(p, j)
  PROVE  OperationStep(p, j)
<1>1. /\ rows \in [Ids -> Row] /\ local \in [Pages -> [Ids -> Item]]
      /\ backed \in [Pages -> BOOLEAN] /\ loaded \in [Pages -> BOOLEAN]
      /\ entries \in [Pages -> [Ids -> Row]] /\ form \in [Pages -> Forms]
      /\ jobs \in [Pages -> [Jobs -> Operations]] /\ notice \in [Pages -> Notices]
      /\ ops \in [Pages -> 0..MaxOps] /\ \A q \in Pages, k \in Jobs : CallFits(jobs[q][k])
  BY CatTyped DEF CatInv
<1>2. {"create", "update", "delete", "enable", "publish", "duplicate"} \subseteq Kinds \ {"load", "import"}
  BY DEF Kinds
<1>3. \A i \in Ids : local[p][i].body \in Bodies /\ local[p][i].enabled \in BOOLEAN
                     /\ entries[p][i].enabled \in BOOLEAN /\ entries[p][i].body \in Bodies
  BY <1>1 DEF Item, Row
<1> DEFINE get == [NoJob EXCEPT !.step = "get"]
<1>4. get \in Operations /\ get.step = "get" /\ CallFits(get)
  BY CatBases DEF Operations, Steps, CallFits
<1> HIDE DEF get
<1>5. ASSUME jobs' = [jobs EXCEPT ![p][j] = get]
      PROVE  /\ jobs' \in [Pages -> [Jobs -> Operations]] /\ jobs'[p][j].step = "get"
             /\ \A q \in Pages, k \in Jobs : CallFits(jobs'[q][k])
  <2>1. /\ jobs' \in [Pages -> [Jobs -> Operations]] /\ jobs'[p][j] = get
        /\ \A q \in Pages, k \in Jobs : jobs'[q][k] = get \/ jobs'[q][k] = jobs[q][k]
    BY <1>1, <1>4, <1>5
  <2> QED BY <1>1, <1>4, <2>1
<1>6. CASE DetectSession(p, j)
  <2>1. /\ backed' = [backed EXCEPT ![p] = TRUE] /\ notice' = [notice EXCEPT ![p] = "loading"]
        /\ jobs' = [jobs EXCEPT ![p][j] = get] /\ UNCHANGED <<rows, local, entries, loaded, form, ops>>
    BY <1>6 DEF DetectSession, SetJob, get
  <2>2. backed' \in [Pages -> BOOLEAN] /\ backed'[p] /\ notice' \in [Pages -> Notices]
    BY <1>1, <2>1 DEF Notices
  <2> QED BY <1>1, <1>5, <2>1, <2>2 DEF OperationStep
<1>7. CASE SyncNow(p, j)
  <2>1. /\ backed[p] /\ ops[p] < MaxOps /\ ops' = [ops EXCEPT ![p] = ops[p] + 1]
        /\ jobs' = [jobs EXCEPT ![p][j] = get]
        /\ UNCHANGED <<rows, local, backed, entries, loaded, form, notice>>
    BY <1>1, <1>7 DEF SyncNow, SetJob, get
  <2>2. ops' \in [Pages -> 0..MaxOps]
    <3>1. ops[p] \in 0..MaxOps
      BY <1>1
    <3>2. ops[p] + 1 \in 0..MaxOps
      BY <2>1, <3>1, MaxOpsAssumption
    <3> QED BY <1>1, <2>1, <3>2
  <2> QED BY <1>1, <1>5, <2>1, <2>2 DEF OperationStep
<1>8. CASE Create(p, j)
  <2>1. PICK i \in Ids, e \in BOOLEAN :
          /\ Keep(p, {i}, [here |-> TRUE, enabled |-> e, body |-> p])
          /\ Send(p, j, "create", {i}, "seed", e) /\ UNCHANGED form
    BY <1>8 DEF Create
  <2>2. [here |-> TRUE, enabled |-> e, body |-> p] \in Item
    BY CatBases DEF Item
  <2>3. local' \in [Pages -> [Ids -> Item]] /\ \A q \in Pages \ {p} : local'[q] = local[q]
    BY <2>1, <2>2, KeepStep
  <2>4. "create" \in Kinds \ {"load", "import"} /\ {i} \in SUBSET Ids /\ form' \in [Pages -> Forms]
    BY <1>1, <1>2, <2>1
  <2> QED BY <2>1, <2>3, <2>4, CatBases, SendStep
<1>9. CASE SaveEdit(p, j)
  <2>1. PICK e \in BOOLEAN :
          /\ Keep(p, {form[p].id} \cap LocalIds(p), [here |-> TRUE, enabled |-> e, body |-> p])
          /\ Send(p, j, "update", {form[p].id}, form[p].body, e)
    BY <1>9 DEF SaveEdit
  <2>2. form[p].id \in Ids /\ form[p].body \in Bodies /\ form' \in [Pages -> Forms]
    BY <1>1, <1>9 DEF SaveEdit, Forms
  <2>3. [here |-> TRUE, enabled |-> e, body |-> p] \in Item
    BY CatBases DEF Item
  <2>4. local' \in [Pages -> [Ids -> Item]] /\ \A q \in Pages \ {p} : local'[q] = local[q]
    BY <2>1, <2>3, KeepStep
  <2> QED BY <1>2, <2>1, <2>2, <2>4, SendStep
<1>10. CASE Delete(p, j)
  <2>1. PICK i \in Ids : /\ Keep(p, {i}, NoItem) /\ ResetForm(p, {i})
                         /\ Send(p, j, "delete", {i}, "seed", FALSE)
    BY <1>10 DEF Delete
  <2>2. form' \in [Pages -> Forms]
    BY <1>1, <2>1 DEF ResetForm, Forms
  <2>3. local' \in [Pages -> [Ids -> Item]] /\ \A q \in Pages \ {p} : local'[q] = local[q]
    BY <2>1, CatBases, KeepStep
  <2> QED BY <1>2, <2>1, <2>2, <2>3, CatBases, SendStep
<1>11. CASE ToggleEnabled(p, j)
  <2>1. PICK i \in Ids :
          LET e == ~ListedEnabled(p, i)
          IN /\ local' = [local EXCEPT ![p][i].enabled = IF local[p][i].here THEN e ELSE @]
             /\ Send(p, j, "enable", {i}, "seed", e)
             /\ UNCHANGED form
    BY <1>11 DEF ToggleEnabled
  <2> DEFINE e == ~ListedEnabled(p, i)
             v == IF local[p][i].here THEN e ELSE local[p][i].enabled
             item == [local[p][i] EXCEPT !.enabled = v]
  <2>2. e \in BOOLEAN /\ v \in BOOLEAN
    BY <1>3 DEF ListedEnabled
  <2>3. local' = [local EXCEPT ![p][i] = item]
    BY <1>1, <2>1
  <2>4. Send(p, j, "enable", {i}, "seed", e) /\ UNCHANGED form
    BY <2>1
  <2> HIDE DEF e, v
  <2>5. item \in Item
    <3>1. local[p][i] \in Item
      BY <1>1
    <3> QED BY <2>2, <3>1 DEF Item
  <2> HIDE DEF item
  <2>6. local' \in [Pages -> [Ids -> Item]] /\ \A q \in Pages \ {p} : local'[q] = local[q]
    BY <1>1, <2>3, <2>5
  <2>7. "enable" \in Kinds \ {"load", "import"} /\ {i} \in SUBSET Ids /\ form' \in [Pages -> Forms]
    BY <1>1, <1>2, <2>4
  <2> QED BY <2>2, <2>4, <2>6, <2>7, CatBases, SendStep
<1>12. CASE TogglePublished(p, j)
  <2>1. PICK i \in Ids : /\ Send(p, j, "publish", {i}, "seed", ~ListedPublished(p, i))
                         /\ UNCHANGED <<local, form>>
    BY <1>12 DEF TogglePublished
  <2>2. (~ListedPublished(p, i)) \in BOOLEAN
    BY DEF ListedPublished
  <2>3. /\ "publish" \in Kinds \ {"load", "import"} /\ {i} \in SUBSET Ids
        /\ form' \in [Pages -> Forms] /\ local' \in [Pages -> [Ids -> Item]]
        /\ \A q \in Pages \ {p} : local'[q] = local[q]
    BY <1>1, <1>2, <2>1
  <2> QED BY <2>1, <2>2, <2>3, CatBases, SendStep
<1>13. CASE Duplicate(p, j)
  <2>1. PICK i \in Ids, copy \in Ids :
          /\ Keep(p, {copy}, [here |-> TRUE, enabled |-> TRUE, body |-> local[p][i].body])
          /\ form' = [form EXCEPT ![p] = [id |-> copy, body |-> local[p][i].body]]
          /\ Send(p, j, "duplicate", {copy}, local[p][i].body, TRUE)
    BY <1>13 DEF Duplicate
  <2>2. local[p][i].body \in Bodies
    BY <1>3
  <2>3. [here |-> TRUE, enabled |-> TRUE, body |-> local[p][i].body] \in Item
    BY <2>2 DEF Item
  <2>4. local' \in [Pages -> [Ids -> Item]] /\ \A q \in Pages \ {p} : local'[q] = local[q]
    BY <2>1, <2>3, KeepStep
  <2>5. form' \in [Pages -> Forms]
    BY <1>1, <2>1, <2>2 DEF Forms
  <2> QED BY <1>2, <2>1, <2>2, <2>4, <2>5, SendStep
<1>14. CASE ImportFile(p, j)
  <2>1. PICK ids \in SUBSET Ids :
          /\ Keep(p, ids \ LocalIds(p), [here |-> TRUE, enabled |-> TRUE, body |-> p])
          /\ Import(p, j, ids, [i \in Ids |-> p]) /\ UNCHANGED form
    BY <1>14 DEF ImportFile
  <2>2. [here |-> TRUE, enabled |-> TRUE, body |-> p] \in Item /\ [i \in Ids |-> p] \in [Ids -> Bodies]
    BY CatBases DEF Item
  <2>3. local' \in [Pages -> [Ids -> Item]] /\ \A q \in Pages \ {p} : local'[q] = local[q]
    BY <2>1, <2>2, KeepStep
  <2> QED BY <2>1, <2>2, <2>3, ImportStep
<1>15. CASE MigrateLocal(p, j)
  <2>1. Import(p, j, LocalIds(p), [i \in Ids |-> local[p][i].body]) /\ UNCHANGED <<local, form>>
    BY <1>15 DEF MigrateLocal
  <2>2. LocalIds(p) \in SUBSET Ids /\ [i \in Ids |-> local[p][i].body] \in [Ids -> Bodies]
    BY <1>3 DEF LocalIds
  <2> QED BY <1>1, <2>1, <2>2, ImportStep
<1> QED BY <1>6, <1>7, <1>8, <1>9, <1>10, <1>11, <1>12, <1>13, <1>14, <1>15 DEF Operate

-------------------------------------------------------------------------------
LEMMA AfterFits ==
  ASSUME NEW p \in Pages, NEW job \in Operations, job.kind \notin {"load", "import"},
         NEW row \in Row
  PROVE  /\ After(p, job, row) \in Row
         /\ IsPublic(After(p, job, row)) =>
              After(p, job, row).body = row.body /\ job.kind \in {"publish", "enable"}
<1>1. p \in Bodies /\ job.from \in Bodies /\ job.flag \in BOOLEAN /\ job.kind \in Kinds
  BY CatBases DEF Operations
<1>2. CASE job.kind = "create"
  <2>1. After(p, job, row)
          = [state |-> "live", enabled |-> job.flag, published |-> FALSE, body |-> p]
    BY <1>2 DEF After
  <2> QED BY <1>1, <2>1 DEF Row, IsPublic
<1>3. CASE job.kind = "duplicate"
  <2>1. After(p, job, row)
          = [state |-> "live", enabled |-> TRUE, published |-> FALSE, body |-> job.from]
    BY <1>3 DEF After
  <2> QED BY <1>1, <2>1 DEF Row, IsPublic
<1>4. CASE job.kind = "update"
  <2>1. After(p, job, row) = [row EXCEPT !.enabled = job.flag, !.published = FALSE, !.body = p]
    BY <1>4 DEF After
  <2> QED BY <1>1, <2>1 DEF Row, IsPublic
<1>5. CASE job.kind = "delete"
  <2>1. After(p, job, row)
          = [row EXCEPT !.state = "deleted", !.enabled = FALSE, !.published = FALSE]
    BY <1>5 DEF After
  <2> QED BY <1>1, <2>1 DEF Row, IsPublic
<1>6. CASE job.kind = "enable"
  <2>1. After(p, job, row) = [row EXCEPT !.enabled = job.flag]
    BY <1>6 DEF After
  <2> QED BY <1>1, <1>6, <2>1 DEF Row, IsPublic
<1>7. CASE job.kind = "publish"
  <2>1. After(p, job, row) = [row EXCEPT !.published = job.flag]
    BY <1>7 DEF After
  <2> QED BY <1>1, <1>7, <2>1 DEF Row, IsPublic
<1> QED BY <1>1, <1>2, <1>3, <1>4, <1>5, <1>6, <1>7 DEF Kinds

\* What the server does with a call: a text that becomes public by it was
\* stored before, and the call publishes or enables it.
LEMMA HandleStep ==
  ASSUME CatInv, NEW p \in Pages, NEW j \in Jobs, Handle(p, j)
  PROVE  /\ rows' \in [Ids -> Row] /\ jobs' \in [Pages -> [Jobs -> Operations]]
         /\ \A q \in Pages, k \in Jobs : CallFits(jobs'[q][k])
         /\ jobs[p][j].step = "call" /\ jobs'[p][j].step = "answer"
         /\ UNCHANGED <<local, backed, entries, loaded, form, notice, ops>>
         /\ \A i \in Ids : IsPublic(rows'[i]) =>
              \/ rows'[i] = rows[i]
              \/ /\ rows'[i].body = rows[i].body /\ i \in jobs[p][j].ids
                 /\ jobs[p][j].kind \in {"publish", "enable"}
<1> DEFINE job == jobs[p][j]
           ok == job.kind = "import" \/ \A i \in job.ids : Accepts(job, i)
           written == {i \in job.ids : ok /\ (job.kind = "import" => rows[i].state = "none")}
           next == [job EXCEPT !.step = "answer", !.flag = ok, !.rows = [i \in Ids |-> NoRow]]
<1>1. /\ rows \in [Ids -> Row] /\ jobs \in [Pages -> [Jobs -> Operations]]
      /\ \A q \in Pages, k \in Jobs : CallFits(jobs[q][k])
  BY CatTyped DEF CatInv
<1>2. job \in Operations /\ job.rows \in [Ids -> Row] /\ CallFits(job)
  BY <1>1 DEF Operations
<1>3. /\ job.step = "call" /\ jobs' = [jobs EXCEPT ![p][j] = next]
      /\ rows' = [i \in Ids |-> IF i \notin written THEN rows[i]
                                ELSE IF job.kind = "import" THEN job.rows[i]
                                ELSE After(p, job, rows[i])]
      /\ UNCHANGED <<local, backed, entries, loaded, form, notice, ops>>
  BY DEF Handle, SetJob
<1>4. ok \in BOOLEAN
  BY DEF Accepts
<1> HIDE DEF ok
<1>5. next \in Operations /\ next.step = "answer"
  BY <1>2, <1>4, CatBases DEF Operations, Steps
<1> HIDE DEF next
<1>6. CallFits(next)
  BY <1>5 DEF CallFits
<1>7. /\ jobs' \in [Pages -> [Jobs -> Operations]] /\ jobs'[p][j] = next
      /\ \A q \in Pages, k \in Jobs : jobs'[q][k] = next \/ jobs'[q][k] = jobs[q][k]
  BY <1>1, <1>3, <1>5
<1> HIDE DEF job
<1>8. job.kind # "load" /\ (job.kind = "import" => \A i \in Ids : IsDraft(job.rows[i]))
  BY <1>2, <1>3 DEF CallFits
<1>9. ASSUME NEW i \in Ids
      PROVE  /\ rows'[i] \in Row
             /\ IsPublic(rows'[i]) =>
                  \/ rows'[i] = rows[i]
                  \/ rows'[i].body = rows[i].body /\ i \in job.ids /\ job.kind \in {"publish", "enable"}
  <2>1. \/ rows'[i] = rows[i]
        \/ i \in job.ids /\ job.kind # "import" /\ rows'[i] = After(p, job, rows[i])
        \/ job.kind = "import" /\ rows'[i] = job.rows[i]
    BY <1>3
  <2>2. CASE rows'[i] = rows[i]
    BY <1>1, <2>2
  <2>3. CASE i \in job.ids /\ job.kind # "import" /\ rows'[i] = After(p, job, rows[i])
    <3>1. rows[i] \in Row
      BY <1>1
    <3> QED BY <1>2, <1>8, <2>3, <3>1, AfterFits
  <2>4. CASE job.kind = "import" /\ rows'[i] = job.rows[i]
    BY <1>2, <1>8, <2>4 DEF IsDraft, IsPublic
  <2> QED BY <2>1, <2>2, <2>3, <2>4
<1>10. rows' \in [Ids -> Row]
  BY <1>3, <1>9
<1> QED BY <1>1, <1>3, <1>5, <1>6, <1>7, <1>9, <1>10 DEF job

\* What the other steps of a call change: nothing of the table, and the record
\* only by a list that has arrived.
DeliveryStep(p, j) ==
  /\ jobs' \in [Pages -> [Jobs -> Operations]] /\ notice' \in [Pages -> Notices]
  /\ \A q \in Pages, k \in Jobs : CallFits(jobs'[q][k])
  /\ \A q \in Pages, k \in Jobs : q # p \/ k # j => jobs'[q][k] = jobs[q][k]
  /\ \A q \in Pages \ {p} : notice'[q] = notice[q]
  /\ jobs[p][j].step # "idle"
  /\ UNCHANGED <<rows, backed, form, ops>>
  /\ \/ /\ UNCHANGED <<local, entries, loaded>>
        /\ \/ jobs'[p][j].step = "get" /\ notice' = notice
           \/ jobs'[p][j].step = "list" /\ jobs'[p][j].rows = AdminList /\ notice' = notice
           \/ jobs'[p][j].step = "idle" /\ notice'[p] \in {"error", "migrated"}
     \/ /\ jobs[p][j].step = "list" /\ jobs'[p][j].step = "idle"
        /\ local' = [local EXCEPT ![p] = Mirror(jobs[p][j].rows)]
        /\ entries' = [entries EXCEPT ![p] = jobs[p][j].rows]
        /\ loaded' = [loaded EXCEPT ![p] = TRUE]

LEMMA DeliveriesStep ==
  ASSUME CatInv, NEW p \in Pages, NEW j \in Jobs,
         ReceiveAnswer(p, j) \/ HandleGet(p, j) \/ ReceiveList(p, j) \/ Lose(p, j)
  PROVE  DeliveryStep(p, j)
<1> DEFINE job == jobs[p][j]
<1>1. /\ rows \in [Ids -> Row] /\ jobs \in [Pages -> [Jobs -> Operations]]
      /\ notice \in [Pages -> Notices]
      /\ \A q \in Pages, k \in Jobs : CallFits(jobs[q][k])
  BY CatTyped DEF CatInv
<1>2. job \in Operations /\ job.step \in Steps
  BY <1>1 DEF Operations
<1>3. AdminList \in [Ids -> Row]
  <2>1. \A i \in Ids : AdminList[i] \in Row
    BY <1>1, CatBases DEF AdminList
  <2> QED BY <2>1 DEF AdminList
<1>4. ASSUME NEW new \in Operations, CallFits(new), jobs' = [jobs EXCEPT ![p][j] = new]
      PROVE  /\ jobs' \in [Pages -> [Jobs -> Operations]] /\ jobs'[p][j] = new
             /\ \A q \in Pages, k \in Jobs : CallFits(jobs'[q][k])
             /\ \A q \in Pages, k \in Jobs : q # p \/ k # j => jobs'[q][k] = jobs[q][k]
  <2>1. /\ jobs' \in [Pages -> [Jobs -> Operations]] /\ jobs'[p][j] = new
        /\ \A q \in Pages, k \in Jobs : q # p \/ k # j => jobs'[q][k] = jobs[q][k]
    BY <1>1, <1>4
  <2>2. ASSUME NEW q \in Pages, NEW k \in Jobs PROVE CallFits(jobs'[q][k])
    <3>1. CASE q = p /\ k = j
      BY <1>4, <2>1, <3>1
    <3>2. CASE q # p \/ k # j
      BY <1>1, <2>1, <3>2
    <3> QED BY <3>1, <3>2
  <2> QED BY <2>1, <2>2
<1>5. ASSUME NEW x \in Notices, notice' = [notice EXCEPT ![p] = x]
      PROVE  notice' \in [Pages -> Notices] /\ notice'[p] = x
             /\ \A q \in Pages \ {p} : notice'[q] = notice[q]
  BY <1>1, <1>5
<1>6. \A k, x : x \in {"error", "loaded"} => Report(k, x) \in {"migrated", x}
  BY DEF Report
<1>7. {"error", "migrated", "loaded"} \subseteq Notices
  BY DEF Notices
<1>8. CASE ReceiveAnswer(p, j)
  <2>1. job.step = "answer" /\ UNCHANGED <<rows, local, backed, entries, loaded, form, ops>>
    BY <1>8 DEF ReceiveAnswer
  <2>2. CASE job.flag
    <3> DEFINE new == [job EXCEPT !.step = "get"]
    <3>1. jobs' = [jobs EXCEPT ![p][j] = new] /\ notice' = notice
      BY <1>8, <2>2 DEF ReceiveAnswer, SetJob
    <3>2. new \in Operations /\ new.step = "get" /\ CallFits(new)
      BY <1>2 DEF Operations, Steps, CallFits
    <3> HIDE DEF new
    <3>3. /\ jobs' \in [Pages -> [Jobs -> Operations]] /\ jobs'[p][j] = new
          /\ \A q \in Pages, k \in Jobs : CallFits(jobs'[q][k])
          /\ \A q \in Pages, k \in Jobs : q # p \/ k # j => jobs'[q][k] = jobs[q][k]
      BY <1>4, <3>1, <3>2
    <3> QED BY <1>1, <2>1, <3>1, <3>2, <3>3 DEF DeliveryStep
  <2>3. CASE ~job.flag
    <3>1. jobs' = [jobs EXCEPT ![p][j] = NoJob] /\ notice' = [notice EXCEPT ![p] = "error"]
      BY <1>8, <2>3 DEF ReceiveAnswer, SetJob
    <3>2. /\ jobs' \in [Pages -> [Jobs -> Operations]] /\ jobs'[p][j] = NoJob
          /\ \A q \in Pages, k \in Jobs : CallFits(jobs'[q][k])
          /\ \A q \in Pages, k \in Jobs : q # p \/ k # j => jobs'[q][k] = jobs[q][k]
      BY <1>4, <3>1, CatBases
    <3>3. notice' \in [Pages -> Notices] /\ notice'[p] = "error"
          /\ \A q \in Pages \ {p} : notice'[q] = notice[q]
      BY <1>5, <1>7, <3>1
    <3> QED BY <2>1, <3>2, <3>3, CatBases DEF DeliveryStep
  <2> QED BY <2>2, <2>3
<1>9. CASE HandleGet(p, j)
  <2> DEFINE new == [job EXCEPT !.step = "list", !.rows = AdminList]
  <2>1. /\ job.step = "get" /\ jobs' = [jobs EXCEPT ![p][j] = new]
        /\ UNCHANGED <<rows, local, backed, entries, loaded, form, notice, ops>>
    BY <1>9 DEF HandleGet, SetJob
  <2>2. new \in Operations /\ new.step = "list" /\ new.rows = AdminList /\ CallFits(new)
    <3> HIDE DEF job
    <3> QED BY <1>2, <1>3 DEF Operations, Steps, CallFits
  <2> HIDE DEF new
  <2>3. /\ jobs' \in [Pages -> [Jobs -> Operations]] /\ jobs'[p][j] = new
        /\ \A q \in Pages, k \in Jobs : CallFits(jobs'[q][k])
        /\ \A q \in Pages, k \in Jobs : q # p \/ k # j => jobs'[q][k] = jobs[q][k]
    BY <1>4, <2>1, <2>2
  <2> QED BY <1>1, <2>1, <2>2, <2>3 DEF DeliveryStep
<1>10. CASE ReceiveList(p, j)
  <2> DEFINE x == Report(job.kind, "loaded")
  <2>1. /\ job.step = "list" /\ jobs' = [jobs EXCEPT ![p][j] = NoJob]
        /\ notice' = [notice EXCEPT ![p] = x]
        /\ local' = [local EXCEPT ![p] = Mirror(job.rows)]
        /\ entries' = [entries EXCEPT ![p] = job.rows] /\ loaded' = [loaded EXCEPT ![p] = TRUE]
        /\ UNCHANGED <<rows, backed, form, ops>>
    BY <1>10 DEF ReceiveList, SetJob
  <2>2. x \in Notices
    BY <1>6, <1>7
  <2> HIDE DEF x
  <2>3. /\ jobs' \in [Pages -> [Jobs -> Operations]] /\ jobs'[p][j] = NoJob
        /\ \A q \in Pages, k \in Jobs : CallFits(jobs'[q][k])
        /\ \A q \in Pages, k \in Jobs : q # p \/ k # j => jobs'[q][k] = jobs[q][k]
    BY <1>4, <2>1, CatBases
  <2>4. notice' \in [Pages -> Notices] /\ \A q \in Pages \ {p} : notice'[q] = notice[q]
    BY <1>5, <2>1, <2>2
  <2> QED BY <2>1, <2>3, <2>4, CatBases DEF DeliveryStep
<1>11. CASE Lose(p, j)
  <2> DEFINE x == IF job.step \in {"get", "list"} THEN Report(job.kind, "error") ELSE "error"
  <2>1. /\ job.step # "idle" /\ jobs' = [jobs EXCEPT ![p][j] = NoJob]
        /\ notice' = [notice EXCEPT ![p] = x]
        /\ UNCHANGED <<rows, local, backed, entries, loaded, form, ops>>
    BY <1>11 DEF Lose, SetJob
  <2>2. x \in {"error", "migrated"}
    BY <1>6
  <2> HIDE DEF x
  <2>3. /\ jobs' \in [Pages -> [Jobs -> Operations]] /\ jobs'[p][j] = NoJob
        /\ \A q \in Pages, k \in Jobs : CallFits(jobs'[q][k])
        /\ \A q \in Pages, k \in Jobs : q # p \/ k # j => jobs'[q][k] = jobs[q][k]
    BY <1>4, <2>1, CatBases
  <2>4. notice' \in [Pages -> Notices] /\ notice'[p] = x
        /\ \A q \in Pages \ {p} : notice'[q] = notice[q]
    BY <1>5, <1>7, <2>1, <2>2
  <2> QED BY <2>1, <2>2, <2>3, <2>4, CatBases DEF DeliveryStep
<1> QED BY <1>8, <1>9, <1>10, <1>11

LEMMA MirrorType == ASSUME NEW list \in [Ids -> Row] PROVE Mirror(list) \in [Ids -> Item]
<1>1. \A i \in Ids : Mirror(list)[i] \in Item
  BY CatBases DEF Mirror, Item, Row
<1> QED BY <1>1 DEF Mirror

\* What a page does by itself.
LEMMA StartEditStep ==
  ASSUME CatInv, NEW p \in Pages, StartEdit(p)
  PROVE  /\ form' \in [Pages -> Forms]
         /\ UNCHANGED <<rows, local, backed, entries, loaded, jobs, notice, ops>>
<1>1. /\ local \in [Pages -> [Ids -> Item]] /\ entries \in [Pages -> [Ids -> Row]]
      /\ form \in [Pages -> Forms]
  BY CatTyped DEF CatInv
<1>2. PICK i \in Ids : form' = [form EXCEPT ![p] = [id |-> i, body |-> ListedBody(p, i)]]
  BY DEF StartEdit
<1>3. local[p][i].body \in Bodies /\ entries[p][i].body \in Bodies
  BY <1>1 DEF Item, Row
<1>4. ListedBody(p, i) \in Bodies
  BY <1>3 DEF ListedBody
<1>5. form' \in [Pages -> Forms]
  BY <1>1, <1>2, <1>4 DEF Forms
<1> QED BY <1>5 DEF StartEdit

LEMMA DeleteLocalStep ==
  ASSUME CatInv, NEW p \in Pages, DeleteLocal(p)
  PROVE  /\ local' \in [Pages -> [Ids -> Item]] /\ \A q \in Pages \ {p} : local'[q] = local[q]
         /\ \A i \in Ids : local'[p][i] = local[p][i] \/ local'[p][i] = NoItem
         /\ form' \in [Pages -> Forms] /\ ops' \in [Pages -> 0..MaxOps] /\ ops'[p] # ops[p]
         /\ UNCHANGED <<rows, backed, entries, loaded, jobs, notice>>
<1>1. /\ local \in [Pages -> [Ids -> Item]] /\ form \in [Pages -> Forms]
      /\ ops \in [Pages -> 0..MaxOps]
  BY CatTyped DEF CatInv
<1>2. PICK ids \in SUBSET Ids : Keep(p, ids, NoItem) /\ ResetForm(p, ids)
  BY DEF DeleteLocal
<1>3. ops[p] < MaxOps /\ ops' = [ops EXCEPT ![p] = ops[p] + 1]
  BY <1>1 DEF DeleteLocal
<1>4. ops[p] \in 0..MaxOps
  BY <1>1
<1>5. ops[p] + 1 \in 0..MaxOps /\ ops[p] + 1 # ops[p]
  BY <1>3, <1>4, MaxOpsAssumption
<1>6. ops' \in [Pages -> 0..MaxOps] /\ ops'[p] # ops[p]
  BY <1>1, <1>3, <1>5
<1>7. form' \in [Pages -> Forms]
  BY <1>1, <1>2 DEF ResetForm, Forms
<1>8. local' \in [Pages -> [Ids -> Item]] /\ \A q \in Pages \ {p} : local'[q] = local[q]
  BY <1>2, CatBases, KeepStep
<1>9. \A i \in Ids : local'[p][i] = local[p][i] \/ local'[p][i] = NoItem
  BY <1>1, <1>2 DEF Keep
<1> QED BY <1>6, <1>7, <1>8, <1>9 DEF DeleteLocal

LEMMA ReloadStep ==
  ASSUME CatInv, NEW p \in Pages, Reload(p)
  PROVE  /\ PageTypeOK' /\ \A q \in Pages, k \in Jobs : CallFits(jobs'[q][k])
         /\ notice'[p] = "none" /\ \A k \in Jobs : jobs'[p][k].step = "idle"
         /\ UNCHANGED <<rows, local>>
<1>1. /\ rows \in [Ids -> Row] /\ local \in [Pages -> [Ids -> Item]]
      /\ backed \in [Pages -> BOOLEAN] /\ loaded \in [Pages -> BOOLEAN]
      /\ entries \in [Pages -> [Ids -> Row]] /\ form \in [Pages -> Forms]
      /\ jobs \in [Pages -> [Jobs -> Operations]] /\ notice \in [Pages -> Notices]
      /\ ops \in [Pages -> 0..MaxOps] /\ \A q \in Pages, k \in Jobs : CallFits(jobs[q][k])
  BY CatTyped DEF CatInv
<1>2. ops[p] < MaxOps /\ ops' = [ops EXCEPT ![p] = ops[p] + 1] /\ ops[p] \in 0..MaxOps
  BY <1>1 DEF Reload
<1>3. ops[p] + 1 \in 0..MaxOps
  BY <1>2, MaxOpsAssumption
<1>4. ops' \in [Pages -> 0..MaxOps]
  BY <1>1, <1>2, <1>3
<1> DEFINE none == [k \in Jobs |-> NoJob]
<1>5. jobs' = [jobs EXCEPT ![p] = none] /\ none \in [Jobs -> Operations]
      /\ \A k \in Jobs : none[k] = NoJob
  BY CatBases DEF Reload
<1> HIDE DEF none
<1>6. /\ jobs' \in [Pages -> [Jobs -> Operations]] /\ jobs'[p] = none
      /\ \A q \in Pages \ {p} : jobs'[q] = jobs[q]
  BY <1>1, <1>5
<1>7. \A q \in Pages, k \in Jobs : CallFits(jobs'[q][k])
  BY <1>1, <1>5, <1>6, CatBases
<1>8. /\ backed' \in [Pages -> BOOLEAN] /\ loaded' \in [Pages -> BOOLEAN]
      /\ entries' \in [Pages -> [Ids -> Row]] /\ form' \in [Pages -> Forms]
      /\ notice' \in [Pages -> Notices] /\ notice'[p] = "none" /\ UNCHANGED <<rows, local>>
  BY <1>1, CatBases DEF Reload, Forms, Notices
<1>9. PageTypeOK'
  BY <1>1, <1>4, <1>6, <1>8 DEF PageTypeOK, Forms, Operations, Steps, Notices
<1> QED BY <1>5, <1>6, <1>7, <1>8, <1>9, CatBases

\* Every step is one of these.
LEMMA CatSteps ==
  ASSUME CatInv, PageNext
  PROVE  \E p \in Pages : \/ StartEdit(p) \/ DeleteLocal(p) \/ Reload(p)
                          \/ \E j \in Jobs : OperationStep(p, j) \/ Handle(p, j) \/ DeliveryStep(p, j)
BY OperationsStep, DeliveriesStep DEF PageNext, Network

LEMMA CatInvStep == CatInv /\ [PageNext]_pageVars => CatInv'
<1> SUFFICES ASSUME CatInv, [PageNext]_pageVars PROVE CatInv'
  OBVIOUS
<1>1. /\ rows \in [Ids -> Row] /\ local \in [Pages -> [Ids -> Item]]
      /\ backed \in [Pages -> BOOLEAN] /\ loaded \in [Pages -> BOOLEAN]
      /\ entries \in [Pages -> [Ids -> Row]] /\ form \in [Pages -> Forms]
      /\ jobs \in [Pages -> [Jobs -> Operations]] /\ notice \in [Pages -> Notices]
      /\ ops \in [Pages -> 0..MaxOps] /\ \A q \in Pages, k \in Jobs : CallFits(jobs[q][k])
  BY CatTyped DEF CatInv
<1>2. ASSUME rows' \in [Ids -> Row], local' \in [Pages -> [Ids -> Item]],
             backed' \in [Pages -> BOOLEAN], loaded' \in [Pages -> BOOLEAN],
             entries' \in [Pages -> [Ids -> Row]], form' \in [Pages -> Forms],
             jobs' \in [Pages -> [Jobs -> Operations]], notice' \in [Pages -> Notices],
             ops' \in [Pages -> 0..MaxOps], \A q \in Pages, k \in Jobs : CallFits(jobs'[q][k])
      PROVE  CatInv'
  <2>1. PageTypeOK'
    BY <1>2 DEF PageTypeOK, Forms, Operations, Steps, Notices
  <2> QED BY <1>2, <2>1 DEF CatInv, CallFits, IsDraft
<1>3. CASE \E p \in Pages : StartEdit(p)
  BY <1>1, <1>2, <1>3, StartEditStep
<1>4. CASE \E p \in Pages : DeleteLocal(p)
  BY <1>1, <1>2, <1>4, DeleteLocalStep
<1>5. CASE \E p \in Pages : Reload(p)
  BY <1>5, ReloadStep DEF CatInv, CallFits, IsDraft
<1>6. CASE \E p \in Pages, j \in Jobs : OperationStep(p, j)
  BY <1>1, <1>2, <1>6 DEF OperationStep
<1>7. CASE \E p \in Pages, j \in Jobs : Handle(p, j)
  BY <1>1, <1>2, <1>7, HandleStep
<1>8. CASE \E p \in Pages, j \in Jobs : DeliveryStep(p, j)
  <2>1. PICK p \in Pages, j \in Jobs : DeliveryStep(p, j)
    BY <1>8
  <2>2. jobs[p][j] \in Operations
    BY <1>1
  <2>3. jobs[p][j].rows \in [Ids -> Row]
    BY <2>2 DEF Operations
  <2>4. /\ local' \in [Pages -> [Ids -> Item]] /\ entries' \in [Pages -> [Ids -> Row]]
        /\ loaded' \in [Pages -> BOOLEAN]
    <3>1. CASE UNCHANGED <<local, entries, loaded>>
      BY <1>1, <3>1
    <3>2. CASE /\ local' = [local EXCEPT ![p] = Mirror(jobs[p][j].rows)]
               /\ entries' = [entries EXCEPT ![p] = jobs[p][j].rows]
               /\ loaded' = [loaded EXCEPT ![p] = TRUE]
      <4>1. Mirror(jobs[p][j].rows) \in [Ids -> Item]
        BY <2>3, MirrorType
      <4> QED BY <1>1, <2>3, <3>2, <4>1
    <3> QED BY <2>1, <3>1, <3>2 DEF DeliveryStep
  <2> QED BY <1>1, <1>2, <2>1, <2>4 DEF DeliveryStep
<1>9. CASE UNCHANGED pageVars
  BY <1>9 DEF pageVars, CatInv, PageTypeOK, CallFits, IsDraft
<1> QED BY <1>3, <1>4, <1>5, <1>6, <1>7, <1>8, <1>9, CatSteps

\* For any pages, ids, and operations that overlap as they like.
THEOREM CatalogInvariant == PageSpec => []CatInv
<1> QED BY InitCatInv, CatInvStep, PTL DEF PageSpec

-------------------------------------------------------------------------------
\* What a step makes public in a browser was public in the list it applied.
LEMMA LoadsOffer ==
  ASSUME CatInv, [PageNext]_pageVars, NEW q \in Pages, NEW i \in Ids,
         i \in Offered(q)' \ Offered(q), ops'[q] = ops[q]
  PROVE  IsPublic(entries'[q][i]) /\ \E j \in Jobs : jobs[q][j].step = "list"
<1>1. local'[q] # local[q]
  BY DEF Offered
<1>2. local \in [Pages -> [Ids -> Item]] /\ entries \in [Pages -> [Ids -> Row]]
  BY CatTyped DEF CatInv
<1>3. ~UNCHANGED pageVars
  BY <1>1 DEF pageVars
<1>4. PICK p \in Pages : \/ StartEdit(p) \/ DeleteLocal(p) \/ Reload(p)
                         \/ \E j \in Jobs : OperationStep(p, j) \/ Handle(p, j) \/ DeliveryStep(p, j)
  BY <1>3, CatSteps
<1>5. ~StartEdit(p) /\ ~DeleteLocal(p) /\ ~Reload(p)
  BY <1>1, StartEditStep, DeleteLocalStep, ReloadStep
<1>6. \A j \in Jobs : ~OperationStep(p, j) /\ ~Handle(p, j)
  BY <1>1, HandleStep DEF OperationStep
<1>7. PICK j \in Jobs : DeliveryStep(p, j)
  BY <1>4, <1>5, <1>6
<1>8. /\ jobs[p][j].step = "list" /\ local' = [local EXCEPT ![p] = Mirror(jobs[p][j].rows)]
      /\ entries' = [entries EXCEPT ![p] = jobs[p][j].rows]
  BY <1>1, <1>7 DEF DeliveryStep
<1>9. q = p
  BY <1>1, <1>2, <1>8
<1>10. local'[q] = Mirror(jobs[q][j].rows) /\ entries'[q] = jobs[q][j].rows
  BY <1>2, <1>8, <1>9
<1>11. Mirror(jobs[q][j].rows)[i].here
  BY <1>10 DEF Offered
<1>12. IsPublic(jobs[q][j].rows[i])
  BY <1>11 DEF Mirror, NoItem
<1> QED BY <1>8, <1>9, <1>10, <1>12

\* A text becomes public on the server by a call that says so.
LEMMA TextsArePublished ==
  ASSUME CatInv, [PageNext]_pageVars, NEW i \in Ids, IsPublic(rows'[i]),
         ~(IsPublic(rows[i]) /\ rows'[i].body = rows[i].body)
  PROVE  /\ rows'[i].body = rows[i].body
         /\ \E p \in Pages, j \in Jobs : /\ jobs[p][j].kind \in {"publish", "enable"}
                                         /\ i \in jobs[p][j].ids /\ jobs[p][j].step = "call"
<1>1. rows'[i] # rows[i] /\ ~UNCHANGED pageVars
  BY DEF pageVars
<1>2. PICK p \in Pages : \/ StartEdit(p) \/ DeleteLocal(p) \/ Reload(p)
                         \/ \E j \in Jobs : OperationStep(p, j) \/ Handle(p, j) \/ DeliveryStep(p, j)
  BY <1>1, CatSteps
<1>3. ~StartEdit(p) /\ ~DeleteLocal(p) /\ ~Reload(p)
  BY <1>1, StartEditStep, DeleteLocalStep, ReloadStep
<1>4. \A j \in Jobs : ~OperationStep(p, j) /\ ~DeliveryStep(p, j)
  BY <1>1 DEF OperationStep, DeliveryStep
<1>5. PICK j \in Jobs : Handle(p, j)
  BY <1>2, <1>3, <1>4
<1> QED BY <1>1, <1>5, HandleStep

\* For any administrators whose operations overlap and get lost: loads offer
\* learners nothing the server did not publish, and nothing becomes public on
\* the server but by a publish or an enable of a text that was already stored.
THEOREM DeliberatePublishing == PageSpec => PublishingIsDeliberate
<1>1. CatInv /\ [PageNext]_pageVars =>
        [\A p \in Pages, i \in Ids :
            i \in Offered(p)' \ Offered(p) /\ ops'[p] = ops[p] =>
              /\ IsPublic(entries'[p][i])
              /\ \E j \in Jobs : jobs[p][j].step = "list"]_pageVars
  <2> SUFFICES ASSUME CatInv, [PageNext]_pageVars, NEW p \in Pages, NEW i \in Offered(p)' \ Offered(p),
                      ops'[p] = ops[p]
               PROVE  /\ IsPublic(entries'[p][i])
                      /\ \E j \in Jobs : jobs[p][j].step = "list"
    OBVIOUS
  <2>1. i \in Ids
    BY DEF Offered
  <2> QED BY <2>1, LoadsOffer
<1>2. CatInv /\ [PageNext]_pageVars =>
        [\A i \in Ids :
            IsPublic(rows'[i]) /\ ~(IsPublic(rows[i]) /\ rows'[i].body = rows[i].body) =>
              /\ rows'[i].body = rows[i].body
              /\ \E p \in Pages, j \in Jobs : jobs[p][j].kind \in {"publish", "enable"}
                                           /\ i \in jobs[p][j].ids /\ jobs[p][j].step = "call"]_pageVars
  BY TextsArePublished
<1>3. PageSpec => LoadsOfferPublishedOnly
  BY <1>1, CatalogInvariant, PTL DEF PageSpec, LoadsOfferPublishedOnly
<1>4. PageSpec => TextIsPublishedSeparately
  BY <1>2, CatalogInvariant, PTL DEF PageSpec, TextIsPublishedSeparately
<1> QED BY <1>3, <1>4 DEF PublishingIsDeliberate

-------------------------------------------------------------------------------
\* One administrator who does one thing at a time.
Alone == (\A p, q \in Pages : p = q) /\ (\A j, k \in Jobs : j = k)

\* A list on its way is the table as it is, a page that has one under way or
\* has loaded one has a session, and a page at rest shows the table.
Shows(p) ==
  /\ entries[p] = AdminList
  /\ \A i \in LocalIds(p) : IsPublic(rows[i]) /\ local[p][i].body = rows[i].body
Fresh(p) ==
  /\ \A j \in Jobs : jobs[p][j].step = "list" => jobs[p][j].rows = AdminList
  /\ \A j \in Jobs : jobs[p][j].step # "idle" => backed[p]
  /\ notice[p] = "loaded" => backed[p]
  /\ Quiet(p) /\ notice[p] = "loaded" => Shows(p)
FreshInv == \A p \in Pages : Fresh(p)

LEMMA MirrorShows ==
  ASSUME NEW i \in Ids, Mirror(AdminList)[i].here
  PROVE  IsPublic(rows[i]) /\ Mirror(AdminList)[i].body = rows[i].body
<1>1. IsPublic(AdminList[i]) /\ Mirror(AdminList)[i].body = AdminList[i].body
  BY DEF Mirror, NoItem
<1>2. AdminList[i] = rows[i]
  BY <1>1 DEF AdminList, IsPublic, NoRow
<1> QED BY <1>1, <1>2

LEMMA FreshStep ==
  ASSUME Alone
  PROVE  CatInv /\ FreshInv /\ [PageNext]_pageVars => FreshInv'
<1> SUFFICES ASSUME CatInv, FreshInv, [PageNext]_pageVars, NEW q \in Pages PROVE Fresh(q)'
  BY DEF FreshInv
<1>1. /\ local \in [Pages -> [Ids -> Item]] /\ entries \in [Pages -> [Ids -> Row]]
      /\ jobs \in [Pages -> [Jobs -> Operations]] /\ Fresh(q)
  BY CatTyped DEF CatInv, FreshInv
<1>2. \A p \in Pages : p = q
  BY DEF Alone
<1>3. CASE UNCHANGED pageVars
  BY <1>1, <1>3 DEF pageVars, Fresh, Quiet, Shows, LocalIds, AdminList
<1>4. CASE StartEdit(q)
  <2>1. UNCHANGED <<rows, local, backed, entries, loaded, jobs, notice, ops>>
    BY <1>4, StartEditStep
  <2> QED BY <1>1, <2>1 DEF Fresh, Quiet, Shows, LocalIds, AdminList
<1>5. CASE DeleteLocal(q)
  <2>1. /\ UNCHANGED <<rows, backed, entries, loaded, jobs, notice>>
        /\ \A i \in Ids : local'[q][i] = local[q][i] \/ local'[q][i] = NoItem
    BY <1>5, DeleteLocalStep
  <2>2. \A i \in Ids : local'[q][i].here => local'[q][i] = local[q][i]
    BY <2>1 DEF NoItem
  <2>3. AdminList' = AdminList /\ Quiet(q)' = Quiet(q)
    BY <2>1 DEF AdminList, Quiet
  <2>4. Shows(q) => Shows(q)'
    BY <2>1, <2>2, <2>3 DEF Shows, LocalIds, IsPublic
  <2> QED BY <1>1, <2>1, <2>3, <2>4 DEF Fresh
<1>6. CASE Reload(q)
  BY <1>6, ReloadStep DEF Fresh
<1>7. CASE \E j \in Jobs : OperationStep(q, j)
  <2>1. PICK j \in Jobs : OperationStep(q, j)
    BY <1>7
  <2>2. \A k \in Jobs : k = j
    BY DEF Alone
  <2>3. CASE jobs'[q][j].step \in {"call", "get"} /\ backed'[q]
    BY <2>2, <2>3 DEF Fresh, Quiet
  <2>4. CASE ~backed[q] /\ UNCHANGED <<backed, jobs, notice>>
    BY <1>1, <2>4 DEF Fresh, Quiet
  <2> QED BY <2>1, <2>3, <2>4 DEF OperationStep
<1>8. CASE \E j \in Jobs : Handle(q, j)
  <2>1. PICK j \in Jobs : Handle(q, j)
    BY <1>8
  <2>2. \A k \in Jobs : k = j
    BY DEF Alone
  <2>3. jobs[q][j].step = "call" /\ jobs'[q][j].step = "answer" /\ UNCHANGED <<backed, notice>>
    BY <2>1, HandleStep
  <2> QED BY <1>1, <2>2, <2>3 DEF Fresh, Quiet
<1>9. CASE \E j \in Jobs : DeliveryStep(q, j)
  <2>1. PICK j \in Jobs : DeliveryStep(q, j)
    BY <1>9
  <2>2. \A k \in Jobs : k = j
    BY DEF Alone
  <2>3. UNCHANGED <<rows, backed>> /\ backed'[q] /\ AdminList' = AdminList
    BY <1>1, <2>1 DEF DeliveryStep, Fresh, AdminList
  <2>4. CASE \/ jobs'[q][j].step = "get"
             \/ jobs'[q][j].step = "list" /\ jobs'[q][j].rows = AdminList
             \/ jobs'[q][j].step = "idle" /\ notice'[q] \in {"error", "migrated"}
    BY <2>2, <2>3, <2>4 DEF Fresh, Quiet
  <2>5. CASE /\ jobs[q][j].step = "list" /\ jobs'[q][j].step = "idle"
             /\ local' = [local EXCEPT ![q] = Mirror(jobs[q][j].rows)]
             /\ entries' = [entries EXCEPT ![q] = jobs[q][j].rows]
    <3>1. jobs[q][j].rows = AdminList
      BY <1>1, <2>5 DEF Fresh
    <3>2. entries'[q] = AdminList /\ local'[q] = Mirror(AdminList)
      BY <1>1, <2>5, <3>1
    <3>3. \A i \in LocalIds(q)' : IsPublic(rows[i]) /\ local'[q][i].body = rows[i].body
      BY <3>2, MirrorShows DEF LocalIds
    <3>4. Shows(q)'
      BY <2>3, <3>2, <3>3 DEF Shows, IsPublic
    <3> QED BY <2>2, <2>3, <2>5, <3>4 DEF Fresh
  <2> QED BY <2>1, <2>4, <2>5 DEF DeliveryStep
<1>10. PageNext => \/ StartEdit(q) \/ DeleteLocal(q) \/ Reload(q)
                   \/ \E j \in Jobs : OperationStep(q, j) \/ Handle(q, j) \/ DeliveryStep(q, j)
  BY <1>2, CatSteps
<1> QED BY <1>3, <1>4, <1>5, <1>6, <1>7, <1>8, <1>9, <1>10

\* The page of a single administrator who waits for each operation shows what
\* the server holds once it says so, whatever calls and answers were lost.
THEOREM CurrentPages ==
  ASSUME Alone
  PROVE  PageSpec => []PagesAreCurrent
<1>1. PageInit => FreshInv
  BY DEF PageInit, FreshInv, Fresh, NoJob
<1>2. CatInv /\ FreshInv /\ [PageNext]_pageVars => FreshInv'
  BY FreshStep
<1>3. CatInv /\ FreshInv => PagesAreCurrent
  BY DEF CatInv, FreshInv, Fresh, Shows, PagesAreCurrent, SettledPageIsCurrent
<1> QED BY <1>1, <1>2, <1>3, CatalogInvariant, PTL DEF PageSpec
===============================================================================
