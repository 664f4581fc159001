------------------------------- MODULE AdminAuth -------------------------------
(***************************************************************************)
(* Administrator sign-in and sessions (server/oauth.ts, server/session.ts, *)
(* the auth routes and requireAdmin of server/index.ts, and the scheduled  *)
(* purges).  One action per D1 statement or GitHub call of a request;      *)
(* requests interleave, may throw or be cut off after any step, and time   *)
(* passes.  Tokens are unguessable, so a request presents a session its    *)
(* browser was given, or none of these actions concerns it.                *)
(***************************************************************************)
EXTENDS Naturals, FiniteSets

CONSTANTS Users,            \* GitHub accounts
          Txns,             \* OAuth states
          Sessions,         \* session ids
          Requests,         \* request slots, used again when a request has ended
          SessionTTL,       \* SESSION_TTL_SECONDS
          IdleTTL,          \* IDLE_TTL_SECONDS
          SeenThreshold,    \* LAST_SEEN_WRITE_THRESHOLD_SECONDS
          TxnTTL,           \* OAUTH_TXN_TTL_SECONDS
          Nil,              \* no user, state or session
          MaxFlight,        \* bound: how long a request takes (two GitHub calls of 10 s at most)
          MaxTime           \* bound: length of the history

ASSUME TimeAssumption ==
  /\ {SessionTTL, IdleTTL, SeenThreshold, TxnTTL, MaxFlight} \subseteq Nat \ {0}
  /\ MaxFlight <= SeenThreshold /\ SeenThreshold < IdleTTL /\ IdleTTL < SessionTTL
  /\ MaxTime \in Nat
ASSUME NilAssumption == Nil \notin Users \cup Txns \cup Sessions

VARIABLES now,        \* the time
          allowed,    \* ADMIN_GITHUB_IDS
          txns,       \* the oauth_transactions table
          sessions,   \* the admin_sessions table
          held,       \* sessions whose cookie a browser has
          logins,     \* sessions whose login_success is in the audit log
          lastUse,    \* history: when a request last found the session good
          pc,         \* next step of a request
          req         \* what a request carries

vars == <<now, allowed, txns, sessions, held, logins, lastUse, pc, req>>

-----------------------------------------------------------------------------
\* Of a purged row its history is kept: that it was there, and whence it came.
TxnRow == [state : {"none", "open", "consumed", "gone"}, expires : Nat]

NoSession == [state |-> "none", user |-> Nil, txn |-> Nil, expires |-> 0, seen |-> 0]

SessionRow == [state : {"none", "live", "revoked", "gone"}, user : Users \cup {Nil},
               txn : Txns \cup {Nil}, expires : Nat, seen : Nat]

NoRequest == [kind |-> "none", sess |-> Nil, txn |-> Nil, user |-> Nil, since |-> 0, late |-> FALSE]

Callback == {"consume", "diagnose", "readback", "exchange", "create", "auditlogin"}
Pending  == Callback \cup {"lookup", "revoke", "refresh", "admitted", "logout", "auditlogout",
                           "auditfail", "auditreject", "answer"}

TypeOK ==
  /\ now \in Nat
  /\ allowed \subseteq Users
  /\ txns \in [Txns -> TxnRow]
  /\ sessions \in [Sessions -> SessionRow]
  /\ held \subseteq Sessions /\ logins \subseteq Sessions
  /\ lastUse \in [Sessions -> Nat]
  /\ pc \in [Requests -> Pending \cup {"idle"}]
  /\ req \in [Requests -> [kind : {"none", "admin", "logout", "callback"}, sess : Sessions \cup {Nil},
                           txn : Txns \cup {Nil}, user : Users \cup {Nil}, since : Nat,
                           late : BOOLEAN]]   \* late: history, see TooLate

-----------------------------------------------------------------------------
Stored(s) == sessions[s].state \in {"live", "revoked"}

\* What lookupSession finds in a row at this time.
Expired(s) == sessions[s].expires <= now
Idle(s)    == sessions[s].seen + IdleTTL <= now
Usable(s)  == sessions[s].state = "live" /\ ~Expired(s) /\ ~Idle(s)
SeenIsStale(s) == now - sessions[s].seen >= SeenThreshold

\* A request on session s that arrives now must not be let in: the session
\* was revoked or purged, its time or its account's is over, or nobody used it
\* for IdleTTL and no request on it is under way.
TooLate(s) ==
  \/ sessions[s].state # "live"
  \/ Expired(s)
  \/ sessions[s].user \notin allowed
  \/ lastUse[s] + IdleTTL <= now /\ \A r \in Requests : req[r].sess = s => pc[r] \notin Pending

Go(r, step) == pc' = [pc EXCEPT ![r] = step] /\ UNCHANGED req

\* The request is over: denied, answered or given up.
End(r) == pc' = [pc EXCEPT ![r] = "idle"] /\ req' = [req EXCEPT ![r] = NoRequest]

-----------------------------------------------------------------------------
Init ==
  /\ now = 0
  /\ allowed = Users
  /\ txns = [t \in Txns |-> [state |-> "none", expires |-> 0]]
  /\ sessions = [s \in Sessions |-> NoSession]
  /\ held = {} /\ logins = {}
  /\ req = [r \in Requests |-> NoRequest]
  /\ lastUse = [s \in Sessions |-> 0]
  /\ pc = [r \in Requests |-> "idle"]

-----------------------------------------------------------------------------
\* GET /api/auth/github: beginOAuthTransaction.
BeginTransaction ==
  /\ \E t \in Txns : /\ txns[t].state = "none"
                     /\ txns' = [txns EXCEPT ![t] = [state |-> "open", expires |-> now + TxnTTL]]
  /\ UNCHANGED <<now, allowed, sessions, held, logins, lastUse, pc, req>>

\* A request with a session cookie: an admin route, or logout.
Arrive(r) ==
  /\ pc[r] = "idle"
  /\ \E s \in held, kind \in {"admin", "logout"} :
       req' = [req EXCEPT ![r] = [NoRequest EXCEPT !.kind = kind, !.sess = s, !.since = now,
                                           !.late = kind = "admin" /\ TooLate(s)]]
  /\ pc' = [pc EXCEPT ![r] = "lookup"]
  /\ UNCHANGED <<now, allowed, txns, sessions, held, logins, lastUse>>

\* GitHub redirects a browser to the callback, or the browser repeats it.
ArriveCallback(r) ==
  /\ pc[r] = "idle"
  /\ \E t \in Txns : /\ txns[t].state # "none"
                     /\ req' = [req EXCEPT ![r] = [NoRequest EXCEPT !.kind = "callback", !.txn = t,
                                                            !.since = now]]
  /\ pc' = [pc EXCEPT ![r] = "consume"]
  /\ UNCHANGED <<now, allowed, txns, sessions, held, logins, lastUse>>

-----------------------------------------------------------------------------
\* lookupSession.

\* The session is good: logout goes on, other routes ask the allow list.
Enter(r, s) ==
  /\ IF req[r].kind = "logout" THEN Go(r, "logout")
     ELSE IF sessions[s].user \in allowed THEN Go(r, "admitted") ELSE End(r)
  /\ lastUse' = [lastUse EXCEPT ![s] = now]

\* The SELECT, and what follows from the row.
LookupIgnoringIdle(r) ==
  LET s == req[r].sess
  IN /\ pc[r] = "lookup"
     /\ \/ sessions[s].state # "live" /\ End(r) /\ UNCHANGED lastUse
        \/ sessions[s].state = "live" /\ Expired(s) /\ Go(r, "revoke") /\ UNCHANGED lastUse
        \/ sessions[s].state = "live" /\ ~Expired(s) /\ Enter(r, s)
     /\ UNCHANGED <<now, allowed, txns, sessions, held, logins>>
Lookup(r) ==
  LET s == req[r].sess
  IN /\ pc[r] = "lookup"
     /\ \/ sessions[s].state # "live" /\ End(r) /\ UNCHANGED lastUse
        \/ sessions[s].state = "live" /\ ~Usable(s) /\ Go(r, "revoke") /\ UNCHANGED lastUse
        \/ Usable(s) /\ SeenIsStale(s) /\ Go(r, "refresh") /\ UNCHANGED lastUse
        \/ Usable(s) /\ ~SeenIsStale(s) /\ Enter(r, s)
     /\ UNCHANGED <<now, allowed, txns, sessions, held, logins>>

\* The handler behind requireAdmin runs: QuestionStore and BulkImport.
Finish(r) ==
  /\ pc[r] = "admitted"
  /\ End(r)
  /\ UNCHANGED <<now, allowed, txns, sessions, held, logins, lastUse>>

\* Expiry is recorded whatever the row has become since.
RevokeExpired(r) ==
  LET s == req[r].sess
  IN /\ pc[r] = "revoke"
     /\ sessions' = IF Stored(s) THEN [sessions EXCEPT ![s].state = "revoked"] ELSE sessions
     /\ End(r)
     /\ UNCHANGED <<now, allowed, txns, held, logins, lastUse>>

\* The last_seen_at UPDATE, by id alone.
RefreshedLive(row) == [row EXCEPT !.seen = now, !.state = "live"]
Refreshed(row) == [row EXCEPT !.seen = now]

RefreshSeen(r) ==
  LET s == req[r].sess
  IN /\ pc[r] = "refresh"
     /\ sessions' = IF Stored(s) THEN [sessions EXCEPT ![s] = Refreshed(@)] ELSE sessions
     /\ Enter(r, s)
     /\ UNCHANGED <<now, allowed, txns, held, logins>>

\* Logout: revokeSessionByToken, then the audit row.
RevokeByToken(r) ==
  LET s == req[r].sess
  IN /\ pc[r] = "logout"
     /\ sessions' = IF sessions[s].state = "live" THEN [sessions EXCEPT ![s].state = "revoked"]
                    ELSE sessions
     /\ Go(r, "auditlogout")
     /\ UNCHANGED <<now, allowed, txns, held, logins, lastUse>>

AuditLogout(r) ==
  /\ pc[r] = "auditlogout"
  /\ End(r)
  /\ UNCHANGED <<now, allowed, txns, sessions, held, logins, lastUse>>

-----------------------------------------------------------------------------
\* The OAuth callback.

ConsumableIfKnown(row) == row.state \in {"open", "consumed"}
Consumable(row) == row.state = "open" /\ row.expires > now

\* consumeOAuthTransaction's conditional UPDATE.
Consume(r) ==
  LET t == req[r].txn
  IN /\ pc[r] = "consume"
     /\ IF Consumable(txns[t])
        THEN txns' = [txns EXCEPT ![t].state = "consumed"] /\ Go(r, "readback")
        ELSE UNCHANGED txns /\ Go(r, "diagnose")
     /\ UNCHANGED <<now, allowed, sessions, held, logins, lastUse>>

\* The SELECT that tells unknown, replayed and expired states apart.
Diagnose(r) ==
  /\ pc[r] = "diagnose"
  /\ Go(r, "auditfail")
  /\ UNCHANGED <<now, allowed, txns, sessions, held, logins, lastUse>>

ReadBack(r) ==
  /\ pc[r] = "readback"
  /\ Go(r, IF txns[req[r].txn].state = "gone" THEN "auditfail" ELSE "exchange")
  /\ UNCHANGED <<now, allowed, txns, sessions, held, logins, lastUse>>

\* exchangeCodeForIdentity, and the allow list; the calls may fail or time out.
ExchangeCode(r) ==
  /\ pc[r] = "exchange"
  /\ \/ /\ \E u \in Users : /\ req' = [req EXCEPT ![r].user = u]
                            /\ pc' = [pc EXCEPT ![r] = IF u \in allowed THEN "create"
                                                       ELSE "auditreject"]
     \/ Go(r, "auditfail")
  /\ UNCHANGED <<now, allowed, txns, sessions, held, logins, lastUse>>

\* createSession.
CreateSession(r) ==
  /\ pc[r] = "create"
  /\ \E s \in Sessions :
       /\ sessions[s].state = "none"
       /\ sessions' = [sessions EXCEPT ![s] =
            [state |-> "live", user |-> req[r].user, txn |-> req[r].txn,
             expires |-> now + SessionTTL, seen |-> now]]
       /\ req' = [req EXCEPT ![r].sess = s]
       /\ lastUse' = [lastUse EXCEPT ![s] = now]
  /\ pc' = [pc EXCEPT ![r] = "auditlogin"]
  /\ UNCHANGED <<now, allowed, txns, held, logins>>

AuditLogin(r) ==
  /\ pc[r] = "auditlogin"
  /\ logins' = logins \cup {req[r].sess}
  /\ Go(r, "answer")
  /\ UNCHANGED <<now, allowed, txns, sessions, held, lastUse>>

\* The redirect brings the cookie.
Answer(r) ==
  /\ pc[r] = "answer"
  /\ held' = held \cup {req[r].sess}
  /\ End(r)
  /\ UNCHANGED <<now, allowed, txns, sessions, logins, lastUse>>

AuditFailure(r) ==
  /\ pc[r] \in {"auditfail", "auditreject"}
  /\ End(r)
  /\ UNCHANGED <<now, allowed, txns, sessions, held, logins, lastUse>>

\* A call throws: the callback catches it and records a failure.  A throw in
\* the audit of that failure, or elsewhere, and an eviction end the request.
Throw(r) ==
  /\ pc[r] \in Pending
  /\ \/ pc[r] \in Callback \cup {"auditreject"} /\ Go(r, "auditfail")
     \/ End(r)
  /\ UNCHANGED <<now, allowed, txns, sessions, held, logins, lastUse>>

-----------------------------------------------------------------------------
\* The scheduled purges, each on its own: one may fail while the other works.

Purgeable(s) == Stored(s) /\ (sessions[s].expires + SessionTTL < now \/ sessions[s].state = "revoked")

PurgeSessions ==
  /\ \E s \in Sessions : Purgeable(s)
  /\ sessions' = [s \in Sessions |->
       IF Purgeable(s) THEN [NoSession EXCEPT !.state = "gone", !.txn = sessions[s].txn] ELSE sessions[s]]
  /\ UNCHANGED <<now, allowed, txns, held, logins, lastUse, pc, req>>

PurgeableTxn(t) == txns[t].state \in {"open", "consumed"} /\ txns[t].expires + TxnTTL < now

PurgeTransactions ==
  /\ \E t \in Txns : PurgeableTxn(t)
  /\ txns' = [t \in Txns |-> IF PurgeableTxn(t) THEN [state |-> "gone", expires |-> 0] ELSE txns[t]]
  /\ UNCHANGED <<now, allowed, sessions, held, logins, lastUse, pc, req>>

\* A deployment takes an account off the allow list.
Redeploy ==
  /\ \E u \in allowed : allowed' = allowed \ {u}
  /\ UNCHANGED <<now, txns, sessions, held, logins, lastUse, pc, req>>

Tick ==
  /\ now < MaxTime
  /\ \A r \in Requests : pc[r] \in Pending => now < req[r].since + MaxFlight
  /\ now' = now + 1
  /\ UNCHANGED <<allowed, txns, sessions, held, logins, lastUse, pc, req>>

Serve(r) ==
  \/ Arrive(r) \/ ArriveCallback(r)
  \/ Lookup(r) \/ Finish(r) \/ RevokeExpired(r) \/ RefreshSeen(r) \/ RevokeByToken(r) \/ AuditLogout(r)
  \/ Consume(r) \/ Diagnose(r) \/ ReadBack(r) \/ ExchangeCode(r) \/ CreateSession(r)
  \/ AuditLogin(r) \/ Answer(r) \/ AuditFailure(r) \/ Throw(r)

Next == BeginTransaction \/ PurgeSessions \/ PurgeTransactions \/ Redeploy \/ Tick
        \/ \E r \in Requests : Serve(r)

Spec == Init /\ [][Next]_vars

-----------------------------------------------------------------------------
\* Properties.

\* A transaction is single-use: however many callbacks carry its state, at
\* once or one after the other, retried or not, at most one session comes of it.
OneSessionPerTransaction ==
  \A s1, s2 \in Sessions :
    s1 # s2 /\ sessions[s1].txn # Nil => sessions[s1].txn # sessions[s2].txn

\* Expiry and revocation are enforced on every read: a request that arrives
\* after its session was revoked, purged, expired or left idle, or its account
\* was taken off the allow list, is not let in, whatever is under way.
LateRequestsAreDenied == \A r \in Requests : pc[r] = "admitted" => ~req[r].late

\* The write throttle of last_seen_at costs an administrator at most one
\* threshold: a session is cut off as idle only when no request was let in
\* during IdleTTL less SeenThreshold.
IdleIsHonest ==
  [][\A r \in Requests :
        LET s == req[r].sess
        IN pc[r] = "lookup" /\ pc'[r] = "revoke" /\ ~Expired(s) =>
             lastUse[s] + IdleTTL < now + SeenThreshold]_vars

\* A session that was revoked or purged stays so, and no request prolongs the
\* absolute lifetime it was created with.
RevocationIsFinal ==
  [][\A s \in Sessions : sessions[s].state # "none" =>
        /\ sessions[s].state \in {"revoked", "gone"} => sessions'[s].state \in {"revoked", "gone"}
        /\ sessions'[s].state # "gone" => sessions'[s].expires = sessions[s].expires]_vars

\* No browser holds the cookie of a session whose sign-in is not in the audit
\* log, even when the audit write throws after the session was created.
SignInsAreAudited == held \subseteq logins

\* A sign-in makes one session, and leaves its trace before anybody holds it.
SignInsAreSound == OneSessionPerTransaction /\ SignInsAreAudited

\* A session ends neither too early nor more than once.
SessionsEndOnce == IdleIsHonest /\ RevocationIsFinal
===============================================================================
