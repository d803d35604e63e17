------------------------------ MODULE Sessions ------------------------------
(***************************************************************************)
(* Identity of one wallet account: login nonces, account sessions with     *)
(* their rotating refresh tokens, launch tickets, bans and revocations.    *)
(*                                                                         *)
(* Sources: internal/account/service.go, internal/account/sessions.go,     *)
(* internal/platform/store/{sessions,postgres,admin}.go.                   *)
(*                                                                         *)
(* A request is a handler under way: each SQL statement or transaction it  *)
(* issues is a step, and the requests interleave between steps.  The two   *)
(* transactions that lock rows in opposite orders, RotateRefreshToken and  *)
(* RevokeAccountSession, are split down to their locks: "holds" is what a  *)
(* request has locked, its writes become visible when it commits.          *)
(* Every statement is keyed by the account, so one account is enough.      *)
(* Expiry is a flag the clock may raise on a row at any time.              *)
(***************************************************************************)
EXTENDS Naturals, FiniteSets

CONSTANTS MaxNonces, MaxSessions, MaxTokens, MaxTickets,   \* bounds on rows
          Servers,       \* the game servers a ticket may name
          Requests,      \* handlers that may be under way together
          Scenarios      \* the operations the clients send in a behaviour,
                         \* and how many login nonces they ask for

ASSUME BoundsAssumption ==
  /\ {MaxNonces, MaxSessions, MaxTokens, MaxTickets} \subseteq Nat \ {0}
  /\ IsFiniteSet(Requests)
  /\ \A c \in Scenarios : c.nonces \in 0 .. MaxNonces

Nonce == 1 .. MaxNonces
Session == 1 .. MaxSessions
Token == 1 .. MaxTokens
Ticket == 1 .. MaxTickets
NoRow == 0

VARIABLES
  scenario,      \* what the clients do in this behaviour
  account,       \* accounts.status, or "NONE" before the first login
  nonces,        \* wallet_login_nonces
  sessions,      \* account_sessions.status
  refreshTokens, \* refresh_tokens
  tickets,       \* game_tickets
  cached,        \* sessions with an ACTIVE entry in Redis
  request,       \* the handlers under way
  granted        \* history: what the requests obtained

svars == <<scenario, account, nonces, sessions, refreshTokens, tickets,
           cached, request, granted>>

NoNonce == [status |-> "NONE", lapsed |-> FALSE]
NoToken == [session |-> NoRow, revoked |-> FALSE, lapsed |-> FALSE,
            parent |-> NoRow]
NoTicket == [status |-> "NONE", session |-> NoRow, server |-> "", lapsed |-> FALSE]

(* Idle handler.  "stale" is whether the session named by the request was  *)
(* already revoked when the request began, "barred" whether the account    *)
(* has been banned ever since the request began.                           *)
Idle == [op |-> "idle", pc |-> "idle", nonce |-> NoRow, session |-> NoRow,
         token |-> NoRow, ticket |-> NoRow, server |-> "", todo |-> {},
         holdsSession |-> FALSE, holdsTokens |-> {},
         stale |-> FALSE, barred |-> FALSE]

SessionsInit ==
  /\ scenario \in Scenarios
  /\ account = "NONE"
  /\ nonces = [n \in Nonce |-> NoNonce]
  /\ sessions = [s \in Session |-> "NONE"]
  /\ refreshTokens = [t \in Token |-> NoToken]
  /\ tickets = [k \in Ticket |-> NoTicket]
  /\ cached = {}
  /\ request = [r \in Requests |-> Idle]
  /\ granted = {}

(* A primary key no row has yet (security.RandomToken).                    *)
NewId(used, ids) == CHOOSE i \in ids \ used : \A j \in ids \ used : i <= j
UsedNonces == {n \in Nonce : nonces[n].status # "NONE"}
UsedSessions == {s \in Session : sessions[s] # "NONE"}
UsedTokens == {t \in Token : refreshTokens[t].session # NoRow}
UsedTickets == {k \in Ticket : tickets[k].status # "NONE"}
LiveTokens(s) == {t \in Token : refreshTokens[t].session = s
                                  /\ ~refreshTokens[t].revoked}

(* Bound: a request that inserts a row starts only while there is room for *)
(* the rows of every request under way.                                    *)
Pending(op) == Cardinality({r \in Requests : request[r].op = op})
Room(op) ==
  /\ op = "login" => Cardinality(UsedSessions) + Pending("login") < MaxSessions
  /\ op \in {"login", "refresh"} =>
       Cardinality(UsedTokens) + Pending("login") + Pending("refresh") < MaxTokens
  /\ op = "launch" => Cardinality(UsedTickets) + Pending("launch") < MaxTickets

At(r, op, pc) == request[r].op = op /\ request[r].pc = pc
Begin(r, op) == op \in scenario.ops /\ request[r] = Idle /\ Room(op)
Goto(r, pc) == request' = [request EXCEPT ![r].pc = pc]
Done(r) == request' = [request EXCEPT ![r] = Idle]
BannedNow == account = "BANNED"

(* The request obtained what it asked for.                                 *)
Grant(r, what) ==
  granted' = granted \cup {[what |-> what, stale |-> request[r].stale,
                            barred |-> request[r].barred]}

-----------------------------------------------------------------------------
(* POST /auth/wallet/nonce                                                 *)
WalletNonce ==
  /\ "login" \in scenario.ops
  /\ Cardinality(UsedNonces) < scenario.nonces
  /\ nonces' = [nonces EXCEPT ![NewId(UsedNonces, Nonce)].status = "PENDING"]
  /\ UNCHANGED <<scenario, account, sessions, refreshTokens, tickets, cached,
                 request, granted>>

(* WalletLogin reads the nonce.  A lapsed PENDING nonce becomes EXPIRED in *)
(* a statement of its own, and the login ends; otherwise the signature is  *)
(* verified over the stored message.                                       *)
WalletLoginReadNonce(r, n) ==
  /\ Begin(r, "login")
  /\ nonces[n].status = "PENDING"
  /\ \/ /\ nonces[n].lapsed
        /\ nonces' = [nonces EXCEPT ![n].status = "EXPIRED"]
        /\ UNCHANGED request
     \/ /\ ~nonces[n].lapsed
        /\ request' = [request EXCEPT ![r] =
              [Idle EXCEPT !.op = "login", !.pc = "verified", !.nonce = n,
                           !.barred = BannedNow]]
        /\ UNCHANGED nonces
  /\ UNCHANGED <<scenario, account, sessions, refreshTokens, tickets, cached,
                 granted>>

(* One transaction with the row locked: only a PENDING nonce is consumed.  *)
(* The clock value is the one of the read, so the row cannot lapse here.   *)
ConsumeWalletNonce(r) ==
  /\ At(r, "login", "verified")
  /\ LET n == request[r].nonce IN
     \/ /\ nonces[n].status = "PENDING"
        /\ nonces' = [nonces EXCEPT ![n].status = "CONSUMED"]
        /\ Goto(r, "consumed")
     \/ /\ nonces[n].status # "PENDING"
        /\ Done(r)
        /\ UNCHANGED nonces
  /\ UNCHANGED <<scenario, account, sessions, refreshTokens, tickets, cached,
                 granted>>

(* The upsert returns the status it found; a banned account gets no        *)
(* session, and its nonce stays consumed.                                  *)
UpsertAccountByWallet(r) ==
  /\ At(r, "login", "consumed")
  /\ account' = IF account = "NONE" THEN "ACTIVE" ELSE account
  /\ IF BannedNow THEN Done(r) ELSE Goto(r, "upserted")
  /\ UNCHANGED <<scenario, nonces, sessions, refreshTokens, tickets, cached,
                 granted>>

(* CreateAccountSession: the session and its first refresh token in one    *)
(* transaction; the cache entry follows.                                   *)
IssueSession(r) ==
  /\ At(r, "login", "upserted")
  /\ LET s == NewId(UsedSessions, Session)
         t == NewId(UsedTokens, Token) IN
     /\ sessions' = [sessions EXCEPT ![s] = "ACTIVE"]
     /\ refreshTokens' = [refreshTokens EXCEPT ![t] = [NoToken EXCEPT !.session = s]]
     /\ cached' = cached \cup {s}
     /\ granted' = granted \cup {[what |-> "login", nonce |-> request[r].nonce,
                                  session |-> s, stale |-> FALSE,
                                  barred |-> request[r].barred]}
  /\ Done(r)
  /\ UNCHANGED <<scenario, account, nonces, tickets>>

-----------------------------------------------------------------------------
(* Refresh, LookupRefreshToken: neither revoked nor expired.               *)
BeginRefresh(r, t) ==
  /\ Begin(r, "refresh")
  /\ refreshTokens[t].session # NoRow
  /\ ~refreshTokens[t].revoked /\ ~refreshTokens[t].lapsed
  /\ request' = [request EXCEPT ![r] =
        [Idle EXCEPT !.op = "refresh", !.pc = "found", !.token = t,
                     !.session = refreshTokens[t].session,
                     !.stale = sessions[refreshTokens[t].session] = "REVOKED",
                     !.barred = BannedNow]]
  /\ UNCHANGED <<scenario, account, nonces, sessions, refreshTokens, tickets,
                 cached, granted>>

FaultRefreshChecks(r) ==
  /\ At(r, "refresh", "found")
  /\ IF ~BannedNow THEN Goto(r, "rotate") ELSE Done(r)
  /\ UNCHANGED <<scenario, account, nonces, sessions, refreshTokens, tickets,
                 cached, granted>>

(* The session must be ACTIVE and the account not banned.                  *)
RefreshChecks(r) ==
  /\ At(r, "refresh", "found")
  /\ IF sessions[request[r].session] = "ACTIVE" /\ ~BannedNow
       THEN Goto(r, "rotate") ELSE Done(r)
  /\ UNCHANGED <<scenario, account, nonces, sessions, refreshTokens, tickets,
                 cached, granted>>

TokenFree(t) == \A r \in Requests : t \notin request[r].holdsTokens
SessionFree(s) == \A r \in Requests :
                    ~(request[r].holdsSession /\ request[r].session = s)

(* RotateRefreshToken, first UPDATE: waits for the row, then matches it    *)
(* only while it is unrevoked; no row means ErrForbidden.                  *)
RotateLockToken(r) ==
  /\ At(r, "refresh", "rotate")
  /\ TokenFree(request[r].token)
  /\ IF refreshTokens[request[r].token].revoked
       THEN Done(r)
       ELSE request' = [request EXCEPT ![r].pc = "touch",
                                       ![r].holdsTokens = {request[r].token}]
  /\ UNCHANGED <<scenario, account, nonces, sessions, refreshTokens, tickets,
                 cached, granted>>

(* Last UPDATE: last_seen_at of the session, whatever its status.          *)
RotateTouchSession(r) ==
  /\ At(r, "refresh", "touch")
  /\ SessionFree(request[r].session)
  /\ request' = [request EXCEPT ![r].pc = "commit", ![r].holdsSession = TRUE]
  /\ UNCHANGED <<scenario, account, nonces, sessions, refreshTokens, tickets,
                 cached, granted>>

FaultRotateCommit(r) ==
  /\ At(r, "refresh", "commit")
  /\ LET new == NewId(UsedTokens, Token) IN
     refreshTokens' = [refreshTokens EXCEPT
        ![new] = [NoToken EXCEPT !.session = request[r].session,
                                 !.parent = request[r].token]]
  /\ Grant(r, "refresh")
  /\ request' = [request EXCEPT ![r].pc = "recache", ![r].holdsSession = FALSE,
                                ![r].holdsTokens = {}]
  /\ UNCHANGED <<scenario, account, nonces, sessions, tickets, cached>>

RotateCommit(r) ==
  /\ At(r, "refresh", "commit")
  /\ LET new == NewId(UsedTokens, Token)
         old == request[r].token IN
     refreshTokens' = [refreshTokens EXCEPT
        ![old].revoked = TRUE,
        ![new] = [NoToken EXCEPT !.session = request[r].session, !.parent = old]]
  /\ Grant(r, "refresh")
  /\ request' = [request EXCEPT ![r].pc = "recache", ![r].holdsSession = FALSE,
                                ![r].holdsTokens = {}]
  /\ UNCHANGED <<scenario, account, nonces, sessions, tickets, cached>>

(* The session record read before the rotation is cached as ACTIVE.        *)
RefreshRecache(r) ==
  /\ At(r, "refresh", "recache")
  /\ cached' = cached \cup {request[r].session}
  /\ Done(r)
  /\ UNCHANGED <<scenario, account, nonces, sessions, refreshTokens, tickets,
                 granted>>

-----------------------------------------------------------------------------
(* Logout names its session, or finds it through a valid refresh token.    *)
BeginLogout(r, s) ==
  /\ Begin(r, "logout")
  /\ sessions[s] # "NONE"
  /\ request' = [request EXCEPT ![r] =
        [Idle EXCEPT !.op = "logout", !.pc = "session", !.session = s]]
  /\ UNCHANGED <<scenario, account, nonces, sessions, refreshTokens, tickets,
                 cached, granted>>

(* RevokeAccountSession, first UPDATE: locks the row only if ACTIVE.  The  *)
(* second one then fixes its snapshot of the unrevoked tokens.             *)
RevokeLockSession(r) ==
  /\ At(r, "logout", "session")
  /\ SessionFree(request[r].session)
  /\ request' = [request EXCEPT
        ![r].pc = "snapshot",
        ![r].holdsSession = sessions[request[r].session] = "ACTIVE"]
  /\ UNCHANGED <<scenario, account, nonces, sessions, refreshTokens, tickets,
                 cached, granted>>

RevokeSnapshot(r) ==
  /\ At(r, "logout", "snapshot")
  /\ request' = [request EXCEPT ![r].pc = "tokens",
                                ![r].todo = LiveTokens(request[r].session)]
  /\ UNCHANGED <<scenario, account, nonces, sessions, refreshTokens, tickets,
                 cached, granted>>

(* Each row of the snapshot is locked, and left alone if it was revoked    *)
(* while this transaction waited for it.                                   *)
RevokeLockToken(r, t) ==
  /\ At(r, "logout", "tokens")
  /\ t \in request[r].todo
  /\ TokenFree(t)
  /\ request' = [request EXCEPT
        ![r].todo = @ \ {t},
        ![r].holdsTokens = IF refreshTokens[t].revoked THEN @ ELSE @ \cup {t}]
  /\ UNCHANGED <<scenario, account, nonces, sessions, refreshTokens, tickets,
                 cached, granted>>

RevokeCommit(r) ==
  /\ At(r, "logout", "tokens")
  /\ request[r].todo = {}
  /\ sessions' = [sessions EXCEPT ![request[r].session] =
                    IF request[r].holdsSession THEN "REVOKED" ELSE @]
  /\ refreshTokens' = [t \in Token |->
        IF t \in request[r].holdsTokens
          THEN [refreshTokens[t] EXCEPT !.revoked = TRUE] ELSE refreshTokens[t]]
  /\ request' = [request EXCEPT ![r].pc = "uncache", ![r].holdsSession = FALSE,
                                ![r].holdsTokens = {}]
  /\ UNCHANGED <<scenario, account, nonces, tickets, cached, granted>>

(* Whatever RevokeAccountSession returned, the cache entry goes and the    *)
(* client is told "revoked".                                               *)
LogoutReport(r) ==
  /\ At(r, "logout", "uncache")
  /\ cached' = cached \ {request[r].session}
  /\ Done(r)
  /\ UNCHANGED <<scenario, account, nonces, sessions, refreshTokens, tickets, granted>>

(* PostgreSQL breaks a cycle of lock waits by aborting one transaction: a  *)
(* rotation then fails, a logout carries on to report success.             *)
Waits(r, q) ==
  \/ At(r, "refresh", "touch") /\ request[q].holdsSession
       /\ request[q].session = request[r].session
  \/ At(r, "logout", "session") /\ request[q].holdsSession
       /\ request[q].session = request[r].session
  \/ At(r, "refresh", "rotate") /\ request[r].token \in request[q].holdsTokens
  \/ At(r, "logout", "tokens") /\ request[r].todo \cap request[q].holdsTokens # {}

FaultDeadlockVictim(r) ==
  /\ \E q \in Requests \ {r} : Waits(r, q) /\ Waits(q, r)
  /\ UNCHANGED svars

DeadlockVictim(r) ==
  /\ \E q \in Requests \ {r} : Waits(r, q) /\ Waits(q, r)
  /\ request' = [request EXCEPT ![r] =
        IF request[r].op = "logout"
          THEN [@ EXCEPT !.pc = "uncache", !.holdsSession = FALSE,
                         !.holdsTokens = {}, !.todo = {}]
          ELSE Idle]
  /\ UNCHANGED <<scenario, account, nonces, sessions, refreshTokens, tickets,
                 cached, granted>>

-----------------------------------------------------------------------------
(* RequireActiveSession: Redis is read and ignored, PostgreSQL decides.    *)
RequireActiveSession(s) == sessions[s] = "ACTIVE"

(* Launch: the account is not banned and the session is ACTIVE; the entry  *)
(* cached by RequireActiveSession is written after the read.               *)
BeginLaunch(r, s, server) ==
  /\ Begin(r, "launch")
  /\ ~BannedNow /\ RequireActiveSession(s)
  /\ request' = [request EXCEPT ![r] =
        [Idle EXCEPT !.op = "launch", !.pc = "cache", !.session = s,
                     !.server = server, !.stale = sessions[s] = "REVOKED",
                     !.barred = BannedNow]]
  /\ UNCHANGED <<scenario, account, nonces, sessions, refreshTokens, tickets,
                 cached, granted>>

LaunchCache(r) ==
  /\ At(r, "launch", "cache")
  /\ cached' = cached \cup {request[r].session}
  /\ Goto(r, "save")
  /\ UNCHANGED <<scenario, account, nonces, sessions, refreshTokens, tickets,
                 granted>>

(* SaveTicket for the selected server, without a character.                *)
LaunchSaveTicket(r) ==
  /\ At(r, "launch", "save")
  /\ tickets' = [tickets EXCEPT ![NewId(UsedTickets, Ticket)] =
        [status |-> "ACTIVE", session |-> request[r].session,
         server |-> request[r].server, lapsed |-> FALSE]]
  /\ Grant(r, "launch")
  /\ Done(r)
  /\ UNCHANGED <<scenario, account, nonces, sessions, refreshTokens, cached>>

(* ConsumeTicket of the store: the ticket row is locked, ACTIVE, not       *)
(* expired, of this server, and its session ACTIVE.                        *)
BeginConsumeTicket(r, k, server) ==
  /\ Begin(r, "consume")
  /\ tickets[k].status = "ACTIVE" /\ ~tickets[k].lapsed
  /\ tickets[k].server = server
  /\ sessions[tickets[k].session] = "ACTIVE"
  /\ tickets' = [tickets EXCEPT ![k].status = "CONSUMED"]
  /\ request' = [request EXCEPT ![r] =
        [Idle EXCEPT !.op = "consume", !.pc = "check", !.ticket = k,
                     !.session = tickets[k].session,
                     !.stale = sessions[tickets[k].session] = "REVOKED",
                     !.barred = BannedNow]]
  /\ UNCHANGED <<scenario, account, nonces, sessions, refreshTokens, cached,
                 granted>>

(* ConsumeTicket of the service, after the store's commit: a banned        *)
(* account is refused although its ticket is spent.                        *)
ConsumeTicketAdmit(r) ==
  /\ At(r, "consume", "check")
  /\ IF BannedNow THEN UNCHANGED granted ELSE Grant(r, "enter")
  /\ Done(r)
  /\ UNCHANGED <<scenario, account, nonces, sessions, refreshTokens, tickets,
                 cached>>

-----------------------------------------------------------------------------
(* SetAccountBan.  Lifting a ban ends the "barred" history of the requests *)
(* under way.                                                              *)
SetAccountBan(banned) ==
  /\ "ban" \in scenario.ops
  /\ account # "NONE"
  /\ account' = IF banned THEN "BANNED" ELSE "ACTIVE"
  /\ request' = [r \in Requests |->
        [request[r] EXCEPT !.barred = @ /\ banned]]
  /\ UNCHANGED <<scenario, nonces, sessions, refreshTokens, tickets, cached,
                 granted>>

(* AdminRevokeAccountSessions: one statement over the ACTIVE sessions; the *)
(* refresh tokens and the cache keep their rows.                           *)
AdminRevokeAccountSessions ==
  /\ "adminRevoke" \in scenario.ops
  /\ \A s \in Session : sessions[s] = "ACTIVE" => SessionFree(s)
  /\ sessions' = [s \in Session |->
        IF sessions[s] = "ACTIVE" THEN "REVOKED" ELSE sessions[s]]
  /\ UNCHANGED <<scenario, account, nonces, refreshTokens, tickets, cached,
                 request, granted>>

(* The clock passes an expires_at.                                         *)
Lapse ==
  /\ "lapse" \in scenario.ops
  /\ \/ \E n \in UsedNonces :
          /\ nonces' = [nonces EXCEPT ![n].lapsed = TRUE]
          /\ UNCHANGED <<refreshTokens, tickets>>
     \/ \E t \in UsedTokens :
          /\ refreshTokens' = [refreshTokens EXCEPT ![t].lapsed = TRUE]
          /\ UNCHANGED <<nonces, tickets>>
     \/ \E k \in UsedTickets :
          /\ tickets' = [tickets EXCEPT ![k].lapsed = TRUE]
          /\ UNCHANGED <<nonces, refreshTokens>>
  /\ UNCHANGED <<scenario, account, sessions, cached, request, granted>>

(* The process dies, or a statement fails: the open transaction is rolled  *)
(* back and the handler's remaining steps never run.                       *)
Abort(r) ==
  /\ "crash" \in scenario.ops
  /\ request[r] # Idle
  /\ Done(r)
  /\ UNCHANGED <<scenario, account, nonces, sessions, refreshTokens, tickets,
                 cached, granted>>

Starts(r) ==
  \/ \E n \in Nonce : WalletLoginReadNonce(r, n)
  \/ \E t \in Token : BeginRefresh(r, t)
  \/ \E s \in Session : BeginLogout(r, s)
  \/ \E s \in Session, server \in Servers : BeginLaunch(r, s, server)
  \/ \E k \in Ticket, server \in Servers : BeginConsumeTicket(r, k, server)

Continues(r) ==
  \/ ConsumeWalletNonce(r) \/ UpsertAccountByWallet(r) \/ IssueSession(r)
  \/ RefreshChecks(r) \/ RotateLockToken(r) \/ RotateTouchSession(r)
  \/ RotateCommit(r) \/ RefreshRecache(r)
  \/ RevokeLockSession(r) \/ RevokeSnapshot(r) \/ RevokeCommit(r) \/ LogoutReport(r)
  \/ \E t \in Token : RevokeLockToken(r, t)
  \/ LaunchCache(r) \/ LaunchSaveTicket(r) \/ ConsumeTicketAdmit(r)
  \/ DeadlockVictim(r)

SessionsNext ==
  \/ WalletNonce
  \/ \E r \in Requests : Starts(r) \/ Continues(r) \/ Abort(r)
  \/ \E banned \in BOOLEAN : SetAccountBan(banned)
  \/ AdminRevokeAccountSessions
  \/ Lapse

(* net/http runs every handler to its end; PostgreSQL queues the waiters   *)
(* of a row lock in order and breaks deadlocks, so a transaction that can  *)
(* proceed again and again does (strong fairness).                         *)
SessionsFairness == \A r \in Requests : SF_svars(Continues(r))

SessionsSpec == SessionsInit /\ [][SessionsNext]_svars /\ SessionsFairness

-----------------------------------------------------------------------------
SessionStatus == {"NONE", "ACTIVE", "REVOKED"}

(* Every row has a status of its table, every token's parent is an earlier *)
(* token, and no token has two successors, however refreshes of it race    *)
(* (the guarded UPDATE of RotateRefreshToken).                             *)
SessionsTypeOK ==
  /\ account \in {"NONE", "ACTIVE", "BANNED"}
  /\ \A n \in Nonce : nonces[n].status \in {"NONE", "PENDING", "CONSUMED", "EXPIRED"}
  /\ sessions \in [Session -> SessionStatus]
  /\ \A t \in Token : /\ refreshTokens[t].session \in Session \cup {NoRow}
                      /\ refreshTokens[t].parent \in 0 .. t - 1
                      /\ \A u \in Token : /\ refreshTokens[t].parent # NoRow
                                          /\ refreshTokens[u].parent = refreshTokens[t].parent
                                          => t = u
  /\ \A k \in Ticket : tickets[k].status \in {"NONE", "ACTIVE", "CONSUMED"}
  /\ cached \subseteq Session

(* A signed nonce opens at most one session, however many logins present   *)
(* it at the same time (WalletLogin, ConsumeWalletNonce).                  *)
NonceOpensOneSession ==
  \A g, h \in {x \in granted : x.what = "login"} :
    g.nonce = h.nonce => g.session = h.session

(* Every ACTIVE session has exactly one unrevoked refresh token: the       *)
(* holder is never locked out by a crash, and concurrent refreshes of one  *)
(* token never fork the chain (RotateRefreshToken).                        *)
OneLiveToken ==
  \A s \in Session : sessions[s] = "ACTIVE" => Cardinality(LiveTokens(s)) = 1

(* A request that began after its session was revoked obtains nothing: no  *)
(* new refresh token, no ticket, no entry to a game server, although Redis *)
(* may still hold the session as ACTIVE and its tokens may be unrevoked.   *)
RevokedObtainsNothing == \A g \in granted : ~g.stale

(* A request during the whole of which the account was banned obtains no   *)
(* session, no token, no ticket and no entry to a game server.             *)
BannedObtainsNothing == \A g \in granted : ~g.barred

(* A request ends: the opposite lock orders of a rotation and of a         *)
(* revocation never leave both waiting.                                    *)
RequestsEnd == \A r \in Requests : request[r] # Idle ~> request[r] = Idle

(* Credentials never multiply: one session per signed nonce, one live      *)
(* refresh token per session, at most one successor per token.             *)
TokensDoNotFork == SessionsTypeOK /\ NonceOpensOneSession /\ OneLiveToken

(* A request made after a revocation or under a ban obtains nothing. *)
NothingAfterRevocation == RevokedObtainsNothing /\ BannedObtainsNothing
=============================================================================
