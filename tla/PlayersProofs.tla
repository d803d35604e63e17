--------------------------- MODULE PlayersProofs ----------------------------
(***************************************************************************)
(* Proofs about accounts: sessions, refresh tokens and tickets, for any    *)
(* number of rows, requests and game servers and every choice of           *)
(* operations; and presence, for any accounts, game servers and handlers.  *)
(***************************************************************************)
EXTENDS Sessions, Presence, Sums, TLAPS

Phases == {"idle", "verified", "consumed", "upserted", "found", "rotate", "touch", "commit", "recache",
           "session", "snapshot", "tokens", "uncache", "cache", "save", "check"}

RequestRow ==
    [op : {"idle", "login", "refresh", "logout", "launch", "consume"}, pc : Phases, nonce : Nat,
     session : Session \cup {NoRow}, token : Token \cup {NoRow}, ticket : Nat,
     server : Servers \cup {""}, todo : SUBSET Token, holdsSession : BOOLEAN,
     holdsTokens : SUBSET Token, stale : BOOLEAN, barred : BOOLEAN]
NonceRow == [status : {"NONE", "PENDING", "CONSUMED", "EXPIRED"}, lapsed : BOOLEAN]
TokenRow == [session : Session \cup {NoRow}, revoked : BOOLEAN, lapsed : BOOLEAN, parent : Nat]
TicketRow == [status : {"NONE", "ACTIVE", "CONSUMED"}, session : Session \cup {NoRow},
              server : Servers \cup {""}, lapsed : BOOLEAN]

(* A ticket names a session. *)
TicketTable == {f \in [Ticket -> TicketRow] : \A k \in Ticket : f[k].status # "NONE" => f[k].session \in Session}

(* The rows of the tables and the handlers under way. *)
ShapeInv ==
    /\ scenario \in Scenarios
    /\ account \in {"NONE", "ACTIVE", "BANNED"}
    /\ nonces \in [Nonce -> NonceRow]
    /\ sessions \in [Session -> SessionStatus]
    /\ refreshTokens \in [Token -> TokenRow]
    /\ tickets \in TicketTable
    /\ cached \subseteq Session
    /\ request \in [Requests -> RequestRow]

(* A login that has consumed its nonce. *)
InFlight(x) == x.op = "login" /\ x.pc \in {"consumed", "upserted"}

(* What the rows that a handler x has read or locked still say. *)
HandlerInv(x) ==
    /\ x.op = "login" => x.nonce \in Nonce /\ x.pc \in {"verified", "consumed", "upserted"}
    /\ InFlight(x) => nonces[x.nonce].status = "CONSUMED"
    /\ x.op = "refresh" =>
          /\ x.token \in Token /\ x.session \in Session /\ refreshTokens[x.token].session = x.session
          /\ x.pc \in {"touch", "commit"} => x.holdsTokens = {x.token}
    /\ x.op = "logout" =>
          /\ x.session \in Session /\ sessions[x.session] # "NONE"
          /\ \A t \in x.holdsTokens \cup x.todo : refreshTokens[t].session = x.session
          /\ x.pc \in {"snapshot", "tokens"} /\ ~x.holdsSession => sessions[x.session] # "ACTIVE"
    /\ x.op \in {"launch", "consume"} => x.session \in Session
    /\ \A t \in x.holdsTokens : ~refreshTokens[t].revoked

(* A handler with a revoked session or a banned account has not passed the *)
(* check that refuses it.                                                  *)
RefusalInv(x) ==
    /\ x.stale => x.op = "refresh" /\ x.pc = "found" /\ sessions[x.session] = "REVOKED"
    /\ x.barred => BannedNow /\ (\/ x.op = "login" /\ x.pc \in {"verified", "consumed"}
                                 \/ x.op = "refresh" /\ x.pc = "found"
                                 \/ x.op = "consume")

(* Two handlers lock different tokens and consumed different nonces. *)
Apart(x, y) ==
    /\ x.holdsTokens \cap y.holdsTokens = {}
    /\ InFlight(x) /\ InFlight(y) => x.nonce # y.nonce

RequestInv ==
    /\ \A r \in Requests : HandlerInv(request[r]) /\ RefusalInv(request[r])
    /\ \A r, q \in Requests : r # q => Apart(request[r], request[q])

(* Tokens are given out in order, belong to sessions, and the parent of a  *)
(* token is an earlier one, revoked, and nobody else's parent.             *)
ChainInv ==
    /\ \A t \in Token : refreshTokens[t].session # NoRow => sessions[refreshTokens[t].session] # "NONE"
    /\ \A t \in Token : refreshTokens[t].parent # NoRow =>
          /\ refreshTokens[t].parent \in Token /\ refreshTokens[t].parent < t
          /\ refreshTokens[refreshTokens[t].parent].revoked
          /\ refreshTokens[refreshTokens[t].parent].session # NoRow
    /\ \A t, u \in Token :
          refreshTokens[t].parent # NoRow /\ refreshTokens[u].parent = refreshTokens[t].parent => t = u
    /\ \A t, u \in Token : t < u /\ refreshTokens[u].session # NoRow => refreshTokens[t].session # NoRow

LiveInv == \A s \in Session : sessions[s] = "ACTIVE" => \E t \in Token : LiveTokens(s) = {t}

(* A nonce that opened a session is consumed, and no login has it in hand. *)
GrantInv ==
    /\ NothingAfterRevocation /\ NonceOpensOneSession
    /\ \A g \in granted : g.what = "login" =>
          /\ g.nonce \in Nonce /\ nonces[g.nonce].status = "CONSUMED"
          /\ \A r \in Requests : InFlight(request[r]) => request[r].nonce # g.nonce

(* There is a row left for every handler that will insert one. *)
Logins == {r \in Requests : request[r].op = "login"}
Inserting == {r \in Requests : \/ request[r].op = "login"
                               \/ request[r].op = "refresh" /\ request[r].pc # "recache"}
CountInv ==
    /\ Cardinality(UsedSessions) + Cardinality(Logins) <= MaxSessions
    /\ Cardinality(UsedTokens) + Cardinality(Inserting) <= MaxTokens

IInv == ShapeInv /\ RequestInv /\ ChainInv /\ LiveInv /\ GrantInv /\ CountInv

-----------------------------------------------------------------------------
(* While rows are left, NewId names the first unused one. *)
LEMMA NewIdFacts ==
    ASSUME NEW n \in Nat, NEW used \in SUBSET (1 .. n), Cardinality(used) < n
    PROVE  /\ NewId(used, 1 .. n) \in (1 .. n) \ used
           /\ \A j \in (1 .. n) \ used : NewId(used, 1 .. n) <= j
<1>1. Cardinality(1 .. n) = n
    BY FS_Interval
<1>. DEFINE free == (1 .. n) \ used
<1>2. free \in SUBSET Nat /\ free # {}
  <2>1. free # {}
    <3>. SUFFICES ASSUME free = {} PROVE FALSE
        OBVIOUS
    <3>1. used = 1 .. n
        OBVIOUS
    <3>. QED
        BY <1>1, <3>1
  <2>2. 1 .. n \in SUBSET Nat
      OBVIOUS
  <2>. QED
      BY <2>1, <2>2
<1>3. \E i \in free : \A j \in free : i <= j
    BY <1>2, LeastNumber
<1>. QED
    BY <1>3 DEF NewId

(* Handlers and rows are finitely many. *)
LEMMA FiniteFacts ==
    /\ \A S \in SUBSET Requests : IsFiniteSet(S) /\ Cardinality(S) \in Nat
    /\ IsFiniteSet(UsedTokens) /\ Cardinality(UsedTokens) \in Nat
    /\ IsFiniteSet(UsedSessions) /\ Cardinality(UsedSessions) \in Nat
    /\ Logins \subseteq Requests /\ Inserting \subseteq Requests
    /\ MaxTokens \in Nat /\ MaxSessions \in Nat /\ MaxNonces \in Nat
<1>1. IsFiniteSet(Requests) /\ MaxTokens \in Nat /\ MaxSessions \in Nat /\ MaxNonces \in Nat
    BY BoundsAssumption
<1>2. \A S \in SUBSET Requests : IsFiniteSet(S) /\ Cardinality(S) \in Nat
    BY <1>1, FS_Subset, FS_CardinalityType
<1>3. IsFiniteSet(Token) /\ IsFiniteSet(Session)
    BY <1>1, FS_Interval DEF Token, Session
<1>4. UsedTokens \subseteq Token /\ UsedSessions \subseteq Session
    BY DEF UsedTokens, UsedSessions
<1>5. IsFiniteSet(UsedTokens) /\ IsFiniteSet(UsedSessions)
    BY <1>3, <1>4, FS_Subset
<1>6. Logins \subseteq Requests /\ Inserting \subseteq Requests
    BY DEF Logins, Inserting
<1>. QED
    BY <1>1, <1>2, <1>5, <1>6, FS_CardinalityType

(* Fewer handlers waiting to insert, and no more rows. *)
LEMMA CountStep ==
    ASSUME CountInv, UsedTokens' = UsedTokens, UsedSessions' = UsedSessions,
           Logins' \subseteq Logins, Inserting' \subseteq Inserting
    PROVE  CountInv'
<1>1. IsFiniteSet(Logins) /\ IsFiniteSet(Inserting) /\ IsFiniteSet(UsedTokens) /\ IsFiniteSet(UsedSessions)
    BY FiniteFacts
<1>2. /\ Cardinality(Logins') <= Cardinality(Logins) /\ Cardinality(Inserting') <= Cardinality(Inserting)
      /\ Cardinality(Logins') \in Nat /\ Cardinality(Inserting') \in Nat
      /\ Cardinality(Logins) \in Nat /\ Cardinality(Inserting) \in Nat
      /\ Cardinality(UsedTokens) \in Nat /\ Cardinality(UsedSessions) \in Nat
    BY <1>1, FS_Subset, FS_CardinalityType
<1>3. MaxTokens \in Nat /\ MaxSessions \in Nat
    BY BoundsAssumption
<1>. QED
    BY <1>2, <1>3 DEF CountInv

LEMMA IdleFacts ==
    /\ Idle \in RequestRow /\ Idle.op = "idle" /\ Idle.holdsTokens = {} /\ Idle.stale = FALSE
    /\ Idle.barred = FALSE /\ HandlerInv(Idle) /\ RefusalInv(Idle) /\ ~InFlight(Idle)
<1>1. Idle \in RequestRow /\ Idle.op = "idle" /\ Idle.holdsTokens = {} /\ Idle.stale = FALSE
      /\ Idle.barred = FALSE
    BY DEF Idle, RequestRow, Phases, NoRow
<1>. QED
    BY <1>1 DEF HandlerInv, RefusalInv, InFlight

LEMMA InitIInv == SessionsInit => IInv
<1>. SUFFICES ASSUME SessionsInit PROVE IInv
    OBVIOUS
<1>. USE DEF SessionsInit
<1>1. Idle \in RequestRow /\ Idle.op = "idle" /\ Idle.holdsTokens = {} /\ ~InFlight(Idle)
      /\ HandlerInv(Idle) /\ RefusalInv(Idle)
    BY IdleFacts
<1>2. ShapeInv
  <2>1. NoNonce \in NonceRow /\ NoToken \in TokenRow /\ NoTicket \in TicketRow
      BY DEF NoNonce, NonceRow, NoToken, TokenRow, NoTicket, TicketRow, NoRow
  <2>2. tickets \in TicketTable
      BY <2>1 DEF TicketTable, NoTicket
  <2>. QED
      BY <1>1, <2>1, <2>2 DEF ShapeInv, SessionStatus
<1>3. \A r \in Requests : request[r] = Idle
    OBVIOUS
<1>4. RequestInv
    BY <1>1, <1>3 DEF RequestInv, Apart
<1>5. \A t \in Token : refreshTokens[t].session = NoRow /\ refreshTokens[t].parent = NoRow
    BY DEF NoToken
<1>6. ChainInv /\ LiveInv
    BY <1>5 DEF ChainInv, LiveInv
<1>7. GrantInv
    BY DEF GrantInv, NothingAfterRevocation, RevokedObtainsNothing, BannedObtainsNothing, NonceOpensOneSession
<1>8. CountInv
  <2>1. UsedTokens = {} /\ UsedSessions = {}
      BY <1>5 DEF UsedTokens, UsedSessions
  <2>2. Logins = {} /\ Inserting = {}
      BY <1>1, <1>3 DEF Logins, Inserting
  <2>3. Cardinality({}) = 0
      BY FS_EmptySet
  <2>4. MaxTokens \in Nat /\ MaxSessions \in Nat
      BY BoundsAssumption
  <2>. QED
      BY <2>1, <2>2, <2>3, <2>4 DEF CountInv
<1>. QED
    BY <1>2, <1>4, <1>6, <1>7, <1>8 DEF IInv

(* Room(op) is what a handler needs to start. *)
LEMMA RoomCount ==
    ASSUME IInv, NEW r \in Requests, request[r] = Idle,
           Logins' \subseteq Logins \cup {r}, Inserting' \subseteq Inserting \cup {r},
           UsedTokens' = UsedTokens, UsedSessions' = UsedSessions,
           r \in Logins' => Room("login"), r \in Inserting' => Room("login") \/ Room("refresh")
    PROVE  CountInv'
<1>. DEFINE L == {q \in Requests : request[q].op = "login"}
            R == {q \in Requests : request[q].op = "refresh"}
<1>1. /\ IsFiniteSet(L) /\ IsFiniteSet(R) /\ IsFiniteSet(Logins) /\ IsFiniteSet(Inserting)
      /\ IsFiniteSet(UsedTokens) /\ IsFiniteSet(UsedSessions)
    BY FiniteFacts
<1>2. L \cap R = {} /\ Inserting \subseteq L \cup R /\ Logins = L
    BY DEF Inserting, Logins
<1>3. /\ Cardinality(L) \in Nat /\ Cardinality(R) \in Nat /\ Cardinality(Logins) \in Nat
      /\ Cardinality(Inserting) \in Nat /\ Cardinality(UsedTokens) \in Nat /\ Cardinality(UsedSessions) \in Nat
    BY <1>1, FS_CardinalityType
<1>4. Cardinality(Inserting) <= Cardinality(L) + Cardinality(R)
  <2>1. IsFiniteSet(L \cup R) /\ Cardinality(L \cup R) = Cardinality(L) + Cardinality(R) - Cardinality(L \cap R)
      BY <1>1, FS_Union
  <2>2. Cardinality(L \cap R) = 0
      BY <1>2, FS_EmptySet
  <2>3. Cardinality(Inserting) <= Cardinality(L \cup R)
      BY <1>2, <2>1, FS_Subset
  <2>. QED
      BY <1>3, <2>1, <2>2, <2>3
<1>5. Pending("login") = Cardinality(L) /\ Pending("refresh") = Cardinality(R)
    BY DEF Pending
<1>. HIDE DEF L, R
<1>6. r \notin Logins /\ r \notin Inserting
  <2>1. request[r].op = "idle"
      BY IdleFacts
  <2>. QED
      BY <2>1 DEF Logins, Inserting
<1>7. /\ IsFiniteSet(Logins') /\ IsFiniteSet(Inserting')
      /\ Cardinality(Logins') \in Nat /\ Cardinality(Inserting') \in Nat
      /\ Cardinality(Logins') <= Cardinality(Logins) + 1
      /\ Cardinality(Inserting') <= Cardinality(Inserting) + 1
      /\ r \notin Logins' => Cardinality(Logins') <= Cardinality(Logins)
      /\ r \notin Inserting' => Cardinality(Inserting') <= Cardinality(Inserting)
  <2>1. IsFiniteSet(Logins \cup {r}) /\ Cardinality(Logins \cup {r}) = Cardinality(Logins) + 1
      BY <1>1, <1>6, FS_AddElement
  <2>2. IsFiniteSet(Inserting \cup {r}) /\ Cardinality(Inserting \cup {r}) = Cardinality(Inserting) + 1
      BY <1>1, <1>6, FS_AddElement
  <2>3. IsFiniteSet(Logins') /\ Cardinality(Logins') <= Cardinality(Logins \cup {r})
      BY <2>1, FS_Subset
  <2>4. IsFiniteSet(Inserting') /\ Cardinality(Inserting') <= Cardinality(Inserting \cup {r})
      BY <2>2, FS_Subset
  <2>5. r \notin Logins' => Cardinality(Logins') <= Cardinality(Logins)
      BY <1>1, FS_Subset
  <2>6. r \notin Inserting' => Cardinality(Inserting') <= Cardinality(Inserting)
      BY <1>1, FS_Subset
  <2>7. Cardinality(Logins') \in Nat /\ Cardinality(Inserting') \in Nat
      BY <2>3, <2>4, FS_CardinalityType
  <2>. QED
      BY <2>1, <2>2, <2>3, <2>4, <2>5, <2>6, <2>7
<1>8. MaxTokens \in Nat /\ MaxSessions \in Nat
    BY BoundsAssumption
<1>9. Cardinality(UsedSessions') + Cardinality(Logins') <= MaxSessions
  <2>1. CASE r \in Logins'
    <3>1. Cardinality(UsedSessions) + Cardinality(L) < MaxSessions
        BY <1>5, <2>1 DEF Room
    <3>. QED
        BY <1>2, <1>3, <1>7, <1>8, <3>1
  <2>2. CASE r \notin Logins'
    <3>1. Cardinality(UsedSessions) + Cardinality(Logins) <= MaxSessions
        BY DEF IInv, CountInv
    <3>. QED
        BY <1>3, <1>7, <1>8, <2>2, <3>1
  <2>. QED
      BY <2>1, <2>2
<1>10. Cardinality(UsedTokens') + Cardinality(Inserting') <= MaxTokens
  <2>1. CASE r \in Inserting'
    <3>1. Cardinality(UsedTokens) + Cardinality(L) + Cardinality(R) < MaxTokens
        BY <1>5, <2>1 DEF Room
    <3>. QED
        BY <1>3, <1>4, <1>7, <1>8, <3>1
  <2>2. CASE r \notin Inserting'
    <3>1. Cardinality(UsedTokens) + Cardinality(Inserting) <= MaxTokens
        BY DEF IInv, CountInv
    <3>. QED
        BY <1>3, <1>7, <1>8, <2>2, <3>1
  <2>. QED
      BY <2>1, <2>2
<1>. QED
    BY <1>9, <1>10 DEF CountInv

-----------------------------------------------------------------------------
(* A step of one handler that touches neither nonces nor sessions nor      *)
(* refresh tokens: what has to be shown of its new state x.                *)
LEMMA RequestStep ==
    ASSUME IInv, NEW r \in Requests, NEW x \in RequestRow, request' = [request EXCEPT ![r] = x],
           UNCHANGED <<scenario, nonces, sessions, refreshTokens>>,
           account' \in {"NONE", "ACTIVE", "BANNED"}, BannedNow => BannedNow',
           cached' \subseteq Session, tickets' \in TicketTable,
           HandlerInv(x), RefusalInv(x), \A q \in Requests : q # r => Apart(x, request[q]),
           InFlight(x) => InFlight(request[r]) /\ x.nonce = request[r].nonce,
           granted \subseteq granted',
           \A g \in granted' \ granted : g.what # "login" /\ ~g.stale /\ ~g.barred,
           CountInv'
    PROVE  IInv'
<1>. USE DEF IInv
<1>1. /\ request' \in [Requests -> RequestRow] /\ request'[r] = x
      /\ \A q \in Requests : q # r => request'[q] = request[q]
    BY DEF ShapeInv
<1>2. ShapeInv'
    BY <1>1 DEF ShapeInv
<1>3. RequestInv'
  <2>1. \A y, z : Apart(y, z) => Apart(z, y)
      BY DEF Apart
  <2>2. ASSUME NEW q \in Requests
        PROVE  HandlerInv(request[q])' /\ RefusalInv(request[q])'
    <3>1. CASE q = r
        BY <1>1, <3>1 DEF HandlerInv, RefusalInv, InFlight
    <3>2. CASE q # r
      <4>1. HandlerInv(request[q]) /\ RefusalInv(request[q]) /\ request'[q] = request[q]
          BY <1>1, <3>2 DEF RequestInv
      <4>. QED
          BY <4>1 DEF HandlerInv, RefusalInv, InFlight
    <3>. QED
        BY <3>1, <3>2
  <2>3. \A p, q \in Requests : p # q => Apart(request'[p], request'[q])
      BY <1>1, <2>1 DEF RequestInv
  <2>4. ASSUME NEW p \in Requests, NEW q \in Requests, p # q PROVE Apart(request[p], request[q])'
      BY <2>3, <2>4 DEF Apart, InFlight
  <2>. QED
      BY <2>2, <2>4 DEF RequestInv
<1>4. ChainInv' /\ LiveInv'
    BY DEF ChainInv, LiveInv, LiveTokens
<1>5. NothingAfterRevocation'
    BY DEF GrantInv, NothingAfterRevocation, RevokedObtainsNothing, BannedObtainsNothing
<1>6. \A g \in granted' : g.what = "login" => g \in granted
    OBVIOUS
<1>7. NonceOpensOneSession'
    BY <1>6 DEF GrantInv, NonceOpensOneSession
<1>8. GrantInv'
  <2>1. \A q \in Requests : InFlight(request'[q]) =>
            InFlight(request[q]) /\ request'[q].nonce = request[q].nonce
      BY <1>1
  <2>2. \A q \in Requests : InFlight(request[q])' <=> InFlight(request'[q])
      BY DEF InFlight
  <2>. QED
      BY <1>5, <1>6, <1>7, <2>1, <2>2 DEF GrantInv
<1>. QED
    BY <1>2, <1>3, <1>4, <1>8

(* A handler that goes on or ends does not wait to insert more than it did. *)
LEMMA ContinueCount ==
    ASSUME IInv, NEW r \in Requests, NEW x \in RequestRow, request' = [request EXCEPT ![r] = x],
           UNCHANGED <<sessions, refreshTokens>>,
           x.op \in {request[r].op, "idle"}, x.pc = "recache" \/ request[r].pc # "recache" \/ x.op # "refresh"
    PROVE  CountInv'
<1>1. request \in [Requests -> RequestRow]
    BY DEF IInv, ShapeInv
<1>2. request'[r] = x /\ \A q \in Requests : q # r => request'[q] = request[q]
    BY <1>1
<1>3. Logins' \subseteq Logins /\ Inserting' \subseteq Inserting
    BY <1>2 DEF Logins, Inserting
<1>4. UsedTokens' = UsedTokens /\ UsedSessions' = UsedSessions
    BY DEF UsedTokens, UsedSessions
<1>. QED
    BY <1>3, <1>4, CountStep DEF IInv

LEMMA StartCount ==
    ASSUME IInv, NEW r \in Requests, NEW x \in RequestRow, request' = [request EXCEPT ![r] = x],
           UNCHANGED <<sessions, refreshTokens>>, request[r] = Idle, Room(x.op)
    PROVE  CountInv'
<1>1. request \in [Requests -> RequestRow]
    BY DEF IInv, ShapeInv
<1>2. request'[r] = x /\ \A q \in Requests : q # r => request'[q] = request[q]
    BY <1>1
<1>3. Logins' \subseteq Logins \cup {r} /\ Inserting' \subseteq Inserting \cup {r}
    BY <1>2 DEF Logins, Inserting
<1>4. UsedTokens' = UsedTokens /\ UsedSessions' = UsedSessions
    BY DEF UsedTokens, UsedSessions
<1>5. (r \in Logins' => Room("login")) /\ (r \in Inserting' => Room("login") \/ Room("refresh"))
    BY <1>2 DEF Logins, Inserting
<1>. QED
    BY <1>3, <1>4, <1>5, RoomCount

(* A handler ends: nothing of it is left. *)
LEMMA DoneStep ==
    ASSUME IInv, NEW r \in Requests, Done(r), UNCHANGED <<scenario, nonces, sessions, refreshTokens>>,
           account' \in {"NONE", "ACTIVE", "BANNED"}, BannedNow => BannedNow',
           cached' \subseteq Session, tickets' \in TicketTable, granted \subseteq granted',
           \A g \in granted' \ granted : g.what # "login" /\ ~g.stale /\ ~g.barred
    PROVE  IInv'
<1>1. request' = [request EXCEPT ![r] = Idle]
    BY DEF Done
<1>2. /\ Idle \in RequestRow /\ Idle.op = "idle" /\ HandlerInv(Idle) /\ RefusalInv(Idle) /\ ~InFlight(Idle)
      /\ \A q \in Requests : q # r => Apart(Idle, request[q])
    BY IdleFacts DEF Apart
<1>3. CountInv'
    BY <1>1, <1>2, ContinueCount
<1>. QED
    BY <1>1, <1>2, <1>3, RequestStep

(* A handler goes on, with the tables as they are. *)
LEMMA GoStep ==
    ASSUME IInv, NEW r \in Requests, NEW x \in RequestRow, request' = [request EXCEPT ![r] = x],
           UNCHANGED <<scenario, account, nonces, sessions, refreshTokens, tickets, granted>>,
           cached' \subseteq Session,
           HandlerInv(x), RefusalInv(x), \A q \in Requests : q # r => Apart(x, request[q]),
           InFlight(x) => InFlight(request[r]) /\ x.nonce = request[r].nonce,
           \/ request[r] = Idle /\ Room(x.op)
           \/ /\ x.op = request[r].op
              /\ x.pc = "recache" \/ request[r].pc # "recache" \/ x.op # "refresh"
    PROVE  IInv'
<1>1. CountInv'
    BY StartCount, ContinueCount
<1>2. account \in {"NONE", "ACTIVE", "BANNED"} /\ tickets \in TicketTable
    BY DEF IInv, ShapeInv
<1>3. BannedNow => BannedNow'
    BY DEF BannedNow
<1>. QED
    BY <1>1, <1>2, <1>3, RequestStep

(* A handler that has just begun has locked nothing. *)
LEMMA BeginFacts ==
    ASSUME IInv, NEW r \in Requests, NEW x \in RequestRow, x.holdsTokens = {}, x.pc \notin {"consumed", "upserted"}
    PROVE  /\ \A q \in Requests : q # r => Apart(x, request[q])
           /\ ~InFlight(x)
BY DEF Apart, InFlight

LEMMA LoginReadStep ==
    ASSUME IInv, NEW r \in Requests, NEW n \in Nonce, Begin(r, "login"),
           request' = [request EXCEPT ![r] = [Idle EXCEPT !.op = "login", !.pc = "verified", !.nonce = n,
                                                          !.barred = BannedNow]],
           UNCHANGED <<scenario, account, nonces, sessions, refreshTokens, tickets, cached, granted>>
    PROVE  IInv'
<1>. DEFINE x == [Idle EXCEPT !.op = "login", !.pc = "verified", !.nonce = n, !.barred = BannedNow]
<1>1. n \in Nat
    BY DEF Nonce
<1>2. BannedNow \in BOOLEAN
    BY DEF BannedNow
<1>3. x \in RequestRow /\ x.op = "login" /\ x.pc = "verified" /\ x.nonce = n /\ x.barred = BannedNow
      /\ x.holdsTokens = {} /\ x.stale = FALSE
    BY <1>1, <1>2 DEF Idle, RequestRow, Phases, NoRow
<1>4. request' = [request EXCEPT ![r] = x]
    OBVIOUS
<1>. HIDE DEF x
<1>5. HandlerInv(x) /\ RefusalInv(x)
    BY <1>3 DEF HandlerInv, RefusalInv, InFlight
<1>6. (\A q \in Requests : q # r => Apart(x, request[q])) /\ ~InFlight(x)
    BY <1>3, BeginFacts
<1>7. request[r] = Idle /\ Room(x.op) /\ cached' \subseteq Session
    BY <1>3 DEF Begin, IInv, ShapeInv
<1>. QED
    BY <1>3, <1>4, <1>5, <1>6, <1>7, GoStep

LEMMA BeginRefreshStep ==
    ASSUME IInv, NEW r \in Requests, NEW t \in Token, BeginRefresh(r, t)
    PROVE  IInv'
<1>. DEFINE s == refreshTokens[t].session
            old == sessions[s] = "REVOKED"
            x == [Idle EXCEPT !.op = "refresh", !.pc = "found", !.token = t, !.session = s,
                              !.stale = old, !.barred = BannedNow]
<1>1. s \in Session
  <2>1. s \in Session \cup {NoRow} /\ s # NoRow
      BY DEF IInv, ShapeInv, TokenRow, BeginRefresh
  <2>. QED
      BY <2>1
<1>2. BannedNow \in BOOLEAN /\ old \in BOOLEAN
    BY DEF BannedNow
<1>3. request' = [request EXCEPT ![r] = x]
    BY DEF BeginRefresh
<1>. HIDE DEF s, old
<1>4. x \in RequestRow /\ x.op = "refresh" /\ x.pc = "found" /\ x.token = t /\ x.session = s
      /\ x.barred = BannedNow /\ x.stale = old /\ x.holdsTokens = {}
    BY <1>1, <1>2 DEF Idle, RequestRow, Phases, NoRow
<1>. HIDE DEF x
<1>5. HandlerInv(x) /\ RefusalInv(x)
    BY <1>1, <1>4 DEF HandlerInv, RefusalInv, InFlight, s, old
<1>6. (\A q \in Requests : q # r => Apart(x, request[q])) /\ ~InFlight(x)
    BY <1>4, BeginFacts
<1>7. request[r] = Idle /\ Room(x.op) /\ cached' \subseteq Session
      /\ UNCHANGED <<scenario, account, nonces, sessions, refreshTokens, tickets, granted>>
    BY <1>4 DEF BeginRefresh, Begin, IInv, ShapeInv
<1>. QED
    BY <1>3, <1>4, <1>5, <1>6, <1>7, GoStep

LEMMA BeginLogoutStep ==
    ASSUME IInv, NEW r \in Requests, NEW s \in Session, BeginLogout(r, s)
    PROVE  IInv'
<1>. DEFINE x == [Idle EXCEPT !.op = "logout", !.pc = "session", !.session = s]
<1>1. x \in RequestRow /\ x.op = "logout" /\ x.pc = "session" /\ x.session = s
      /\ x.barred = FALSE /\ x.stale = FALSE /\ x.holdsTokens = {} /\ x.todo = {}
    BY DEF Idle, RequestRow, Phases, NoRow
<1>2. request' = [request EXCEPT ![r] = x]
    BY DEF BeginLogout
<1>. HIDE DEF x
<1>3. HandlerInv(x) /\ RefusalInv(x)
    BY <1>1 DEF HandlerInv, RefusalInv, InFlight, BeginLogout
<1>4. (\A q \in Requests : q # r => Apart(x, request[q])) /\ ~InFlight(x)
    BY <1>1, BeginFacts
<1>5. request[r] = Idle /\ Room(x.op) /\ cached' \subseteq Session
      /\ UNCHANGED <<scenario, account, nonces, sessions, refreshTokens, tickets, granted>>
    BY <1>1 DEF BeginLogout, Begin, IInv, ShapeInv
<1>. QED
    BY <1>1, <1>2, <1>3, <1>4, <1>5, GoStep

LEMMA BeginLaunchStep ==
    ASSUME IInv, NEW r \in Requests, NEW s \in Session, NEW server \in Servers, BeginLaunch(r, s, server)
    PROVE  IInv'
<1>. DEFINE old == sessions[s] = "REVOKED"
            x == [Idle EXCEPT !.op = "launch", !.pc = "cache", !.session = s, !.server = server,
                              !.stale = old, !.barred = BannedNow]
<1>1. ~BannedNow /\ ~old /\ BannedNow \in BOOLEAN /\ old \in BOOLEAN
    BY DEF BeginLaunch, RequireActiveSession, BannedNow
<1>2. request' = [request EXCEPT ![r] = x]
    BY DEF BeginLaunch
<1>. HIDE DEF old
<1>3. x \in RequestRow /\ x.op = "launch" /\ x.pc = "cache" /\ x.session = s
      /\ x.barred = BannedNow /\ x.stale = old /\ x.holdsTokens = {}
    BY <1>1 DEF Idle, RequestRow, Phases, NoRow
<1>. HIDE DEF x
<1>4. HandlerInv(x) /\ RefusalInv(x)
    BY <1>1, <1>3 DEF HandlerInv, RefusalInv, InFlight
<1>5. (\A q \in Requests : q # r => Apart(x, request[q])) /\ ~InFlight(x)
    BY <1>3, BeginFacts
<1>6. request[r] = Idle /\ Room(x.op) /\ cached' \subseteq Session
      /\ UNCHANGED <<scenario, account, nonces, sessions, refreshTokens, tickets, granted>>
    BY <1>3 DEF BeginLaunch, Begin, IInv, ShapeInv
<1>. QED
    BY <1>2, <1>3, <1>4, <1>5, <1>6, GoStep

LEMMA BeginConsumeStep ==
    ASSUME IInv, NEW r \in Requests, NEW k \in Ticket, NEW server \in Servers, BeginConsumeTicket(r, k, server)
    PROVE  IInv'
<1>. DEFINE s == tickets[k].session
            old == sessions[s] = "REVOKED"
            x == [Idle EXCEPT !.op = "consume", !.pc = "check", !.ticket = k, !.session = s,
                              !.stale = old, !.barred = BannedNow]
<1>1. s \in Session /\ k \in Nat
  <2>1. s \in Session
      BY DEF IInv, ShapeInv, TicketTable, BeginConsumeTicket
  <2>. QED
      BY <2>1 DEF Ticket
<1>2. ~old /\ BannedNow \in BOOLEAN /\ old \in BOOLEAN
    BY DEF BeginConsumeTicket, BannedNow
<1>3. request' = [request EXCEPT ![r] = x]
    BY DEF BeginConsumeTicket
<1>. HIDE DEF s, old
<1>4. x \in RequestRow /\ x.op = "consume" /\ x.pc = "check" /\ x.session = s
      /\ x.barred = BannedNow /\ x.stale = old /\ x.holdsTokens = {}
    BY <1>1, <1>2 DEF Idle, RequestRow, Phases, NoRow
<1>. HIDE DEF x
<1>5. HandlerInv(x) /\ RefusalInv(x)
    BY <1>1, <1>2, <1>4 DEF HandlerInv, RefusalInv, InFlight
<1>6. (\A q \in Requests : q # r => Apart(x, request[q])) /\ ~InFlight(x)
    BY <1>4, BeginFacts
<1>7. /\ request[r] = Idle /\ Room(x.op) /\ cached' \subseteq Session
      /\ UNCHANGED <<scenario, account, nonces, sessions, refreshTokens, granted>>
      /\ account' \in {"NONE", "ACTIVE", "BANNED"} /\ (BannedNow => BannedNow')
    BY <1>4 DEF BeginConsumeTicket, Begin, IInv, ShapeInv, BannedNow
<1>8. tickets' \in TicketTable
  <2>1. tickets \in [Ticket -> TicketRow] /\ tickets[k] \in TicketRow
      BY DEF IInv, ShapeInv, TicketTable
  <2>. DEFINE y == [tickets[k] EXCEPT !.status = "CONSUMED"]
  <2>2. y \in TicketRow /\ y.session = s
      BY <2>1 DEF TicketRow, s
  <2>3. tickets' = [tickets EXCEPT ![k] = y]
      BY DEF BeginConsumeTicket
  <2>. HIDE DEF y
  <2>4. /\ tickets' \in [Ticket -> TicketRow] /\ tickets'[k] = y
        /\ \A j \in Ticket : j # k => tickets'[j] = tickets[j]
      BY <2>1, <2>2, <2>3
  <2>. QED
      BY <1>1, <2>2, <2>4 DEF IInv, ShapeInv, TicketTable
<1>9. CountInv'
    BY <1>3, <1>4, <1>7, StartCount
<1>. QED
    BY <1>3, <1>4, <1>5, <1>6, <1>7, <1>8, <1>9, RequestStep

(* Handlers that end without touching nonces, sessions or tokens: a failed *)
(* check, a crash, a report, and the grant of a ticket or of an entry.     *)
LEMMA HandlerFacts ==
    ASSUME IInv, NEW r \in Requests
    PROVE  /\ request[r] \in RequestRow /\ request \in [Requests -> RequestRow]
           /\ HandlerInv(request[r]) /\ RefusalInv(request[r])
           /\ \A q \in Requests : q # r => Apart(request[r], request[q])
           /\ account \in {"NONE", "ACTIVE", "BANNED"} /\ cached \subseteq Session
           /\ tickets \in TicketTable /\ sessions \in [Session -> SessionStatus]
           /\ refreshTokens \in [Token -> TokenRow]
BY DEF IInv, ShapeInv, RequestInv

LEMMA PlainDone ==
    ASSUME IInv, NEW r \in Requests, Done(r), cached' \subseteq Session,
           UNCHANGED <<scenario, account, nonces, sessions, refreshTokens, tickets, granted>>
    PROVE  IInv'
<1>1. account' \in {"NONE", "ACTIVE", "BANNED"} /\ (BannedNow => BannedNow') /\ tickets' \in TicketTable
    BY HandlerFacts DEF BannedNow
<1>. QED
    BY <1>1, DoneStep

LEMMA EndSteps ==
    ASSUME IInv, NEW r \in Requests, RefreshRecache(r) \/ LogoutReport(r) \/ Abort(r)
    PROVE  IInv'
<1>. USE HandlerFacts
<1>1. CASE RefreshRecache(r)
  <2>1. request[r].session \in Session
      BY <1>1 DEF RefreshRecache, At, HandlerInv
  <2>2. cached' \subseteq Session
      BY <1>1, <2>1 DEF RefreshRecache
  <2>. QED
      BY <1>1, <2>2, PlainDone DEF RefreshRecache
<1>2. CASE LogoutReport(r)
  <2>1. cached' \subseteq Session
      BY <1>2 DEF LogoutReport
  <2>. QED
      BY <1>2, <2>1, PlainDone DEF LogoutReport
<1>3. CASE Abort(r)
    BY <1>3, PlainDone DEF Abort
<1>. QED
    BY <1>1, <1>2, <1>3

LEMMA SaveTicketStep ==
    ASSUME IInv, NEW r \in Requests, LaunchSaveTicket(r)
    PROVE  IInv'
<1>1. /\ request[r].op = "launch" /\ request[r] \in RequestRow /\ HandlerInv(request[r])
      /\ RefusalInv(request[r]) /\ request[r].session \in Session
    BY HandlerFacts DEF LaunchSaveTicket, At, HandlerInv
<1>2. ~request[r].stale /\ ~request[r].barred
    BY <1>1 DEF RefusalInv
<1>. DEFINE y == [status |-> "ACTIVE", session |-> request[r].session,
                  server |-> request[r].server, lapsed |-> FALSE]
            k == NewId(UsedTickets, Ticket)
<1>3. y \in TicketRow /\ y.session \in Session
    BY <1>1 DEF TicketRow, RequestRow
<1>4. tickets' = [tickets EXCEPT ![k] = y]
    BY DEF LaunchSaveTicket
<1>. HIDE DEF y, k
<1>5. tickets' \in TicketTable
  <2>1. tickets \in [Ticket -> TicketRow]
      BY HandlerFacts DEF TicketTable
  <2>2. tickets' \in [Ticket -> TicketRow] /\ \A j \in Ticket : tickets'[j] \in {y, tickets[j]}
      BY <1>3, <1>4, <2>1
  <2>. QED
      BY <1>3, <2>2, HandlerFacts DEF TicketTable
<1>. DEFINE g == [what |-> "launch", stale |-> request[r].stale, barred |-> request[r].barred]
<1>6. granted' = granted \cup {g} /\ g.what # "login" /\ g.stale = request[r].stale /\ g.barred = request[r].barred
    BY DEF LaunchSaveTicket, Grant
<1>. HIDE DEF g
<1>7. granted \subseteq granted' /\ \A h \in granted' \ granted : h.what # "login" /\ ~h.stale /\ ~h.barred
    BY <1>2, <1>6
<1>8. account' \in {"NONE", "ACTIVE", "BANNED"} /\ (BannedNow => BannedNow') /\ cached' \subseteq Session
    BY HandlerFacts DEF BannedNow, LaunchSaveTicket
<1>. QED
    BY <1>5, <1>7, <1>8, DoneStep DEF LaunchSaveTicket

LEMMA AdmitStep ==
    ASSUME IInv, NEW r \in Requests, ConsumeTicketAdmit(r)
    PROVE  IInv'
<1>1. request[r].op = "consume" /\ RefusalInv(request[r])
    BY HandlerFacts DEF ConsumeTicketAdmit, At
<1>2. /\ account' \in {"NONE", "ACTIVE", "BANNED"} /\ (BannedNow => BannedNow') /\ cached' \subseteq Session
      /\ tickets' \in TicketTable
    BY HandlerFacts DEF BannedNow, ConsumeTicketAdmit
<1>3. CASE BannedNow
    BY <1>3, <1>2, DoneStep DEF ConsumeTicketAdmit
<1>4. CASE ~BannedNow
  <2>1. ~request[r].stale /\ ~request[r].barred
      BY <1>1, <1>4 DEF RefusalInv
  <2>. DEFINE g == [what |-> "enter", stale |-> request[r].stale, barred |-> request[r].barred]
  <2>2. granted' = granted \cup {g} /\ g.what # "login" /\ g.stale = request[r].stale /\ g.barred = request[r].barred
      BY <1>4 DEF ConsumeTicketAdmit, Grant
  <2>. HIDE DEF g
  <2>3. granted \subseteq granted' /\ \A h \in granted' \ granted : h.what # "login" /\ ~h.stale /\ ~h.barred
      BY <2>1, <2>2
  <2>. QED
      BY <1>2, <2>3, DoneStep DEF ConsumeTicketAdmit
<1>. QED
    BY <1>3, <1>4

LEMMA UpsertStep ==
    ASSUME IInv, NEW r \in Requests, UpsertAccountByWallet(r)
    PROVE  IInv'
<1>1. /\ request[r].op = "login" /\ request[r].pc = "consumed"
      /\ request[r] \in RequestRow /\ request \in [Requests -> RequestRow]
      /\ HandlerInv(request[r]) /\ RefusalInv(request[r])
      /\ \A q \in Requests : q # r => Apart(request[r], request[q])
    BY HandlerFacts DEF UpsertAccountByWallet, At
<1>2. /\ account' \in {"NONE", "ACTIVE", "BANNED"} /\ (BannedNow => BannedNow') /\ cached' \subseteq Session
      /\ tickets' \in TicketTable /\ UNCHANGED <<scenario, nonces, sessions, refreshTokens, granted>>
    BY HandlerFacts DEF BannedNow, UpsertAccountByWallet
<1>3. CASE BannedNow
    BY <1>3, <1>2, DoneStep DEF UpsertAccountByWallet
<1>4. CASE ~BannedNow
  <2>. DEFINE x == [request[r] EXCEPT !.pc = "upserted"]
  <2>1. request' = [request EXCEPT ![r] = x]
      BY <1>1, <1>4 DEF UpsertAccountByWallet, Goto
  <2>2. /\ x \in RequestRow /\ x.op = "login" /\ x.pc = "upserted" /\ x.nonce = request[r].nonce
        /\ x.holdsTokens = request[r].holdsTokens /\ x.stale = request[r].stale
        /\ x.barred = request[r].barred
      BY <1>1 DEF RequestRow, Phases
  <2>. HIDE DEF x
  <2>3. HandlerInv(x)
      BY <1>1, <2>2 DEF HandlerInv, InFlight
  <2>4. RefusalInv(x)
      BY <1>1, <1>4, <2>2 DEF RefusalInv
  <2>5. \A q \in Requests : q # r => Apart(x, request[q])
      BY <1>1, <2>2 DEF Apart, InFlight
  <2>6. InFlight(request[r])
      BY <1>1 DEF InFlight
  <2>7. CountInv'
      BY <1>1, <1>2, <2>1, <2>2, ContinueCount
  <2>. QED
      BY <1>2, <2>1, <2>2, <2>3, <2>4, <2>5, <2>6, <2>7, RequestStep
<1>. QED
    BY <1>3, <1>4

(* Handlers that go on: each new state differs from the old in a few       *)
(* fields.                                                                 *)
LEMMA RefreshChecksStep ==
    ASSUME IInv, NEW r \in Requests, RefreshChecks(r)
    PROVE  IInv'
<1>1. /\ request[r].op = "refresh" /\ request[r].pc = "found"
      /\ request[r] \in RequestRow /\ request \in [Requests -> RequestRow]
      /\ HandlerInv(request[r]) /\ RefusalInv(request[r])
      /\ \A q \in Requests : q # r => Apart(request[r], request[q])
      /\ cached' \subseteq Session
      /\ UNCHANGED <<scenario, account, nonces, sessions, refreshTokens, tickets, granted>>
    BY HandlerFacts DEF RefreshChecks, At
<1>2. CASE sessions[request[r].session] = "ACTIVE" /\ ~BannedNow
  <2>. DEFINE x == [request[r] EXCEPT !.pc = "rotate"]
  <2>1. request' = [request EXCEPT ![r] = x]
      BY <1>1, <1>2 DEF RefreshChecks, Goto
  <2>2. /\ x \in RequestRow /\ x.op = "refresh" /\ x.pc = "rotate" /\ x.token = request[r].token
        /\ x.session = request[r].session /\ x.holdsTokens = request[r].holdsTokens
        /\ x.stale = request[r].stale /\ x.barred = request[r].barred
      BY <1>1 DEF RequestRow, Phases
  <2>. HIDE DEF x
  <2>3. HandlerInv(x) /\ ~InFlight(x)
      BY <1>1, <2>2 DEF HandlerInv, InFlight
  <2>4. RefusalInv(x)
      BY <1>1, <1>2, <2>2 DEF RefusalInv
  <2>5. \A q \in Requests : q # r => Apart(x, request[q])
      BY <1>1, <2>2, <2>3 DEF Apart
  <2>. QED
      BY <1>1, <2>1, <2>2, <2>3, <2>4, <2>5, GoStep
<1>3. CASE ~(sessions[request[r].session] = "ACTIVE" /\ ~BannedNow)
    BY <1>1, <1>3, PlainDone DEF RefreshChecks
<1>. QED
    BY <1>2, <1>3

LEMMA RotateLockTokenStep ==
    ASSUME IInv, NEW r \in Requests, RotateLockToken(r)
    PROVE  IInv'
<1>1. /\ request[r].op = "refresh" /\ request[r].pc = "rotate"
      /\ request[r] \in RequestRow /\ request \in [Requests -> RequestRow]
      /\ HandlerInv(request[r]) /\ RefusalInv(request[r])
      /\ cached' \subseteq Session
      /\ UNCHANGED <<scenario, account, nonces, sessions, refreshTokens, tickets, granted>>
    BY HandlerFacts DEF RotateLockToken, At
<1>2. CASE ~refreshTokens[request[r].token].revoked
  <2>. DEFINE x == [request[r] EXCEPT !.pc = "touch", !.holdsTokens = {request[r].token}]
  <2>1. request' = [request EXCEPT ![r] = x]
      BY <1>1, <1>2 DEF RotateLockToken
  <2>2. {request[r].token} \in SUBSET Token
      BY <1>1 DEF HandlerInv
  <2>3. /\ x \in RequestRow /\ x.op = "refresh" /\ x.pc = "touch" /\ x.token = request[r].token
        /\ x.session = request[r].session /\ x.holdsTokens = {request[r].token}
        /\ x.stale = request[r].stale /\ x.barred = request[r].barred
      BY <1>1, <2>2 DEF RequestRow, Phases
  <2>. HIDE DEF x
  <2>4. HandlerInv(x) /\ ~InFlight(x)
      BY <1>1, <1>2, <2>3 DEF HandlerInv, InFlight
  <2>5. RefusalInv(x)
      BY <1>1, <2>3 DEF RefusalInv
  <2>6. \A q \in Requests : q # r => Apart(x, request[q])
    <3>1. \A q \in Requests : request[r].token \notin request[q].holdsTokens
        BY DEF RotateLockToken, TokenFree
    <3>. QED
        BY <2>3, <2>4, <3>1 DEF Apart
  <2>. QED
      BY <1>1, <2>1, <2>3, <2>4, <2>5, <2>6, GoStep
<1>3. CASE refreshTokens[request[r].token].revoked
    BY <1>1, <1>3, PlainDone DEF RotateLockToken
<1>. QED
    BY <1>2, <1>3

LEMMA TouchSessionStep ==
    ASSUME IInv, NEW r \in Requests, RotateTouchSession(r)
    PROVE  IInv'
<1>1. /\ request[r].op = "refresh" /\ request[r].pc = "touch"
      /\ request[r] \in RequestRow /\ request \in [Requests -> RequestRow]
      /\ HandlerInv(request[r]) /\ RefusalInv(request[r])
      /\ \A q \in Requests : q # r => Apart(request[r], request[q])
      /\ cached' \subseteq Session
      /\ UNCHANGED <<scenario, account, nonces, sessions, refreshTokens, tickets, granted>>
    BY HandlerFacts DEF RotateTouchSession, At
<1>. DEFINE x == [request[r] EXCEPT !.pc = "commit", !.holdsSession = TRUE]
<1>2. request' = [request EXCEPT ![r] = x]
    BY <1>1 DEF RotateTouchSession
<1>3. /\ x \in RequestRow /\ x.op = "refresh" /\ x.pc = "commit" /\ x.token = request[r].token
      /\ x.session = request[r].session /\ x.holdsTokens = request[r].holdsTokens
      /\ x.stale = request[r].stale /\ x.barred = request[r].barred
    BY <1>1 DEF RequestRow, Phases
<1>. HIDE DEF x
<1>4. HandlerInv(x) /\ ~InFlight(x)
    BY <1>1, <1>3 DEF HandlerInv, InFlight
<1>5. RefusalInv(x)
    BY <1>1, <1>3 DEF RefusalInv
<1>6. \A q \in Requests : q # r => Apart(x, request[q])
    BY <1>1, <1>3, <1>4 DEF Apart
<1>. QED
    BY <1>1, <1>2, <1>3, <1>4, <1>5, <1>6, GoStep

(* The transaction of a logout: the session, the snapshot, the tokens. *)
LEMMA LogoutGoes ==
    ASSUME IInv, NEW r \in Requests, request[r].op = "logout", NEW x \in RequestRow,
           request' = [request EXCEPT ![r] = x],
           UNCHANGED <<scenario, account, nonces, sessions, refreshTokens, tickets, cached, granted>>,
           x.op = "logout", x.session = request[r].session, x.stale = request[r].stale,
           x.barred = request[r].barred,
           \A q \in Requests : q # r => x.holdsTokens \cap request[q].holdsTokens = {},
           \A t \in x.holdsTokens : ~refreshTokens[t].revoked,
           \A t \in x.holdsTokens \cup x.todo : refreshTokens[t].session = x.session,
           x.pc \in {"snapshot", "tokens"} /\ ~x.holdsSession => sessions[x.session] # "ACTIVE"
    PROVE  IInv'
<1>1. ~InFlight(x) /\ \A q \in Requests : q # r => Apart(x, request[q])
    BY DEF InFlight, Apart
<1>2. HandlerInv(x) /\ RefusalInv(x)
    BY HandlerFacts DEF HandlerInv, InFlight, RefusalInv
<1>3. cached' \subseteq Session
    BY HandlerFacts
<1>. QED
    BY <1>1, <1>2, <1>3, GoStep

LEMMA LogoutSteps ==
    ASSUME IInv, NEW r \in Requests,
           RevokeLockSession(r) \/ RevokeSnapshot(r) \/ \E t \in Token : RevokeLockToken(r, t)
    PROVE  IInv'
<1>1. /\ request[r].op = "logout"
      /\ request[r] \in RequestRow /\ request \in [Requests -> RequestRow]
      /\ HandlerInv(request[r])
      /\ \A q \in Requests : q # r => request[r].holdsTokens \cap request[q].holdsTokens = {}
      /\ UNCHANGED <<scenario, account, nonces, sessions, refreshTokens, tickets, cached, granted>>
    BY HandlerFacts DEF RevokeLockSession, RevokeSnapshot, RevokeLockToken, At, Apart
<1>2. /\ \A t \in request[r].holdsTokens : ~refreshTokens[t].revoked
      /\ \A t \in request[r].holdsTokens \cup request[r].todo : refreshTokens[t].session = request[r].session
    BY <1>1 DEF HandlerInv
<1>3. CASE RevokeLockSession(r)
  <2>. DEFINE active == sessions[request[r].session] = "ACTIVE"
              x == [request[r] EXCEPT !.pc = "snapshot", !.holdsSession = active]
  <2>1. active \in BOOLEAN /\ request' = [request EXCEPT ![r] = x]
      BY <1>1, <1>3 DEF RevokeLockSession
  <2>. HIDE DEF active
  <2>2. /\ x \in RequestRow /\ x.op = "logout" /\ x.session = request[r].session
        /\ x.stale = request[r].stale /\ x.barred = request[r].barred
        /\ x.holdsTokens = request[r].holdsTokens /\ x.holdsSession = active /\ x.todo = request[r].todo
      BY <1>1, <2>1 DEF RequestRow, Phases
  <2>. HIDE DEF x
  <2>3. ~x.holdsSession => sessions[x.session] # "ACTIVE"
      BY <2>2 DEF active
  <2>4. /\ \A q \in Requests : q # r => x.holdsTokens \cap request[q].holdsTokens = {}
        /\ \A t \in x.holdsTokens : ~refreshTokens[t].revoked
        /\ \A t \in x.holdsTokens \cup x.todo : refreshTokens[t].session = x.session
      BY <1>1, <1>2, <2>2
  <2>. QED
      BY <1>1, <2>1, <2>2, <2>3, <2>4, LogoutGoes
<1>4. CASE RevokeSnapshot(r)
  <2>. DEFINE todo == LiveTokens(request[r].session)
              x == [request[r] EXCEPT !.pc = "tokens", !.todo = todo]
  <2>1. todo \in SUBSET Token /\ request[r].pc = "snapshot"
        /\ \A t \in todo : refreshTokens[t].session = request[r].session
      BY <1>4 DEF LiveTokens, RevokeSnapshot, At
  <2>2. request' = [request EXCEPT ![r] = x]
      BY <1>1, <1>4 DEF RevokeSnapshot
  <2>. HIDE DEF todo
  <2>3. /\ x \in RequestRow /\ x.op = "logout" /\ x.session = request[r].session
        /\ x.stale = request[r].stale /\ x.barred = request[r].barred
        /\ x.holdsTokens = request[r].holdsTokens /\ x.holdsSession = request[r].holdsSession
        /\ x.todo = todo
      BY <1>1, <2>1 DEF RequestRow, Phases
  <2>. HIDE DEF x
  <2>4. ~x.holdsSession => sessions[x.session] # "ACTIVE"
      BY <1>1, <2>1, <2>3 DEF HandlerInv
  <2>5. /\ \A q \in Requests : q # r => x.holdsTokens \cap request[q].holdsTokens = {}
        /\ \A t \in x.holdsTokens : ~refreshTokens[t].revoked
        /\ \A t \in x.holdsTokens \cup x.todo : refreshTokens[t].session = x.session
      BY <1>1, <1>2, <2>1, <2>3
  <2>. QED
      BY <1>1, <2>2, <2>3, <2>4, <2>5, LogoutGoes
<1>5. CASE \E t \in Token : RevokeLockToken(r, t)
  <2>1. PICK t \in Token : RevokeLockToken(r, t)
      BY <1>5
  <2>. DEFINE holds == IF refreshTokens[t].revoked THEN request[r].holdsTokens
                       ELSE request[r].holdsTokens \cup {t}
              x == [request[r] EXCEPT !.todo = @ \ {t}, !.holdsTokens = holds]
  <2>2. /\ request[r].pc = "tokens" /\ \A q \in Requests : t \notin request[q].holdsTokens
        /\ t \in request[r].todo
      BY <2>1 DEF RevokeLockToken, At, TokenFree
  <2>3. request' = [request EXCEPT ![r] = x]
      BY <1>1, <2>1 DEF RevokeLockToken
  <2>4. holds \in SUBSET Token
      BY <1>1 DEF RequestRow
  <2>5. (\A q \in Requests : q # r => holds \cap request[q].holdsTokens = {})
        /\ \A u \in holds : ~refreshTokens[u].revoked /\ refreshTokens[u].session = request[r].session
      BY <1>1, <1>2, <2>2
  <2>. HIDE DEF holds
  <2>6. /\ x \in RequestRow /\ x.op = "logout" /\ x.session = request[r].session
        /\ x.stale = request[r].stale /\ x.barred = request[r].barred
        /\ x.holdsTokens = holds /\ x.holdsSession = request[r].holdsSession
        /\ x.todo = request[r].todo \ {t}
      BY <1>1, <2>4 DEF RequestRow, Phases
  <2>. HIDE DEF x
  <2>7. ~x.holdsSession => sessions[x.session] # "ACTIVE"
      BY <1>1, <2>2, <2>6 DEF HandlerInv
  <2>8. /\ \A q \in Requests : q # r => x.holdsTokens \cap request[q].holdsTokens = {}
        /\ \A u \in x.holdsTokens : ~refreshTokens[u].revoked
        /\ \A u \in x.holdsTokens \cup x.todo : refreshTokens[u].session = x.session
      BY <1>2, <2>5, <2>6
  <2>. QED
      BY <1>1, <2>3, <2>6, <2>7, <2>8, LogoutGoes
<1>. QED
    BY <1>3, <1>4, <1>5

LEMMA DeadlockVictimStep ==
    ASSUME IInv, NEW r \in Requests, DeadlockVictim(r)
    PROVE  IInv'
<1>1. /\ request[r] \in RequestRow /\ request \in [Requests -> RequestRow] /\ cached' \subseteq Session
      /\ UNCHANGED <<scenario, account, nonces, sessions, refreshTokens, tickets, cached, granted>>
    BY HandlerFacts DEF DeadlockVictim
<1>2. CASE request[r].op = "logout"
  <2>. DEFINE x == [request[r] EXCEPT !.pc = "uncache", !.holdsSession = FALSE, !.holdsTokens = {},
                                      !.todo = {}]
  <2>1. request' = [request EXCEPT ![r] = x]
      BY <1>1, <1>2 DEF DeadlockVictim
  <2>2. /\ x \in RequestRow /\ x.op = "logout" /\ x.session = request[r].session /\ x.pc = "uncache"
        /\ x.stale = request[r].stale /\ x.barred = request[r].barred /\ x.holdsTokens = {}
        /\ x.todo = {}
      BY <1>1, <1>2 DEF RequestRow, Phases
  <2>. HIDE DEF x
  <2>. QED
      BY <1>1, <1>2, <2>1, <2>2, LogoutGoes
<1>3. CASE request[r].op # "logout"
  <2>1. Done(r)
      BY <1>1, <1>3 DEF DeadlockVictim, Done
  <2>. QED
      BY <1>1, <2>1, PlainDone
<1>. QED
    BY <1>2, <1>3

LEMMA LaunchCacheStep ==
    ASSUME IInv, NEW r \in Requests, LaunchCache(r)
    PROVE  IInv'
<1>1. /\ request[r].op = "launch" /\ request[r].pc = "cache"
      /\ request[r] \in RequestRow /\ request \in [Requests -> RequestRow]
      /\ HandlerInv(request[r]) /\ RefusalInv(request[r])
      /\ \A q \in Requests : q # r => Apart(request[r], request[q])
      /\ UNCHANGED <<scenario, account, nonces, sessions, refreshTokens, tickets, granted>>
    BY HandlerFacts DEF LaunchCache, At
<1>2. cached' \subseteq Session
    BY <1>1, HandlerFacts DEF LaunchCache, HandlerInv
<1>. DEFINE x == [request[r] EXCEPT !.pc = "save"]
<1>3. request' = [request EXCEPT ![r] = x]
    BY <1>1 DEF LaunchCache, Goto
<1>4. /\ x \in RequestRow /\ x.op = "launch" /\ x.pc = "save" /\ x.session = request[r].session
      /\ x.holdsTokens = request[r].holdsTokens
      /\ x.stale = request[r].stale /\ x.barred = request[r].barred
    BY <1>1 DEF RequestRow, Phases
<1>. HIDE DEF x
<1>5. HandlerInv(x) /\ ~InFlight(x)
    BY <1>1, <1>4 DEF HandlerInv, InFlight
<1>6. RefusalInv(x)
    BY <1>1, <1>4 DEF RefusalInv
<1>7. \A q \in Requests : q # r => Apart(x, request[q])
    BY <1>1, <1>4, <1>5 DEF Apart
<1>. QED
    BY <1>1, <1>2, <1>3, <1>4, <1>5, <1>6, <1>7, GoStep

-----------------------------------------------------------------------------
(* Steps outside the handlers' own: nonces are issued and expire, the      *)
(* clock passes, an administrator revokes the sessions.                    *)
LEMMA TablesStep ==
    ASSUME IInv, UNCHANGED <<scenario, account, cached, request, granted>>,
           nonces' \in [Nonce -> NonceRow],
           \A n \in Nonce : nonces[n].status = "CONSUMED" => nonces'[n].status = "CONSUMED",
           tickets' \in TicketTable,
           sessions' \in [Session -> SessionStatus],
           \A s \in Session : \/ sessions'[s] = sessions[s]
                              \/ sessions[s] = "ACTIVE" /\ sessions'[s] = "REVOKED",
           refreshTokens' \in [Token -> TokenRow],
           \A t \in Token : /\ refreshTokens'[t].session = refreshTokens[t].session
                            /\ refreshTokens'[t].revoked = refreshTokens[t].revoked
                            /\ refreshTokens'[t].parent = refreshTokens[t].parent
    PROVE  IInv'
<1>. USE DEF IInv
<1>1. ShapeInv'
    BY DEF ShapeInv
<1>2. RequestInv'
  <2>1. ASSUME NEW r \in Requests PROVE HandlerInv(request[r])' /\ RefusalInv(request[r])'
    <3>1. /\ request[r] \in RequestRow /\ HandlerInv(request[r]) /\ RefusalInv(request[r])
          /\ request'[r] = request[r]
        BY HandlerFacts
    <3>2. request[r].holdsTokens \cup request[r].todo \subseteq Token
        BY <3>1 DEF RequestRow
    <3>3. request[r].op = "logout" =>
            \A t \in request[r].holdsTokens \cup request[r].todo : refreshTokens'[t].session = request[r].session
        BY <3>1, <3>2 DEF HandlerInv
    <3>4. HandlerInv(request[r])'
        BY <3>1, <3>2, <3>3 DEF HandlerInv, InFlight
    <3>5. RefusalInv(request[r])'
        BY <3>1 DEF RefusalInv, HandlerInv, BannedNow
    <3>. QED
        BY <3>4, <3>5
  <2>2. ASSUME NEW p \in Requests, NEW q \in Requests, p # q PROVE Apart(request[p], request[q])'
      BY <2>2 DEF RequestInv, Apart, InFlight
  <2>. QED
      BY <2>1, <2>2 DEF RequestInv
<1>3. ChainInv'
  <2>1. \A t \in Token : refreshTokens[t].session # NoRow => refreshTokens[t].session \in Session
      BY DEF ShapeInv, TokenRow
  <2>. QED
      BY <2>1 DEF ChainInv
<1>4. LiveInv'
  <2>1. \A s : LiveTokens(s)' = LiveTokens(s)
      BY DEF LiveTokens
  <2>. QED
      BY <2>1 DEF LiveInv
<1>5. GrantInv'
  <2>1. NothingAfterRevocation' /\ NonceOpensOneSession'
      BY DEF GrantInv, NothingAfterRevocation, RevokedObtainsNothing, BannedObtainsNothing, NonceOpensOneSession
  <2>2. \A r \in Requests : InFlight(request[r])' <=> InFlight(request[r])
      BY DEF InFlight
  <2>. QED
      BY <2>1, <2>2 DEF GrantInv
<1>6. CountInv'
  <2>1. Logins' \subseteq Logins /\ Inserting' \subseteq Inserting
      BY DEF Logins, Inserting
  <2>2. UsedTokens' = UsedTokens
      BY DEF UsedTokens
  <2>3. UsedSessions' = UsedSessions
      BY DEF UsedSessions
  <2>. QED
      BY <2>1, <2>2, <2>3, CountStep
<1>. QED
    BY <1>1, <1>2, <1>3, <1>4, <1>5, <1>6

(* The rows of the tables as they are. *)
LEMMA TableFacts ==
    ASSUME IInv
    PROVE  /\ nonces \in [Nonce -> NonceRow] /\ tickets \in TicketTable
           /\ sessions \in [Session -> SessionStatus] /\ refreshTokens \in [Token -> TokenRow]
           /\ scenario \in Scenarios /\ cached \subseteq Session
BY DEF IInv, ShapeInv

LEMMA WalletNonceStep ==
    ASSUME IInv, WalletNonce
    PROVE  IInv'
<1>. DEFINE n == NewId(UsedNonces, Nonce)
            y == [nonces[n] EXCEPT !.status = "PENDING"]
<1>1. n \in Nonce /\ nonces[n].status = "NONE"
  <2>1. UsedNonces \in SUBSET (1 .. MaxNonces) /\ MaxNonces \in Nat /\ Nonce = 1 .. MaxNonces
      BY BoundsAssumption DEF UsedNonces, Nonce
  <2>2. Cardinality(UsedNonces) \in Nat
    <3>1. IsFiniteSet(1 .. MaxNonces)
        BY <2>1, FS_Interval
    <3>2. IsFiniteSet(UsedNonces)
        BY <2>1, <3>1, FS_Subset
    <3>. QED
        BY <3>2, FS_CardinalityType
  <2>3. scenario.nonces \in 0 .. MaxNonces /\ Cardinality(UsedNonces) < scenario.nonces
      BY BoundsAssumption, TableFacts DEF WalletNonce
  <2>4. Cardinality(UsedNonces) < MaxNonces
      BY <2>1, <2>2, <2>3
  <2>5. NewId(UsedNonces, 1 .. MaxNonces) \in (1 .. MaxNonces) \ UsedNonces
      BY <2>1, <2>4, NewIdFacts
  <2>. QED
      BY <2>1, <2>5 DEF UsedNonces
<1>2. nonces' = [nonces EXCEPT ![n] = y]
    BY DEF WalletNonce
<1>. HIDE DEF n
<1>3. y \in NonceRow
    BY <1>1, TableFacts DEF NonceRow
<1>. HIDE DEF y
<1>4. nonces' \in [Nonce -> NonceRow] /\ \A m \in Nonce : m # n => nonces'[m] = nonces[m]
    BY <1>1, <1>2, <1>3, TableFacts
<1>5. \A m \in Nonce : nonces[m].status = "CONSUMED" => nonces'[m].status = "CONSUMED"
    BY <1>1, <1>4
<1>6. UNCHANGED <<scenario, account, sessions, refreshTokens, tickets, cached, request, granted>>
    BY DEF WalletNonce
<1>. QED
    BY <1>4, <1>5, <1>6, TableFacts, TablesStep

LEMMA NonceExpiresStep ==
    ASSUME IInv, NEW n \in Nonce, nonces[n].status = "PENDING",
           nonces' = [nonces EXCEPT ![n].status = "EXPIRED"],
           UNCHANGED <<scenario, account, sessions, refreshTokens, tickets, cached, request, granted>>
    PROVE  IInv'
<1>. DEFINE y == [nonces[n] EXCEPT !.status = "EXPIRED"]
<1>1. y \in NonceRow
    BY TableFacts DEF NonceRow
<1>2. nonces' = [nonces EXCEPT ![n] = y]
    OBVIOUS
<1>. HIDE DEF y
<1>3. nonces' \in [Nonce -> NonceRow] /\ \A m \in Nonce : m # n => nonces'[m] = nonces[m]
    BY <1>1, <1>2, TableFacts
<1>4. \A m \in Nonce : nonces[m].status = "CONSUMED" => nonces'[m].status = "CONSUMED"
    BY <1>3
<1>. QED
    BY <1>3, <1>4, TableFacts, TablesStep

LEMMA AdminRevokeStep ==
    ASSUME IInv, AdminRevokeAccountSessions
    PROVE  IInv'
<1>1. /\ sessions' = [s \in Session |-> IF sessions[s] = "ACTIVE" THEN "REVOKED" ELSE sessions[s]]
      /\ UNCHANGED <<scenario, account, nonces, refreshTokens, tickets, cached, request, granted>>
    BY DEF AdminRevokeAccountSessions
<1>2. sessions' \in [Session -> SessionStatus]
    BY <1>1, TableFacts DEF SessionStatus
<1>3. \A s \in Session : sessions'[s] = sessions[s] \/ (sessions[s] = "ACTIVE" /\ sessions'[s] = "REVOKED")
    BY <1>1
<1>. QED
    BY <1>1, <1>2, <1>3, TableFacts, TablesStep

LEMMA LapseStep ==
    ASSUME IInv, Lapse
    PROVE  IInv'
<1>1. UNCHANGED <<scenario, account, sessions, cached, request, granted>>
    BY DEF Lapse
<1>2. CASE \E n \in UsedNonces : /\ nonces' = [nonces EXCEPT ![n].lapsed = TRUE]
                                 /\ UNCHANGED <<refreshTokens, tickets>>
  <2>1. PICK n \in Nonce : nonces' = [nonces EXCEPT ![n].lapsed = TRUE]
      BY <1>2 DEF UsedNonces
  <2>. DEFINE y == [nonces[n] EXCEPT !.lapsed = TRUE]
  <2>2. y \in NonceRow /\ y.status = nonces[n].status
      BY TableFacts DEF NonceRow
  <2>3. nonces' = [nonces EXCEPT ![n] = y]
      BY <2>1
  <2>. HIDE DEF y
  <2>4. nonces' \in [Nonce -> NonceRow] /\ \A m \in Nonce : nonces'[m].status = nonces[m].status
      BY <2>2, <2>3, TableFacts
  <2>. QED
      BY <1>1, <1>2, <2>4, TableFacts, TablesStep
<1>3. CASE \E t \in UsedTokens : /\ refreshTokens' = [refreshTokens EXCEPT ![t].lapsed = TRUE]
                                 /\ UNCHANGED <<nonces, tickets>>
  <2>1. PICK t \in Token : refreshTokens' = [refreshTokens EXCEPT ![t].lapsed = TRUE]
      BY <1>3 DEF UsedTokens
  <2>. DEFINE y == [refreshTokens[t] EXCEPT !.lapsed = TRUE]
  <2>2. /\ y \in TokenRow /\ y.session = refreshTokens[t].session /\ y.revoked = refreshTokens[t].revoked
        /\ y.parent = refreshTokens[t].parent
      BY TableFacts DEF TokenRow
  <2>3. refreshTokens' = [refreshTokens EXCEPT ![t] = y]
      BY <2>1
  <2>. HIDE DEF y
  <2>4. refreshTokens' \in [Token -> TokenRow] /\ refreshTokens'[t] = y
        /\ \A u \in Token : u # t => refreshTokens'[u] = refreshTokens[u]
      BY <2>2, <2>3, TableFacts
  <2>5. \A u \in Token : /\ refreshTokens'[u].session = refreshTokens[u].session
                         /\ refreshTokens'[u].revoked = refreshTokens[u].revoked
                         /\ refreshTokens'[u].parent = refreshTokens[u].parent
      BY <2>2, <2>4
  <2>. QED
      BY <1>1, <1>3, <2>4, <2>5, TableFacts, TablesStep
<1>4. CASE \E k \in UsedTickets : /\ tickets' = [tickets EXCEPT ![k].lapsed = TRUE]
                                  /\ UNCHANGED <<nonces, refreshTokens>>
  <2>1. PICK k \in Ticket : tickets' = [tickets EXCEPT ![k].lapsed = TRUE]
      BY <1>4 DEF UsedTickets
  <2>. DEFINE y == [tickets[k] EXCEPT !.lapsed = TRUE]
  <2>2. y \in TicketRow /\ y.session = tickets[k].session /\ y.status = tickets[k].status
      BY TableFacts DEF TicketRow, TicketTable
  <2>3. tickets' = [tickets EXCEPT ![k] = y] /\ tickets \in [Ticket -> TicketRow]
      BY <2>1, TableFacts DEF TicketTable
  <2>. HIDE DEF y
  <2>4. tickets' \in [Ticket -> TicketRow]
        /\ \A j \in Ticket : tickets'[j].session = tickets[j].session /\ tickets'[j].status = tickets[j].status
      BY <2>2, <2>3
  <2>5. tickets' \in TicketTable
      BY <2>4, TableFacts DEF TicketTable
  <2>. QED
      BY <1>1, <1>4, <2>5, TableFacts, TablesStep
<1>. QED
    BY <1>2, <1>3, <1>4 DEF Lapse

(* A ban, or its end, only moves "barred". *)
LEMMA BanStep ==
    ASSUME IInv, NEW banned \in BOOLEAN, SetAccountBan(banned)
    PROVE  IInv'
<1>. USE DEF IInv
<1>1. /\ account' = IF banned THEN "BANNED" ELSE "ACTIVE"
      /\ request' = [r \in Requests |-> [request[r] EXCEPT !.barred = @ /\ banned]]
      /\ UNCHANGED <<scenario, nonces, sessions, refreshTokens, tickets, cached, granted>>
    BY DEF SetAccountBan
<1>2. ASSUME NEW r \in Requests
      PROVE  /\ request'[r] \in RequestRow /\ request'[r].op = request[r].op /\ request'[r].pc = request[r].pc
             /\ request'[r].nonce = request[r].nonce /\ request'[r].session = request[r].session
             /\ request'[r].token = request[r].token /\ request'[r].holdsSession = request[r].holdsSession
             /\ request'[r].holdsTokens = request[r].holdsTokens /\ request'[r].stale = request[r].stale
             /\ request'[r].todo = request[r].todo
             /\ (request'[r].barred => request[r].barred /\ banned)
  <2>1. request[r] \in RequestRow /\ (request[r].barred /\ banned) \in BOOLEAN
      BY HandlerFacts
  <2>2. request'[r] = [request[r] EXCEPT !.barred = request[r].barred /\ banned]
      BY <1>1
  <2>3. /\ request'[r] \in RequestRow /\ request'[r].op = request[r].op /\ request'[r].pc = request[r].pc
        /\ request'[r].nonce = request[r].nonce /\ request'[r].session = request[r].session
        /\ request'[r].token = request[r].token /\ request'[r].holdsSession = request[r].holdsSession
        /\ request'[r].holdsTokens = request[r].holdsTokens /\ request'[r].stale = request[r].stale
        /\ request'[r].todo = request[r].todo
      BY <2>1, <2>2 DEF RequestRow
  <2>4. request'[r].barred = (request[r].barred /\ banned)
      BY <2>1, <2>2 DEF RequestRow
  <2>. QED
      BY <2>3, <2>4
<1>3. ShapeInv'
  <2>1. request' \in [Requests -> RequestRow]
      BY <1>1, <1>2
  <2>2. account' \in {"NONE", "ACTIVE", "BANNED"}
      BY <1>1
  <2>. QED
      BY <1>1, <2>1, <2>2 DEF ShapeInv
<1>4. \A r \in Requests : InFlight(request[r])' <=> InFlight(request[r])
    BY <1>2 DEF InFlight
<1>5. RequestInv'
  <2>1. ASSUME NEW r \in Requests PROVE HandlerInv(request[r])' /\ RefusalInv(request[r])'
    <3>1. HandlerInv(request[r])'
        BY <1>1, <1>2, <1>4, HandlerFacts DEF HandlerInv
    <3>2. RefusalInv(request[r])'
        BY <1>1, <1>2, HandlerFacts DEF RefusalInv, BannedNow
    <3>. QED
        BY <3>1, <3>2
  <2>2. ASSUME NEW p \in Requests, NEW q \in Requests, p # q PROVE Apart(request[p], request[q])'
      BY <1>2, <1>4, <2>2 DEF RequestInv, Apart
  <2>. QED
      BY <2>1, <2>2 DEF RequestInv
<1>6. ChainInv' /\ LiveInv'
    BY <1>1 DEF ChainInv, LiveInv, LiveTokens
<1>7. GrantInv'
  <2>1. NothingAfterRevocation' /\ NonceOpensOneSession'
      BY <1>1 DEF GrantInv, NothingAfterRevocation, RevokedObtainsNothing, BannedObtainsNothing, NonceOpensOneSession
  <2>. QED
      BY <1>1, <1>2, <1>4, <2>1 DEF GrantInv
<1>8. CountInv'
  <2>1. Logins' \subseteq Logins /\ Inserting' \subseteq Inserting
      BY <1>2 DEF Logins, Inserting
  <2>2. UsedTokens' = UsedTokens /\ UsedSessions' = UsedSessions
      BY <1>1 DEF UsedTokens, UsedSessions
  <2>. QED
      BY <2>1, <2>2, CountStep
<1>. QED
    BY <1>3, <1>5, <1>6, <1>7, <1>8

-----------------------------------------------------------------------------
(* A nonce is consumed by one login: it was PENDING, so no other login has *)
(* it in hand and no session was opened with it.                           *)
LEMMA ConsumeNonceStep ==
    ASSUME IInv, NEW r \in Requests, ConsumeWalletNonce(r)
    PROVE  IInv'
<1>. DEFINE n == request[r].nonce
            x == [request[r] EXCEPT !.pc = "consumed"]
            y == [nonces[n] EXCEPT !.status = "CONSUMED"]
<1>1. /\ request[r].op = "login" /\ request[r].pc = "verified"
      /\ request[r] \in RequestRow /\ request \in [Requests -> RequestRow]
      /\ HandlerInv(request[r]) /\ RefusalInv(request[r]) /\ n \in Nonce
      /\ \A q \in Requests : q # r => Apart(request[r], request[q])
      /\ UNCHANGED <<scenario, account, sessions, refreshTokens, tickets, cached, granted>>
      /\ cached' \subseteq Session
    BY HandlerFacts DEF ConsumeWalletNonce, At, HandlerInv
<1>2. CASE nonces[n].status # "PENDING"
    BY <1>1, <1>2, PlainDone DEF ConsumeWalletNonce
<1>3. CASE nonces[n].status = "PENDING"
  <2>. USE DEF IInv
  <2>1. nonces' = [nonces EXCEPT ![n] = y] /\ request' = [request EXCEPT ![r] = x]
      BY <1>1, <1>3 DEF ConsumeWalletNonce, Goto
  <2>2. y \in NonceRow /\ y.status = "CONSUMED"
      BY <1>1, TableFacts DEF NonceRow
  <2>3. /\ x \in RequestRow /\ x.op = "login" /\ x.pc = "consumed" /\ x.nonce = n
        /\ x.holdsTokens = request[r].holdsTokens /\ x.stale = request[r].stale
        /\ x.barred = request[r].barred
      BY <1>1 DEF RequestRow, Phases
  <2>. HIDE DEF x, y, n
  <2>4. /\ nonces' \in [Nonce -> NonceRow] /\ nonces'[n].status = "CONSUMED"
        /\ \A m \in Nonce : m # n => nonces'[m] = nonces[m]
      BY <1>1, <2>1, <2>2, TableFacts
  <2>5. /\ request' \in [Requests -> RequestRow] /\ request'[r] = x
        /\ \A q \in Requests : q # r => request'[q] = request[q]
      BY <1>1, <2>1, <2>3
  <2>6. \A q \in Requests : InFlight(request[q]) => request[q].nonce # n /\ request[q].nonce \in Nonce
      BY <1>3 DEF RequestInv, HandlerInv, InFlight
  <2>7. ShapeInv'
      BY <1>1, <2>4, <2>5 DEF ShapeInv
  <2>8. RequestInv'
    <3>1. ASSUME NEW q \in Requests PROVE HandlerInv(request[q])' /\ RefusalInv(request[q])'
      <4>1. CASE q = r
        <5>1. HandlerInv(request[q])'
            BY <1>1, <2>3, <2>4, <2>5, <4>1 DEF HandlerInv, InFlight
        <5>2. RefusalInv(request[q])'
            BY <1>1, <2>3, <2>5, <4>1 DEF RefusalInv, BannedNow
        <5>. QED
            BY <5>1, <5>2
      <4>2. CASE q # r
        <5>1. HandlerInv(request[q]) /\ RefusalInv(request[q]) /\ request'[q] = request[q]
            BY <2>5, <4>2 DEF RequestInv
        <5>2. HandlerInv(request[q])'
            BY <1>1, <2>4, <2>6, <5>1 DEF HandlerInv, InFlight
        <5>3. RefusalInv(request[q])'
            BY <1>1, <5>1 DEF RefusalInv, BannedNow
        <5>. QED
            BY <5>2, <5>3
      <4>. QED
          BY <4>1, <4>2
    <3>2. ASSUME NEW p \in Requests, NEW q \in Requests, p # q PROVE Apart(request[p], request[q])'
      <4>1. Apart(request[p], request[q])
          BY <3>2 DEF RequestInv
      <4>2. request'[p].holdsTokens \cap request'[q].holdsTokens = {}
          BY <2>3, <2>5, <4>1 DEF Apart
      <4>3. InFlight(request[p])' /\ InFlight(request[q])' => request'[p].nonce # request'[q].nonce
          BY <2>3, <2>5, <2>6, <3>2, <4>1 DEF Apart, InFlight
      <4>. QED
          BY <4>2, <4>3 DEF Apart
    <3>. QED
        BY <3>1, <3>2 DEF RequestInv
  <2>9. ChainInv' /\ LiveInv'
      BY <1>1 DEF ChainInv, LiveInv, LiveTokens
  <2>10. GrantInv'
    <3>1. NothingAfterRevocation' /\ NonceOpensOneSession'
        BY <1>1 DEF GrantInv, NothingAfterRevocation, RevokedObtainsNothing, BannedObtainsNothing,
                    NonceOpensOneSession
    <3>2. ASSUME NEW g \in granted, g.what = "login"
          PROVE  /\ g.nonce \in Nonce /\ nonces'[g.nonce].status = "CONSUMED"
                 /\ \A q \in Requests : InFlight(request[q])' => request'[q].nonce # g.nonce
      <4>1. /\ g.nonce \in Nonce /\ nonces[g.nonce].status = "CONSUMED" /\ g.nonce # n
            /\ \A q \in Requests : InFlight(request[q]) => request[q].nonce # g.nonce
          BY <1>3, <3>2 DEF GrantInv
      <4>. QED
          BY <2>3, <2>4, <2>5, <4>1 DEF InFlight
    <3>. QED
        BY <1>1, <3>1, <3>2 DEF GrantInv
  <2>11. CountInv'
      BY <1>1, <2>1, <2>3, ContinueCount
  <2>. QED
      BY <2>7, <2>8, <2>9, <2>10, <2>11
<1>. QED
    BY <1>2, <1>3

(* A new session, and its first token: both rows were unused. *)
LEMMA IssueSessionStep ==
    ASSUME IInv, NEW r \in Requests, IssueSession(r)
    PROVE  IInv'
<1>. USE DEF IInv
<1>. DEFINE s == NewId(UsedSessions, Session)
            t == NewId(UsedTokens, Token)
            row == [NoToken EXCEPT !.session = s]
            g == [what |-> "login", nonce |-> request[r].nonce, session |-> s, stale |-> FALSE,
                  barred |-> request[r].barred]
<1>1. /\ request[r].op = "login" /\ request[r].pc = "upserted"
      /\ request[r] \in RequestRow /\ request \in [Requests -> RequestRow]
      /\ HandlerInv(request[r]) /\ RefusalInv(request[r]) /\ request[r].nonce \in Nonce
      /\ ~request[r].barred
    BY HandlerFacts DEF IssueSession, At, HandlerInv, RefusalInv
<1>2. /\ sessions' = [sessions EXCEPT ![s] = "ACTIVE"] /\ refreshTokens' = [refreshTokens EXCEPT ![t] = row]
      /\ cached' = cached \cup {s} /\ granted' = granted \cup {g}
      /\ request' = [request EXCEPT ![r] = Idle] /\ UNCHANGED <<scenario, account, nonces, tickets>>
    BY DEF IssueSession, Done
<1>3. r \in Logins /\ r \in Inserting
    BY <1>1 DEF Logins, Inserting
<1>4. /\ Cardinality(Logins) \in Nat /\ Cardinality(Inserting) \in Nat
      /\ Cardinality(Logins) # 0 /\ Cardinality(Inserting) # 0
      /\ IsFiniteSet(Logins) /\ IsFiniteSet(Inserting)
      /\ Cardinality(UsedTokens) \in Nat /\ Cardinality(UsedSessions) \in Nat
      /\ IsFiniteSet(UsedTokens) /\ IsFiniteSet(UsedSessions)
      /\ MaxTokens \in Nat /\ MaxSessions \in Nat
  <2>1. IsFiniteSet(Logins) /\ IsFiniteSet(Inserting) /\ Logins # {} /\ Inserting # {}
      BY <1>3, FiniteFacts
  <2>2. Cardinality(Logins) # 0 /\ Cardinality(Inserting) # 0
      BY <2>1, FS_EmptySet
  <2>. QED
      BY <2>1, <2>2, FiniteFacts
<1>5. s \in Session \ UsedSessions
  <2>1. Cardinality(UsedSessions) < MaxSessions
      BY <1>4 DEF CountInv
  <2>2. UsedSessions \in SUBSET (1 .. MaxSessions)
      BY DEF UsedSessions, Session
  <2>. QED
      BY <1>4, <2>1, <2>2, NewIdFacts DEF Session
<1>6. t \in Token \ UsedTokens /\ \A u \in Token \ UsedTokens : t <= u
  <2>1. Cardinality(UsedTokens) < MaxTokens
      BY <1>4 DEF CountInv
  <2>2. UsedTokens \in SUBSET (1 .. MaxTokens)
      BY DEF UsedTokens, Token
  <2>. QED
      BY <1>4, <2>1, <2>2, NewIdFacts DEF Token
<1>7. sessions[s] = "NONE" /\ refreshTokens[t].session = NoRow
    BY <1>5, <1>6 DEF UsedSessions, UsedTokens
<1>8. row \in TokenRow /\ row.session = s /\ row.revoked = FALSE /\ row.parent = NoRow
    BY <1>5 DEF NoToken, TokenRow, NoRow
<1>9. g.what = "login" /\ g.nonce = request[r].nonce /\ g.session = s /\ ~g.stale /\ ~g.barred
    BY <1>1
<1>. HIDE DEF s, t, row, g
<1>10. /\ sessions' \in [Session -> SessionStatus] /\ sessions'[s] = "ACTIVE"
       /\ \A z \in Session : z # s => sessions'[z] = sessions[z]
    BY <1>2, <1>5, TableFacts DEF SessionStatus
<1>11. /\ refreshTokens' \in [Token -> TokenRow] /\ refreshTokens'[t] = row
       /\ \A u \in Token : u # t => refreshTokens'[u] = refreshTokens[u]
    BY <1>2, <1>6, <1>8, TableFacts
<1>12. /\ request' \in [Requests -> RequestRow] /\ request'[r] = Idle
       /\ \A q \in Requests : q # r => request'[q] = request[q]
    BY <1>1, <1>2, IdleFacts
<1>13. ShapeInv'
  <2>1. cached' \subseteq Session
      BY <1>2, <1>5, TableFacts
  <2>. QED
      BY <1>2, <1>10, <1>11, <1>12, <2>1 DEF ShapeInv
<1>14. s # NoRow /\ t \in Nat
    BY <1>5, <1>6 DEF Session, NoRow, Token
<1>15. RequestInv'
  <2>1. ASSUME NEW q \in Requests PROVE HandlerInv(request[q])' /\ RefusalInv(request[q])'
    <3>1. CASE q = r
      <4>1. request'[q] = Idle /\ Idle.op = "idle" /\ Idle.holdsTokens = {} /\ Idle.stale = FALSE
            /\ Idle.barred = FALSE
          BY <1>12, <3>1, IdleFacts
      <4>. QED
          BY <4>1 DEF HandlerInv, RefusalInv, InFlight
    <3>2. CASE q # r
      <4>1. HandlerInv(request[q]) /\ RefusalInv(request[q]) /\ request'[q] = request[q]
            /\ request[q] \in RequestRow
          BY <1>12, <3>2, HandlerFacts
      <4>2. HandlerInv(request[q])'
        <5>1. \A u \in request[q].holdsTokens : u \in Token
            BY <4>1 DEF RequestRow
        <5>2. \A u \in request[q].holdsTokens : ~refreshTokens'[u].revoked
            BY <1>8, <1>11, <4>1, <5>1 DEF HandlerInv
        <5>3. request[q].op = "refresh" => request[q].token # t
            BY <1>7, <1>14, <4>1 DEF HandlerInv, Session, NoRow
        <5>4. request[q].op = "logout" /\ request[q].pc \in {"snapshot", "tokens"} /\ ~request[q].holdsSession
                => sessions'[request[q].session] # "ACTIVE"
          <6>1. request[q].op = "logout" => request[q].session \in Session /\ request[q].session # s
              BY <1>7, <4>1 DEF HandlerInv
          <6>. QED
              BY <1>10, <4>1, <6>1 DEF HandlerInv
        <5>5. request[q].op = "logout" =>
                \A u \in request[q].holdsTokens \cup request[q].todo : refreshTokens'[u].session = request[q].session
          <6>1. request[q].holdsTokens \cup request[q].todo \subseteq Token
              BY <4>1 DEF RequestRow
          <6>2. request[q].op = "logout" => t \notin request[q].holdsTokens \cup request[q].todo
              BY <1>7, <4>1 DEF HandlerInv, Session, NoRow
          <6>. QED
              BY <1>11, <4>1, <6>1, <6>2 DEF HandlerInv
        <5>. QED
            BY <1>2, <1>10, <1>11, <4>1, <5>2, <5>3, <5>4, <5>5 DEF HandlerInv, InFlight
      <4>3. RefusalInv(request[q])'
        <5>1. request[q].stale => request[q].session \in Session /\ request[q].session # s
            BY <1>7, <4>1 DEF RefusalInv, HandlerInv
        <5>. QED
            BY <1>2, <1>10, <4>1, <5>1 DEF RefusalInv, BannedNow
      <4>. QED
          BY <4>2, <4>3
    <3>. QED
        BY <3>1, <3>2
  <2>2. ASSUME NEW p \in Requests, NEW q \in Requests, p # q PROVE Apart(request[p], request[q])'
      BY <1>12, <2>2, IdleFacts DEF RequestInv, Apart, InFlight
  <2>. QED
      BY <2>1, <2>2 DEF RequestInv

<1>16. ChainInv'
  <2>1. \A u \in Token : refreshTokens[u].parent # NoRow =>
            refreshTokens[u].parent \in Token /\ refreshTokens[u].parent # t
      BY <1>7 DEF ChainInv
  <2>2. \A u \in Token : refreshTokens'[u].session # NoRow => sessions'[refreshTokens'[u].session] # "NONE"
    <3>1. \A u \in Token : refreshTokens[u].session # NoRow => refreshTokens[u].session \in Session
        BY TableFacts DEF TokenRow
    <3>. QED
        BY <1>8, <1>10, <1>11, <3>1 DEF ChainInv
  <2>3. \A u \in Token : refreshTokens'[u].parent # NoRow =>
          /\ refreshTokens'[u].parent \in Token /\ refreshTokens'[u].parent < u
          /\ refreshTokens'[refreshTokens'[u].parent].revoked
          /\ refreshTokens'[refreshTokens'[u].parent].session # NoRow
      BY <1>8, <1>11, <2>1 DEF ChainInv
  <2>4. \A u, v \in Token :
          refreshTokens'[u].parent # NoRow /\ refreshTokens'[v].parent = refreshTokens'[u].parent => u = v
      BY <1>8, <1>11 DEF ChainInv
  <2>5. ASSUME NEW u \in Token, NEW v \in Token, u < v, refreshTokens'[v].session # NoRow
        PROVE  refreshTokens'[u].session # NoRow
    <3>1. u \in Nat /\ v \in Nat
        BY DEF Token
    <3>2. CASE u = t
        BY <1>8, <1>11, <1>14, <3>2
    <3>3. CASE u # t /\ v = t
      <4>1. u \in UsedTokens
          BY <1>6, <1>14, <2>5, <3>1, <3>3
      <4>. QED
          BY <1>11, <3>3, <4>1 DEF UsedTokens
    <3>4. CASE u # t /\ v # t
        BY <1>11, <2>5, <3>4 DEF ChainInv
    <3>. QED
        BY <3>2, <3>3, <3>4
  <2>. QED
      BY <2>2, <2>3, <2>4, <2>5 DEF ChainInv
<1>17. LiveInv'
  <2>1. \A z \in Session : z = s => LiveTokens(z)' = {t}
    <3>1. \A u \in Token : refreshTokens[u].session # s
        BY <1>7, <1>14 DEF ChainInv
    <3>. QED
        BY <1>6, <1>8, <1>11, <3>1 DEF LiveTokens
  <2>2. \A z \in Session : z # s => LiveTokens(z)' = LiveTokens(z)
    <3>1. \A z \in Session : z # NoRow
        BY DEF Session, NoRow
    <3>. QED
        BY <1>7, <1>8, <1>11, <3>1 DEF LiveTokens
  <2>. QED
      BY <1>6, <1>10, <2>1, <2>2 DEF LiveInv
<1>18. GrantInv'
  <2>1. InFlight(request[r])
      BY <1>1 DEF InFlight
  <2>2. /\ \A h \in granted : h.what = "login" => h.nonce # g.nonce
        /\ nonces[g.nonce].status = "CONSUMED" /\ g.nonce \in Nonce
      BY <1>1, <1>9, <2>1 DEF GrantInv, HandlerInv
  <2>3. NothingAfterRevocation'
      BY <1>2, <1>9 DEF GrantInv, NothingAfterRevocation, RevokedObtainsNothing, BannedObtainsNothing
  <2>4. NonceOpensOneSession'
      BY <1>2, <2>2 DEF GrantInv, NonceOpensOneSession
  <2>5. \A q \in Requests : InFlight(request[q])' =>
            q # r /\ InFlight(request[q]) /\ request'[q] = request[q]
      BY <1>12, IdleFacts DEF InFlight
  <2>6. \A q \in Requests : InFlight(request[q])' => request'[q].nonce # g.nonce
      BY <1>9, <2>1, <2>5 DEF RequestInv, Apart
  <2>. QED
      BY <1>2, <2>2, <2>3, <2>4, <2>5, <2>6 DEF GrantInv
<1>19. CountInv'
  <2>1. Logins' = Logins \ {r} /\ Inserting' = Inserting \ {r}
      BY <1>12, IdleFacts DEF Logins, Inserting
  <2>2. Cardinality(Logins') = Cardinality(Logins) - 1 /\ Cardinality(Inserting') = Cardinality(Inserting) - 1
      BY <1>3, <1>4, <2>1, FS_RemoveElement
  <2>3. UsedSessions' = UsedSessions \cup {s}
      BY <1>5, <1>10 DEF UsedSessions
  <2>4. UsedTokens' = UsedTokens \cup {t}
      BY <1>6, <1>8, <1>11, <1>14 DEF UsedTokens
  <2>5. Cardinality(UsedSessions') = Cardinality(UsedSessions) + 1
      BY <1>4, <1>5, <2>3, FS_AddElement
  <2>6. Cardinality(UsedTokens') = Cardinality(UsedTokens) + 1
      BY <1>4, <1>6, <2>4, FS_AddElement
  <2>. QED
      BY <1>4, <2>2, <2>5, <2>6 DEF CountInv
<1>. QED
    BY <1>13, <1>15, <1>16, <1>17, <1>18, <1>19

(* The commit of a rotation: the token it holds is the live one of its     *)
(* session if that is ACTIVE, and the new one takes its place.             *)
LEMMA RotateCommitStep ==
    ASSUME IInv, NEW r \in Requests, RotateCommit(r)
    PROVE  IInv'
<1>. USE DEF IInv
<1>. DEFINE s == request[r].session
            old == request[r].token
            new == NewId(UsedTokens, Token)
            row == [NoToken EXCEPT !.session = s, !.parent = old]
            spent == [refreshTokens[old] EXCEPT !.revoked = TRUE]
            x == [request[r] EXCEPT !.pc = "recache", !.holdsSession = FALSE, !.holdsTokens = {}]
            g == [what |-> "refresh", stale |-> request[r].stale, barred |-> request[r].barred]
<1>1. /\ request[r].op = "refresh" /\ request[r].pc = "commit"
      /\ request[r] \in RequestRow /\ request \in [Requests -> RequestRow]
      /\ HandlerInv(request[r]) /\ RefusalInv(request[r])
    BY HandlerFacts DEF RotateCommit, At
<1>2. /\ s \in Session /\ old \in Token /\ refreshTokens[old].session = s
      /\ request[r].holdsTokens = {old} /\ ~refreshTokens[old].revoked
      /\ ~request[r].stale /\ ~request[r].barred
    BY <1>1 DEF HandlerInv, RefusalInv
<1>3. /\ granted' = granted \cup {g} /\ request' = [request EXCEPT ![r] = x]
      /\ UNCHANGED <<scenario, account, nonces, sessions, tickets, cached>>
    BY <1>1 DEF RotateCommit, Grant
<1>4. /\ Cardinality(Inserting) \in Nat /\ Cardinality(Inserting) # 0 /\ IsFiniteSet(Inserting)
      /\ Cardinality(UsedTokens) \in Nat /\ IsFiniteSet(UsedTokens) /\ MaxTokens \in Nat
      /\ r \in Inserting
  <2>1. r \in Inserting
      BY <1>1 DEF Inserting
  <2>2. IsFiniteSet(Inserting) /\ Inserting # {}
      BY <2>1, FiniteFacts
  <2>3. Cardinality(Inserting) # 0
      BY <2>2, FS_EmptySet
  <2>. QED
      BY <2>1, <2>2, <2>3, FiniteFacts
<1>5. new \in Token \ UsedTokens /\ \A u \in Token \ UsedTokens : new <= u
  <2>1. Cardinality(UsedTokens) < MaxTokens
      BY <1>4 DEF CountInv
  <2>2. UsedTokens \in SUBSET (1 .. MaxTokens)
      BY DEF UsedTokens, Token
  <2>. QED
      BY <1>4, <2>1, <2>2, NewIdFacts DEF Token
<1>6. s # NoRow /\ old \in Nat /\ new \in Nat /\ old # NoRow
    BY <1>2, <1>5 DEF Session, NoRow, Token
<1>7. refreshTokens[new].session = NoRow /\ new # old
    BY <1>2, <1>5, <1>6 DEF UsedTokens
<1>8. /\ row \in TokenRow /\ row.session = s /\ row.revoked = FALSE /\ row.parent = old
      /\ spent \in TokenRow /\ spent.session = s /\ spent.revoked = TRUE
      /\ spent.parent = refreshTokens[old].parent
    BY <1>2, <1>6, TableFacts DEF NoToken, TokenRow, NoRow
<1>9. /\ x \in RequestRow /\ x.op = "refresh" /\ x.pc = "recache" /\ x.session = s /\ x.token = old
      /\ x.holdsTokens = {} /\ x.stale = request[r].stale /\ x.barred = request[r].barred
    BY <1>1 DEF RequestRow, Phases
<1>10. g.what = "refresh" /\ g.stale = request[r].stale /\ g.barred = request[r].barred
    OBVIOUS
<1>11. refreshTokens' = [refreshTokens EXCEPT ![old].revoked = TRUE, ![new] = row]
    BY DEF RotateCommit
<1>12. refreshTokens \in [Token -> TokenRow]
    BY TableFacts
<1>13. refreshTokens' = [[refreshTokens EXCEPT ![old] = spent] EXCEPT ![new] = row]
    BY <1>11
<1>. HIDE DEF row, spent, x, g, s, old, new
<1>14. /\ refreshTokens' \in [Token -> TokenRow] /\ refreshTokens'[new] = row /\ refreshTokens'[old] = spent
       /\ \A u \in Token : u # new /\ u # old => refreshTokens'[u] = refreshTokens[u]
    BY <1>2, <1>5, <1>7, <1>8, <1>12, <1>13
<1>15. /\ request' \in [Requests -> RequestRow] /\ request'[r] = x
       /\ \A q \in Requests : q # r => request'[q] = request[q]
    BY <1>1, <1>3, <1>9
<1>16. ShapeInv'
    BY <1>3, <1>14, <1>15 DEF ShapeInv
<1>17. \A u \in Token : u # new => /\ refreshTokens'[u].session = refreshTokens[u].session
                                   /\ refreshTokens'[u].parent = refreshTokens[u].parent
                                   /\ u # old => refreshTokens'[u].revoked = refreshTokens[u].revoked
    BY <1>2, <1>8, <1>14
<1>18. RequestInv'
  <2>1. ASSUME NEW q \in Requests PROVE HandlerInv(request[q])' /\ RefusalInv(request[q])'
    <3>1. CASE q = r
      <4>1. HandlerInv(request[q])'
          BY <1>2, <1>8, <1>9, <1>14, <1>15, <3>1 DEF HandlerInv, InFlight
      <4>2. RefusalInv(request[q])'
          BY <1>2, <1>9, <1>15, <3>1 DEF RefusalInv
      <4>. QED
          BY <4>1, <4>2
    <3>2. CASE q # r
      <4>1. HandlerInv(request[q]) /\ RefusalInv(request[q]) /\ request'[q] = request[q]
            /\ request[q] \in RequestRow /\ Apart(request[r], request[q])
          BY <1>15, <3>2, HandlerFacts
      <4>2. \A u \in request[q].holdsTokens : u \in Token /\ u # old
          BY <1>2, <4>1 DEF RequestRow, Apart
      <4>3. \A u \in request[q].holdsTokens : ~refreshTokens'[u].revoked
          BY <1>8, <1>14, <1>17, <4>1, <4>2 DEF HandlerInv
      <4>4. request[q].op = "refresh" => request[q].token \in Token /\ request[q].token # new
          BY <1>7, <4>1 DEF HandlerInv, Session, NoRow
      <4>5. request[q].op = "logout" =>
              \A u \in request[q].holdsTokens \cup request[q].todo : refreshTokens'[u].session = request[q].session
        <5>1. request[q].holdsTokens \cup request[q].todo \subseteq Token
            BY <4>1 DEF RequestRow
        <5>2. request[q].op = "logout" => new \notin request[q].holdsTokens \cup request[q].todo
            BY <1>7, <4>1 DEF HandlerInv, Session, NoRow
        <5>. QED
            BY <1>17, <4>1, <5>1, <5>2 DEF HandlerInv
      <4>6. HandlerInv(request[q])'
          BY <1>3, <1>17, <4>1, <4>3, <4>4, <4>5 DEF HandlerInv, InFlight
      <4>7. RefusalInv(request[q])'
          BY <1>3, <4>1 DEF RefusalInv, BannedNow
      <4>. QED
          BY <4>6, <4>7
    <3>. QED
        BY <3>1, <3>2
  <2>2. ASSUME NEW p \in Requests, NEW q \in Requests, p # q PROVE Apart(request[p], request[q])'
    <3>1. Apart(request[p], request[q])
        BY <2>2 DEF RequestInv
    <3>. QED
        BY <1>9, <1>15, <3>1 DEF Apart, InFlight
  <2>. QED
      BY <2>1, <2>2 DEF RequestInv
<1>19. ChainInv'
  <2>1. \A u \in Token : refreshTokens[u].parent # NoRow =>
            refreshTokens[u].parent \in Token /\ refreshTokens[u].parent # new /\ refreshTokens[u].parent # old
      BY <1>2, <1>7 DEF ChainInv
  <2>2. \A u \in Token : refreshTokens'[u].session # NoRow => sessions'[refreshTokens'[u].session] # "NONE"
      BY <1>2, <1>3, <1>6, <1>8, <1>14, <1>17 DEF ChainInv
  <2>3. old < new
    <3>1. \A u \in Token : new < u => refreshTokens[u].session = NoRow
        BY <1>5, <1>7 DEF ChainInv
    <3>. QED
        BY <1>2, <1>6, <1>7, <3>1
  <2>4. \A u \in Token : refreshTokens'[u].parent # NoRow =>
          /\ refreshTokens'[u].parent \in Token /\ refreshTokens'[u].parent < u
          /\ refreshTokens'[refreshTokens'[u].parent].revoked
          /\ refreshTokens'[refreshTokens'[u].parent].session # NoRow
    <3>. SUFFICES ASSUME NEW u \in Token, refreshTokens'[u].parent # NoRow
                  PROVE  /\ refreshTokens'[u].parent \in Token /\ refreshTokens'[u].parent < u
                         /\ refreshTokens'[refreshTokens'[u].parent].revoked
                         /\ refreshTokens'[refreshTokens'[u].parent].session # NoRow
        OBVIOUS
    <3>1. CASE u = new
        BY <1>2, <1>6, <1>8, <1>14, <2>3, <3>1
    <3>2. CASE u # new
        BY <1>17, <2>1, <3>2 DEF ChainInv
    <3>. QED
        BY <3>1, <3>2
  <2>5. \A u, v \in Token :
          refreshTokens'[u].parent # NoRow /\ refreshTokens'[v].parent = refreshTokens'[u].parent => u = v
    <3>1. \A u \in Token : u # new => refreshTokens'[u].parent # old
        BY <1>6, <1>17, <2>1
    <3>. QED
        BY <1>8, <1>14, <1>17, <3>1 DEF ChainInv
  <2>6. ASSUME NEW u \in Token, NEW v \in Token, u < v, refreshTokens'[v].session # NoRow
        PROVE  refreshTokens'[u].session # NoRow
    <3>1. u \in Nat /\ v \in Nat
        BY DEF Token
    <3>2. CASE u = new
        BY <1>6, <1>8, <1>14, <3>2
    <3>3. CASE u # new /\ v = new
      <4>1. u \in UsedTokens
          BY <1>5, <1>6, <2>6, <3>1, <3>3
      <4>. QED
          BY <1>17, <3>3, <4>1 DEF UsedTokens
    <3>4. CASE u # new /\ v # new
        BY <1>17, <2>6, <3>4 DEF ChainInv
    <3>. QED
        BY <3>2, <3>3, <3>4
  <2>. QED
      BY <2>2, <2>4, <2>5, <2>6 DEF ChainInv
<1>20. LiveInv'
  <2>1. ASSUME NEW z \in Session, sessions'[z] = "ACTIVE" PROVE \E u \in Token : LiveTokens(z)' = {u}
    <3>1. PICK u \in Token : LiveTokens(z) = {u}
        BY <1>3, <2>1 DEF LiveInv
    <3>2. z # NoRow
        BY DEF Session, NoRow
    <3>3. CASE z = s
      <4>1. u = old
          BY <1>2, <3>1, <3>3 DEF LiveTokens
      <4>2. \A v \in Token : v \in LiveTokens(z)' <=> v = new
          BY <1>2, <1>8, <1>14, <1>17, <3>1, <3>3, <4>1 DEF LiveTokens
      <4>3. LiveTokens(z)' \subseteq Token
          BY DEF LiveTokens
      <4>. QED
          BY <1>5, <4>2, <4>3
    <3>4. CASE z # s
      <4>1. \A v \in Token : v \in LiveTokens(z)' <=> v \in LiveTokens(z)
          BY <1>2, <1>7, <1>8, <1>14, <1>17, <3>2, <3>4 DEF LiveTokens
      <4>2. LiveTokens(z)' \subseteq Token /\ LiveTokens(z) \subseteq Token
          BY DEF LiveTokens
      <4>. QED
          BY <3>1, <4>1, <4>2
    <3>. QED
        BY <3>3, <3>4
  <2>. QED
      BY <2>1 DEF LiveInv
<1>21. GrantInv'
  <2>1. \A h \in granted' : h.what = "login" => h \in granted
      BY <1>3, <1>10
  <2>2. NothingAfterRevocation'
      BY <1>2, <1>3, <1>10 DEF GrantInv, NothingAfterRevocation, RevokedObtainsNothing, BannedObtainsNothing
  <2>3. NonceOpensOneSession'
      BY <2>1 DEF GrantInv, NonceOpensOneSession
  <2>4. \A q \in Requests : InFlight(request[q])' => InFlight(request[q]) /\ request'[q] = request[q]
      BY <1>9, <1>15 DEF InFlight
  <2>. QED
      BY <1>3, <2>1, <2>2, <2>3, <2>4 DEF GrantInv
<1>22. CountInv'
  <2>1. Logins' = Logins /\ Inserting' = Inserting \ {r}
      BY <1>1, <1>9, <1>15 DEF Logins, Inserting
  <2>2. Cardinality(Inserting') = Cardinality(Inserting) - 1
      BY <1>4, <2>1, FS_RemoveElement
  <2>3. UsedSessions' = UsedSessions
      BY <1>3 DEF UsedSessions
  <2>4. UsedTokens' = UsedTokens \cup {new}
      BY <1>5, <1>6, <1>8, <1>14, <1>17 DEF UsedTokens
  <2>5. Cardinality(UsedTokens') = Cardinality(UsedTokens) + 1
      BY <1>4, <1>5, <2>4, FS_AddElement
  <2>. QED
      BY <1>4, <2>1, <2>2, <2>3, <2>5 DEF CountInv
<1>. QED
    BY <1>16, <1>18, <1>19, <1>20, <1>21, <1>22

(* The commit of a logout leaves its session not ACTIVE, whether it locked *)
(* the row or found it revoked.                                            *)
LEMMA RevokeCommitStep ==
    ASSUME IInv, NEW r \in Requests, RevokeCommit(r)
    PROVE  IInv'
<1>. USE DEF IInv
<1>. DEFINE s == request[r].session
            held == request[r].holdsTokens
            x == [request[r] EXCEPT !.pc = "uncache", !.holdsSession = FALSE, !.holdsTokens = {}]
<1>1. /\ request[r].op = "logout" /\ request[r].pc = "tokens"
      /\ request[r] \in RequestRow /\ request \in [Requests -> RequestRow]
      /\ HandlerInv(request[r]) /\ RefusalInv(request[r])
    BY HandlerFacts DEF RevokeCommit, At
<1>2. /\ s \in Session /\ sessions[s] # "NONE" /\ held \subseteq Token
      /\ ~request[r].holdsSession => sessions[s] # "ACTIVE"
      /\ ~request[r].stale /\ ~request[r].barred
      /\ \A t \in held \cup request[r].todo : refreshTokens[t].session = s
      /\ request[r].todo \subseteq Token
    BY <1>1 DEF HandlerInv, RefusalInv, RequestRow
<1>3. /\ sessions' = [sessions EXCEPT ![s] = IF request[r].holdsSession THEN "REVOKED" ELSE @]
      /\ refreshTokens' = [t \in Token |-> IF t \in held THEN [refreshTokens[t] EXCEPT !.revoked = TRUE]
                                           ELSE refreshTokens[t]]
      /\ UNCHANGED <<scenario, account, nonces, tickets, cached, granted>>
    BY DEF RevokeCommit
<1>4. request' = [request EXCEPT ![r] = x]
    BY <1>1 DEF RevokeCommit
<1>5. /\ x \in RequestRow /\ x.op = "logout" /\ x.pc = "uncache" /\ x.session = s
      /\ x.holdsTokens = {} /\ x.todo = request[r].todo /\ x.stale = request[r].stale /\ x.barred = request[r].barred
    BY <1>1 DEF RequestRow, Phases
<1>. HIDE DEF x, s, held
<1>6. /\ request' \in [Requests -> RequestRow] /\ request'[r] = x
      /\ \A q \in Requests : q # r => request'[q] = request[q]
    BY <1>1, <1>4, <1>5
<1>7. /\ sessions' \in [Session -> SessionStatus] /\ sessions'[s] = "REVOKED"
      /\ \A z \in Session : z # s => sessions'[z] = sessions[z]
  <2>1. sessions[s] \in SessionStatus /\ sessions \in [Session -> SessionStatus]
      BY <1>2, TableFacts
  <2>2. CASE request[r].holdsSession
      BY <1>2, <1>3, <2>1, <2>2 DEF SessionStatus
  <2>3. CASE ~request[r].holdsSession
    <3>1. sessions[s] = "REVOKED"
        BY <1>2, <2>1, <2>3 DEF SessionStatus
    <3>2. sessions' = sessions
        BY <1>2, <1>3, <2>1, <2>3
    <3>. QED
        BY <2>1, <3>1, <3>2
  <2>. QED
      BY <2>2, <2>3
<1>8. ASSUME NEW t \in Token
      PROVE  /\ refreshTokens'[t] \in TokenRow /\ refreshTokens'[t].session = refreshTokens[t].session
             /\ refreshTokens'[t].parent = refreshTokens[t].parent
             /\ refreshTokens[t].revoked => refreshTokens'[t].revoked
             /\ t \notin held => refreshTokens'[t] = refreshTokens[t]
  <2>1. refreshTokens[t] \in TokenRow
      BY TableFacts
  <2>2. CASE t \in held
    <3>1. refreshTokens'[t] = [refreshTokens[t] EXCEPT !.revoked = TRUE]
        BY <1>3, <2>2
    <3>. QED
        BY <2>1, <2>2, <3>1 DEF TokenRow
  <2>3. CASE t \notin held
      BY <1>3, <2>1, <2>3
  <2>. QED
      BY <2>2, <2>3
<1>9. refreshTokens' \in [Token -> TokenRow]
  <2>1. refreshTokens' = [t \in Token |-> refreshTokens'[t]]
      BY <1>3
  <2>. QED
      BY <1>8, <2>1
<1>10. ShapeInv'
    BY <1>3, <1>6, <1>7, <1>9 DEF ShapeInv
<1>11. RequestInv'
  <2>1. ASSUME NEW q \in Requests PROVE HandlerInv(request[q])' /\ RefusalInv(request[q])'
    <3>1. CASE q = r
      <4>1. HandlerInv(request[q])'
          BY <1>2, <1>5, <1>6, <1>7, <1>8, <3>1 DEF HandlerInv, InFlight
      <4>2. RefusalInv(request[q])'
          BY <1>2, <1>5, <1>6, <3>1 DEF RefusalInv
      <4>. QED
          BY <4>1, <4>2
    <3>2. CASE q # r
      <4>1. HandlerInv(request[q]) /\ RefusalInv(request[q]) /\ request'[q] = request[q]
            /\ request[q] \in RequestRow /\ Apart(request[r], request[q])
          BY <1>6, <3>2, HandlerFacts
      <4>2. \A u \in request[q].holdsTokens : u \in Token /\ u \notin held
          BY <4>1 DEF RequestRow, Apart, held
      <4>3. \A u \in request[q].holdsTokens : ~refreshTokens'[u].revoked
          BY <1>8, <4>1, <4>2 DEF HandlerInv
      <4>4. \A z \in Session : /\ sessions[z] # "NONE" => sessions'[z] # "NONE"
                               /\ sessions[z] # "ACTIVE" => sessions'[z] # "ACTIVE"
                               /\ sessions[z] = "REVOKED" => sessions'[z] = "REVOKED"
          BY <1>7
      <4>5. request[q].op = "logout" =>
              \A u \in request[q].holdsTokens \cup request[q].todo : refreshTokens'[u].session = request[q].session
        <5>1. request[q].holdsTokens \cup request[q].todo \subseteq Token
            BY <4>1 DEF RequestRow
        <5>. QED
            BY <1>8, <4>1, <5>1 DEF HandlerInv
      <4>6. HandlerInv(request[q])'
          BY <1>3, <1>8, <4>1, <4>3, <4>4, <4>5 DEF HandlerInv, InFlight
      <4>7. RefusalInv(request[q])'
          BY <1>3, <4>1, <4>4 DEF RefusalInv, HandlerInv, BannedNow
      <4>. QED
          BY <4>6, <4>7
    <3>. QED
        BY <3>1, <3>2
  <2>2. ASSUME NEW p \in Requests, NEW q \in Requests, p # q PROVE Apart(request[p], request[q])'
    <3>1. Apart(request[p], request[q])
        BY <2>2 DEF RequestInv
    <3>. QED
        BY <1>5, <1>6, <3>1 DEF Apart, InFlight
  <2>. QED
      BY <2>1, <2>2 DEF RequestInv
<1>12. ChainInv'
  <2>1. \A t \in Token : refreshTokens'[t].session # NoRow => sessions'[refreshTokens'[t].session] # "NONE"
    <3>1. \A t \in Token : refreshTokens[t].session # NoRow => refreshTokens[t].session \in Session
        BY TableFacts DEF TokenRow
    <3>. QED
        BY <1>7, <1>8, <3>1 DEF ChainInv
  <2>2. \A t \in Token : refreshTokens'[t].parent # NoRow =>
          /\ refreshTokens'[t].parent \in Token /\ refreshTokens'[t].parent < t
          /\ refreshTokens'[refreshTokens'[t].parent].revoked
          /\ refreshTokens'[refreshTokens'[t].parent].session # NoRow
      BY <1>8 DEF ChainInv
  <2>. QED
      BY <1>8, <2>1, <2>2 DEF ChainInv
<1>13. LiveInv'
  <2>1. ASSUME NEW z \in Session, sessions'[z] = "ACTIVE" PROVE \E u \in Token : LiveTokens(z)' = {u}
    <3>1. z # s /\ sessions[z] = "ACTIVE"
        BY <1>7, <2>1
    <3>2. PICK u \in Token : LiveTokens(z) = {u}
        BY <3>1 DEF LiveInv
    <3>3. \A t \in held : refreshTokens[t].session # z
        BY <1>2, <3>1
    <3>. QED
        BY <1>8, <3>2, <3>3 DEF LiveTokens
  <2>. QED
      BY <2>1 DEF LiveInv
<1>14. GrantInv'
  <2>1. NothingAfterRevocation' /\ NonceOpensOneSession'
      BY <1>3 DEF GrantInv, NothingAfterRevocation, RevokedObtainsNothing, BannedObtainsNothing,
                  NonceOpensOneSession
  <2>2. \A q \in Requests : InFlight(request[q])' => InFlight(request[q]) /\ request'[q] = request[q]
      BY <1>5, <1>6 DEF InFlight
  <2>. QED
      BY <1>3, <2>1, <2>2 DEF GrantInv
<1>15. CountInv'
  <2>1. Logins' \subseteq Logins /\ Inserting' \subseteq Inserting
      BY <1>5, <1>6 DEF Logins, Inserting
  <2>2. UsedTokens' = UsedTokens
      BY <1>8 DEF UsedTokens
  <2>3. UsedSessions' = UsedSessions
      BY <1>2, <1>7 DEF UsedSessions
  <2>. QED
      BY <2>1, <2>2, <2>3, CountStep
<1>. QED
    BY <1>10, <1>11, <1>12, <1>13, <1>14, <1>15

-----------------------------------------------------------------------------
LEMMA NextIInv == IInv /\ [SessionsNext]_svars => IInv'
<1>. SUFFICES ASSUME IInv, [SessionsNext]_svars PROVE IInv'
    OBVIOUS
<1>1. CASE WalletNonce \/ AdminRevokeAccountSessions \/ Lapse
    BY <1>1, WalletNonceStep, AdminRevokeStep, LapseStep
<1>2. CASE \E banned \in BOOLEAN : SetAccountBan(banned)
    BY <1>2, BanStep
<1>3. ASSUME NEW r \in Requests, NEW n \in Nonce, WalletLoginReadNonce(r, n) PROVE IInv'
  <2>1. CASE nonces[n].lapsed
      BY <1>3, <2>1, NonceExpiresStep DEF WalletLoginReadNonce
  <2>2. CASE ~nonces[n].lapsed
      BY <1>3, <2>2, LoginReadStep DEF WalletLoginReadNonce
  <2>. QED
      BY <2>1, <2>2
<1>4. CASE \E r \in Requests : Starts(r)
  <2>1. PICK r \in Requests : Starts(r)
      BY <1>4
  <2>. QED
      BY <1>3, <2>1, BeginRefreshStep, BeginLogoutStep, BeginLaunchStep, BeginConsumeStep DEF Starts
<1>5. CASE \E r \in Requests : Continues(r) \/ Abort(r)
  <2>1. PICK r \in Requests : Continues(r) \/ Abort(r)
      BY <1>5
  <2>2. CASE \/ ConsumeWalletNonce(r) \/ UpsertAccountByWallet(r) \/ IssueSession(r)
             \/ RefreshChecks(r) \/ RotateLockToken(r) \/ RotateTouchSession(r)
             \/ RotateCommit(r) \/ RefreshRecache(r)
      BY <2>2, ConsumeNonceStep, UpsertStep, IssueSessionStep, RefreshChecksStep, RotateLockTokenStep,
         TouchSessionStep, RotateCommitStep, EndSteps
  <2>3. CASE \/ RevokeLockSession(r) \/ RevokeSnapshot(r) \/ RevokeCommit(r) \/ LogoutReport(r)
             \/ (\E t \in Token : RevokeLockToken(r, t))
             \/ LaunchCache(r) \/ LaunchSaveTicket(r) \/ ConsumeTicketAdmit(r)
             \/ DeadlockVictim(r) \/ Abort(r)
      BY <2>3, LogoutSteps, RevokeCommitStep, EndSteps, LaunchCacheStep, SaveTicketStep, AdmitStep,
         DeadlockVictimStep
  <2>. QED
      BY <2>1, <2>2, <2>3 DEF Continues
<1>6. CASE UNCHANGED svars
    BY <1>6, TableFacts, TablesStep DEF svars
<1>. QED
    BY <1>1, <1>2, <1>4, <1>5, <1>6 DEF SessionsNext

LEMMA SessionsIInv == SessionsSpec => []IInv
<1>. QED
    BY InitIInv, NextIInv, PTL DEF SessionsSpec

LEMMA TypeFollows == IInv => SessionsTypeOK
<1>. SUFFICES ASSUME IInv PROVE SessionsTypeOK
    OBVIOUS
<1>1. /\ nonces \in [Nonce -> NonceRow] /\ tickets \in [Ticket -> TicketRow]
      /\ sessions \in [Session -> SessionStatus] /\ refreshTokens \in [Token -> TokenRow]
      /\ account \in {"NONE", "ACTIVE", "BANNED"} /\ cached \subseteq Session
    BY DEF IInv, ShapeInv, TicketTable
<1>2. \A n \in Nonce : nonces[n].status \in {"NONE", "PENDING", "CONSUMED", "EXPIRED"}
    BY <1>1 DEF NonceRow
<1>3. \A k \in Ticket : tickets[k].status \in {"NONE", "ACTIVE", "CONSUMED"}
    BY <1>1 DEF TicketRow
<1>4. ASSUME NEW t \in Token
      PROVE  /\ refreshTokens[t].session \in Session \cup {NoRow}
             /\ refreshTokens[t].parent \in 0 .. t - 1
             /\ \A u \in Token : refreshTokens[t].parent # NoRow
                    /\ refreshTokens[u].parent = refreshTokens[t].parent => t = u
  <2>1. refreshTokens[t] \in TokenRow /\ t \in Nat /\ t >= 1
      BY <1>1 DEF Token
  <2>2. refreshTokens[t].parent \in Nat /\ refreshTokens[t].session \in Session \cup {NoRow}
      BY <2>1 DEF TokenRow
  <2>3. refreshTokens[t].parent = 0 \/ refreshTokens[t].parent < t
      BY DEF IInv, ChainInv, NoRow
  <2>4. refreshTokens[t].parent \in 0 .. t - 1
      BY <2>1, <2>2, <2>3
  <2>. QED
      BY <2>2, <2>4 DEF IInv, ChainInv
<1>. QED
    BY <1>1, <1>2, <1>3, <1>4 DEF SessionsTypeOK

(* WalletLogin, RotateRefreshToken and RevokeAccountSession, however the   *)
(* requests interleave, deadlock, fail and restart: a nonce opens at most  *)
(* one session, an ACTIVE session has one live refresh token, and a token  *)
(* at most one successor.                                                  *)
THEOREM TokensNeverFork == SessionsSpec => []TokensDoNotFork
<1>1. IInv => OneLiveToken
  <2>. SUFFICES ASSUME IInv, NEW s \in Session, sessions[s] = "ACTIVE"
                PROVE  Cardinality(LiveTokens(s)) = 1
      BY DEF OneLiveToken
  <2>1. PICK t \in Token : LiveTokens(s) = {t}
      BY DEF IInv, LiveInv
  <2>. QED
      BY <2>1, FS_Singleton
<1>2. IInv => TokensDoNotFork
    BY <1>1, TypeFollows DEF IInv, GrantInv, TokensDoNotFork
<1>. QED
    BY <1>2, SessionsIInv, PTL

(* A request that begins after its session was revoked, or that runs under *)
(* a ban from beginning to end, obtains no session, token, ticket or entry.*)
THEOREM NothingEverAfterRevocation == SessionsSpec => []NothingAfterRevocation
<1>1. IInv => NothingAfterRevocation
    BY DEF IInv, GrantInv
<1>. QED
    BY <1>1, SessionsIInv, PTL

-----------------------------------------------------------------------------
(* Presence: the rows, and what a handler has in hand. *)
OnlineRow == {Absent} \cup [server : registered, conn : Nat \ {0}]
HandlerRow == [op : {"resting", "enter", "cache", "uncache", "srem"}, account : Accounts \cup {""},
               row : OnlineRow, server : GameServers \cup {""}, stale : SUBSET Accounts]

(* The handler of an enter, a beat or a leave names an account, and a row  *)
(* of a registered server with a connection of its own.                    *)
PresenceIInv ==
    /\ registered \subseteq GameServers /\ live \subseteq registered /\ lastConn \in Nat
    /\ online \in [Accounts -> OnlineRow]
    /\ silent \subseteq {a \in Accounts : online[a] # Absent}
    /\ players \in [GameServers -> 0 .. Cardinality(Accounts)]
    /\ members \in [GameServers -> SUBSET Accounts]
    /\ handler \in [Handlers -> HandlerRow]
    /\ \A h \in Handlers : handler[h].op \in {"enter", "cache", "uncache"} =>
          handler[h].account \in Accounts /\ handler[h].row # Absent

(* Counts of accounts. *)
LEMMA CountsInRange ==
    /\ \A S \in SUBSET Accounts : IsFiniteSet(S) /\ Cardinality(S) \in 0 .. Cardinality(Accounts)
    /\ Cardinality(Accounts) \in Nat
<1>1. IsFiniteSet(Accounts) /\ Cardinality(Accounts) \in Nat
    BY CapacityAssumption, FS_CardinalityType
<1>2. ASSUME NEW S \in SUBSET Accounts
      PROVE  IsFiniteSet(S) /\ Cardinality(S) \in 0 .. Cardinality(Accounts)
  <2>1. IsFiniteSet(S) /\ Cardinality(S) <= Cardinality(Accounts)
      BY <1>1, FS_Subset
  <2>2. Cardinality(S) \in Nat
      BY <2>1, FS_CardinalityType
  <2>. QED
      BY <1>1, <2>1, <2>2
<1>. QED
    BY <1>1, <1>2

LEMMA RecountType ==
    ASSUME players \in [GameServers -> 0 .. Cardinality(Accounts)], NEW rows, NEW gs
    PROVE  Recount(rows, gs) \in [GameServers -> 0 .. Cardinality(Accounts)]
<1>1. \A g : RowsAt(rows, g) \in 0 .. Cardinality(Accounts)
    BY CountsInRange DEF RowsAt
<1>. QED
    BY <1>1 DEF Recount

LEMMA RestingFacts ==
    Resting \in HandlerRow /\ Resting.op = "resting"
BY DEF Resting, HandlerRow, OnlineRow

LEMMA PresenceInitIInv == PresenceInit => PresenceIInv
<1>. SUFFICES ASSUME PresenceInit PROVE PresenceIInv
    OBVIOUS
<1>1. 0 \in 0 .. Cardinality(Accounts)
    BY CountsInRange
<1>. QED
    BY <1>1, RestingFacts DEF PresenceInit, PresenceIInv, OnlineRow

(* A handler's step: its new row, and the cached presence it may have      *)
(* written.                                                                *)
LEMMA HandlerGoes ==
    ASSUME PresenceIInv, NEW h \in Handlers, NEW y \in HandlerRow, handler' = [handler EXCEPT ![h] = y],
           y.op \in {"enter", "cache", "uncache"} => y.account \in Accounts /\ y.row # Absent,
           members' \in [GameServers -> SUBSET Accounts], lastConn' \in Nat,
           registered' = registered, live' \subseteq registered,
           online' \in [Accounts -> OnlineRow],
           silent' \subseteq {a \in Accounts : online'[a] # Absent},
           players' \in [GameServers -> 0 .. Cardinality(Accounts)]
    PROVE  PresenceIInv'
<1>1. HandlerRow' = HandlerRow /\ OnlineRow' = OnlineRow
    BY DEF HandlerRow, OnlineRow
<1>2. /\ handler' \in [Handlers -> HandlerRow] /\ handler'[h] = y
      /\ \A i \in Handlers : i # h => handler'[i] = handler[i]
    BY DEF PresenceIInv
<1>. QED
    BY <1>1, <1>2 DEF PresenceIInv

LEMMA RegistryStep ==
    ASSUME PresenceIInv, NEW g \in GameServers,
           \/ RegisterGameServer(g) \/ ServerFallsSilent(g)
           \/ \E n \in 0 .. Cardinality(Accounts) : HeartbeatGameServer(g, n)
    PROVE  PresenceIInv'
<1>1. /\ registered \subseteq registered' /\ registered' \subseteq GameServers /\ live' \subseteq registered'
      /\ UNCHANGED <<online, silent, members, handler, lastConn>>
    BY DEF PresenceIInv, RegisterGameServer, ServerFallsSilent, HeartbeatGameServer
<1>2. players' \in [GameServers -> 0 .. Cardinality(Accounts)]
    BY DEF PresenceIInv, RegisterGameServer, ServerFallsSilent, HeartbeatGameServer
<1>3. OnlineRow \subseteq OnlineRow'
    BY <1>1 DEF OnlineRow
<1>4. HandlerRow \subseteq HandlerRow'
    BY <1>3 DEF HandlerRow
<1>5. online' \in [Accounts -> OnlineRow'] /\ handler' \in [Handlers -> HandlerRow']
    BY <1>1, <1>3, <1>4 DEF PresenceIInv
<1>. QED
    BY <1>1, <1>2, <1>5 DEF PresenceIInv

LEMMA EnterDropStep ==
    ASSUME PresenceIInv, NEW h \in Handlers, NEW a \in Accounts, NEW g \in GameServers,
           EnterDropPrevious(h, a, g)
    PROVE  PresenceIInv'
<1>. DEFINE row == [server |-> g, conn |-> lastConn + 1]
            y == [Resting EXCEPT !.op = "enter", !.account = a, !.row = row]
<1>1. g \in registered /\ lastConn \in Nat
    BY DEF PresenceIInv, EnterDropPrevious
<1>2. row \in OnlineRow /\ row # Absent
  <2>1. lastConn + 1 \in Nat \ {0} /\ row.conn # Absent.conn
      BY <1>1 DEF Absent
  <2>. QED
      BY <1>1, <2>1 DEF OnlineRow
<1>3. handler' = [handler EXCEPT ![h] = y]
    BY DEF EnterDropPrevious
<1>. HIDE DEF row
<1>4. y \in HandlerRow /\ y.account = a /\ y.row = row
    BY <1>2 DEF Resting, HandlerRow
<1>. HIDE DEF y
<1>5. members' \in [GameServers -> SUBSET Accounts]
    BY DEF EnterDropPrevious, PresenceIInv
<1>6. /\ lastConn' \in Nat /\ registered' = registered /\ live' \subseteq registered
      /\ online' \in [Accounts -> OnlineRow] /\ silent' \subseteq {b \in Accounts : online'[b] # Absent}
      /\ players' \in [GameServers -> 0 .. Cardinality(Accounts)]
    BY DEF EnterDropPrevious, PresenceIInv
<1>. QED
    BY <1>2, <1>3, <1>4, <1>5, <1>6, HandlerGoes

LEMMA FinishSteps ==
    ASSUME PresenceIInv, NEW h \in Handlers, Finishes(h)
    PROVE  PresenceIInv'
<1>1. handler[h] \in HandlerRow /\ handler \in [Handlers -> HandlerRow]
    BY DEF PresenceIInv
<1>2. CASE EnterOnlineSession(h)
  <2>. DEFINE a == handler[h].account
              row == handler[h].row
              y == [handler[h] EXCEPT !.op = "cache"]
  <2>1. a \in Accounts /\ row \in OnlineRow /\ row # Absent
      BY <1>1, <1>2 DEF EnterOnlineSession, PresenceIInv, HandlerRow
  <2>2. row.server \in registered
      BY <2>1 DEF OnlineRow
  <2>3. handler' = [handler EXCEPT ![h] = y]
      BY <1>1, <1>2 DEF EnterOnlineSession
  <2>4. y \in HandlerRow /\ y.account = a /\ y.row = row
      BY <1>1 DEF HandlerRow
  <2>5. /\ online' = [online EXCEPT ![a] = row] /\ players' = Recount(online', {row.server})
        /\ live' = live \cup {row.server} /\ silent' = silent \ {a}
        /\ UNCHANGED <<registered, members, lastConn>>
      BY <1>2 DEF EnterOnlineSession
  <2>. HIDE DEF a, row, y
  <2>6. /\ online' \in [Accounts -> OnlineRow]
        /\ silent' \subseteq {b \in Accounts : online'[b] # Absent}
      BY <2>1, <2>5 DEF PresenceIInv
  <2>7. players' \in [GameServers -> 0 .. Cardinality(Accounts)]
      BY <2>5, RecountType DEF PresenceIInv
  <2>8. /\ live' \subseteq registered /\ registered' = registered /\ lastConn' \in Nat
        /\ members' \in [GameServers -> SUBSET Accounts]
      BY <2>2, <2>5 DEF PresenceIInv
  <2>. QED
      BY <2>1, <2>3, <2>4, <2>6, <2>7, <2>8, HandlerGoes
<1>3. CASE CacheOnline(h) \/ LeaveUncache(h) \/ CountRemove(h)
  <2>1. handler' = [handler EXCEPT ![h] = Resting] /\ UNCHANGED <<online, silent, players, registered, live, lastConn>>
      BY <1>3 DEF CacheOnline, LeaveUncache, CountRemove, Rest
  <2>2. members' \in [GameServers -> SUBSET Accounts]
    <3>1. handler[h].op \in {"cache", "uncache"} => handler[h].account \in Accounts
        BY DEF PresenceIInv
    <3>2. members \in [GameServers -> SUBSET Accounts]
        BY DEF PresenceIInv
    <3>. QED
        BY <1>3, <3>1, <3>2 DEF CacheOnline, LeaveUncache, CountRemove
  <2>3. /\ live' \subseteq registered /\ registered' = registered /\ lastConn' \in Nat
        /\ online' \in [Accounts -> OnlineRow] /\ silent' \subseteq {b \in Accounts : online'[b] # Absent}
        /\ players' \in [GameServers -> 0 .. Cardinality(Accounts)]
      BY <2>1 DEF PresenceIInv
  <2>. QED
      BY <2>1, <2>2, <2>3, RestingFacts, HandlerGoes
<1>. QED
    BY <1>2, <1>3 DEF Finishes

LEMMA CountReadStep ==
    ASSUME PresenceIInv, NEW h \in Handlers, NEW g \in GameServers, CountRead(h, g)
    PROVE  PresenceIInv'
<1>. DEFINE stale == members[g] \ Counted(g)
            y == [Resting EXCEPT !.op = "srem", !.server = g, !.stale = stale]
<1>1. stale \in SUBSET Accounts
    BY DEF PresenceIInv
<1>2. handler' = [handler EXCEPT ![h] = y]
    BY DEF CountRead
<1>. HIDE DEF stale
<1>3. y \in HandlerRow /\ y.op = "srem"
    BY <1>1 DEF Resting, HandlerRow, OnlineRow
<1>. HIDE DEF y
<1>4. /\ live' \subseteq registered /\ registered' = registered /\ lastConn' \in Nat
      /\ online' \in [Accounts -> OnlineRow] /\ silent' \subseteq {b \in Accounts : online'[b] # Absent}
      /\ players' \in [GameServers -> 0 .. Cardinality(Accounts)]
      /\ members' \in [GameServers -> SUBSET Accounts]
    BY DEF PresenceIInv, CountRead
<1>. QED
    BY <1>2, <1>3, <1>4, HandlerGoes

LEMMA TouchLeaveSteps ==
    ASSUME PresenceIInv, NEW h \in Handlers, NEW a \in Accounts, NEW c,
           TouchOnlineSession(h, a, c) \/ LeaveOnlineSession(h, a, c)
    PROVE  PresenceIInv'
<1>1. /\ online[a] # Absent /\ online[a] \in OnlineRow /\ silent' = silent \ {a}
      /\ UNCHANGED <<registered, live, members, lastConn>>
    BY DEF PresenceIInv, TouchOnlineSession, LeaveOnlineSession
<1>2. /\ live' \subseteq registered /\ registered' = registered /\ lastConn' \in Nat
      /\ members' \in [GameServers -> SUBSET Accounts]
    BY <1>1 DEF PresenceIInv
<1>3. CASE TouchOnlineSession(h, a, c)
  <2>. DEFINE y == [Resting EXCEPT !.op = "cache", !.account = a, !.row = online[a]]
  <2>1. handler' = [handler EXCEPT ![h] = y]
      BY <1>3 DEF TouchOnlineSession
  <2>2. y \in HandlerRow /\ y.account = a /\ y.row = online[a]
      BY <1>1 DEF Resting, HandlerRow
  <2>. HIDE DEF y
  <2>3. /\ online' \in [Accounts -> OnlineRow] /\ silent' \subseteq {b \in Accounts : online'[b] # Absent}
        /\ players' \in [GameServers -> 0 .. Cardinality(Accounts)]
      BY <1>1, <1>3 DEF PresenceIInv, TouchOnlineSession
  <2>. QED
      BY <1>1, <1>2, <2>1, <2>2, <2>3, HandlerGoes
<1>4. CASE LeaveOnlineSession(h, a, c)
  <2>. DEFINE y == [Resting EXCEPT !.op = "uncache", !.account = a, !.row = online[a]]
  <2>1. handler' = [handler EXCEPT ![h] = y] /\ online' = [online EXCEPT ![a] = Absent]
        /\ players' = Recount(online', {online[a].server})
      BY <1>4 DEF LeaveOnlineSession
  <2>2. y \in HandlerRow /\ y.account = a /\ y.row = online[a]
      BY <1>1 DEF Resting, HandlerRow
  <2>. HIDE DEF y
  <2>3. Absent \in OnlineRow
      BY DEF OnlineRow
  <2>4. online' \in [Accounts -> OnlineRow] /\ silent' \subseteq {b \in Accounts : online'[b] # Absent}
      BY <1>1, <2>1, <2>3 DEF PresenceIInv
  <2>5. players' \in [GameServers -> 0 .. Cardinality(Accounts)]
      BY <2>1, RecountType DEF PresenceIInv
  <2>. QED
      BY <1>1, <1>2, <2>1, <2>2, <2>4, <2>5, HandlerGoes
<1>. QED
    BY <1>3, <1>4

LEMMA SweepStep ==
    ASSUME PresenceIInv, SweepStaleOnline
    PROVE  PresenceIInv'
<1>1. /\ online' = [a \in Accounts |-> IF a \in silent THEN Absent ELSE online[a]]
      /\ players' = Recount(online', {online[a].server : a \in silent}) /\ silent' = {}
      /\ UNCHANGED <<registered, live, members, handler, lastConn>>
    BY DEF SweepStaleOnline
<1>2. OnlineRow' = OnlineRow /\ HandlerRow' = HandlerRow /\ Absent \in OnlineRow
    BY <1>1 DEF OnlineRow, HandlerRow
<1>3. online' \in [Accounts -> OnlineRow]
    BY <1>1, <1>2 DEF PresenceIInv
<1>4. players' \in [GameServers -> 0 .. Cardinality(Accounts)]
    BY <1>1, RecountType DEF PresenceIInv
<1>. QED
    BY <1>1, <1>2, <1>3, <1>4 DEF PresenceIInv

LEMMA SilenceSteps ==
    ASSUME PresenceIInv, (\E a \in Accounts : FallSilent(a) \/ KeyExpires(a)) \/ UNCHANGED pvars
    PROVE  PresenceIInv'
<1>1. /\ UNCHANGED <<online, players, registered, live, members, handler, lastConn>>
      /\ silent' \subseteq {a \in Accounts : online[a] # Absent}
    BY DEF FallSilent, KeyExpires, pvars, PresenceIInv
<1>2. OnlineRow' = OnlineRow /\ HandlerRow' = HandlerRow
    BY <1>1 DEF OnlineRow, HandlerRow
<1>. QED
    BY <1>1, <1>2 DEF PresenceIInv

LEMMA PresenceNextIInv == PresenceIInv /\ [PresenceNext]_pvars => PresenceIInv'
BY RegistryStep, EnterDropStep, FinishSteps, CountReadStep, TouchLeaveSteps, SweepStep, SilenceSteps
   DEF PresenceNext

LEMMA PresenceSpecIInv == PresenceSpec => []PresenceIInv
<1>. QED
    BY PresenceInitIInv, PresenceNextIInv, PTL DEF PresenceSpec

(* A server that reaches the full threshold has room for nobody more.      *)
LEMMA ThresholdFits ==
    PublicFullThreshold(Capacity) \in 1 .. Capacity
BY CapacityAssumption DEF PublicFullThreshold

LEMMA RoomFound == PresenceIInv => LaunchFindsRoom
<1>. SUFFICES ASSUME PresenceIInv PROVE LaunchFindsRoom
    OBVIOUS
<1>1. \A g \in GameServers : Counted(g) \in SUBSET Accounts
    BY DEF PresenceIInv, Counted
<1>2. \A g \in GameServers : Cardinality(Counted(g)) \in Nat
    BY <1>1, CountsInRange
<1>3. registered \subseteq GameServers
    BY DEF PresenceIInv
<1>4. \A g \in LaunchServers : Cardinality(Counted(g)) < Capacity
  <2>. SUFFICES ASSUME NEW g \in LaunchServers PROVE Cardinality(Counted(g)) < Capacity
      OBVIOUS
  <2>1. g \in registered /\ PublicServerStatus(g) = "online"
      BY DEF LaunchServers, LaunchCandidates
  <2>2. ~(Cardinality(Counted(g)) >= PublicFullThreshold(Capacity))
      BY <2>1 DEF PublicServerStatus
  <2>. QED
      BY <1>2, <1>3, <2>1, <2>2, ThresholdFits, CapacityAssumption
<1>5. ASSUME NEW g \in registered \cap live, Counted(g) = {}
      PROVE  LaunchServers # {}
  <2>. DEFINE loads == {Cardinality(Counted(k)) : k \in LaunchCandidates}
  <2>1. Cardinality(Counted(g)) = 0
      BY <1>5, FS_EmptySet
  <2>2. ~(Cardinality(Counted(g)) >= PublicFullThreshold(Capacity))
      BY <2>1, ThresholdFits
  <2>3. g \in LaunchCandidates
      BY <2>2 DEF LaunchCandidates, PublicServerStatus
  <2>4. loads \in SUBSET Nat /\ loads # {}
      BY <1>2, <1>3, <2>3 DEF LaunchCandidates
  <2>5. PICK m \in loads : \A n \in loads : m <= n
      BY <2>4, LeastNumber
  <2>6. PICK k \in LaunchCandidates : m = Cardinality(Counted(k))
      BY <2>5
  <2>7. k \in LaunchServers
      BY <2>5, <2>6 DEF LaunchServers
  <2>. QED
      BY <2>7
<1>. QED
    BY <1>4, <1>5 DEF LaunchFindsRoom

(* Only the connection itself and the sweep take a row away.               *)
RowTakenRightly(a) ==
    (online[a] # Absent /\ online'[a] = Absent) =>
         \/ a \in silent
         \/ \E h \in Handlers : /\ handler'[h].op = "uncache"
                                /\ handler'[h].account = a
                                /\ handler'[h].row = online[a]

LEMMA RowsTakenRightly ==
    ASSUME PresenceIInv, [PresenceNext]_pvars
    PROVE  \A a \in Accounts : RowTakenRightly(a)
<1>1. ASSUME NEW g \in GameServers,
             \/ RegisterGameServer(g) \/ ServerFallsSilent(g)
             \/ \E n \in 0 .. Cardinality(Accounts) : HeartbeatGameServer(g, n)
      PROVE  online' = online
    BY <1>1 DEF RegisterGameServer, ServerFallsSilent, HeartbeatGameServer
<1>2. ASSUME NEW h \in Handlers, Finishes(h), NEW a \in Accounts, online[a] # Absent
      PROVE  online'[a] # Absent
  <2>1. CASE EnterOnlineSession(h)
    <3>1. /\ handler[h].account \in Accounts /\ handler[h].row # Absent
          /\ online' = [online EXCEPT ![handler[h].account] = handler[h].row]
        BY <2>1 DEF EnterOnlineSession, PresenceIInv
    <3>. QED
        BY <1>2, <3>1 DEF PresenceIInv
  <2>2. CASE CacheOnline(h) \/ LeaveUncache(h) \/ CountRemove(h)
      BY <1>2, <2>2 DEF CacheOnline, LeaveUncache, CountRemove
  <2>. QED
      BY <1>2, <2>1, <2>2 DEF Finishes
<1>3. ASSUME NEW h \in Handlers,
             \/ \E g \in GameServers : CountRead(h, g)
             \/ \E a \in Accounts, g \in GameServers : EnterDropPrevious(h, a, g)
             \/ \E a \in Accounts, c \in 1 .. lastConn : TouchOnlineSession(h, a, c)
      PROVE  online' = online
    BY <1>3 DEF CountRead, EnterDropPrevious, TouchOnlineSession
<1>4. ASSUME NEW h \in Handlers, NEW b \in Accounts, NEW c \in 1 .. lastConn, LeaveOnlineSession(h, b, c),
             NEW a \in Accounts
      PROVE  RowTakenRightly(a)
  <2>. DEFINE y == [Resting EXCEPT !.op = "uncache", !.account = b, !.row = online[b]]
  <2>1. handler' = [handler EXCEPT ![h] = y] /\ online' = [online EXCEPT ![b] = Absent]
      BY <1>4 DEF LeaveOnlineSession
  <2>2. y.op = "uncache" /\ y.account = b /\ y.row = online[b]
      BY DEF Resting
  <2>. HIDE DEF y
  <2>3. handler'[h] = y /\ (a # b => online'[a] = online[a])
      BY <2>1 DEF PresenceIInv
  <2>. QED
      BY <2>2, <2>3 DEF RowTakenRightly
<1>5. ASSUME SweepStaleOnline, NEW a \in Accounts PROVE RowTakenRightly(a)
    BY <1>5 DEF SweepStaleOnline, RowTakenRightly
<1>6. ASSUME (\E a \in Accounts : FallSilent(a) \/ KeyExpires(a)) \/ UNCHANGED pvars
      PROVE  online' = online
    BY <1>6 DEF FallSilent, KeyExpires, pvars
<1>7. online' = online => \A a \in Accounts : RowTakenRightly(a)
    BY DEF RowTakenRightly
<1>8. CASE \E h \in Handlers : Finishes(h)
    BY <1>2, <1>8 DEF RowTakenRightly
<1>. QED
    BY <1>1, <1>3, <1>4, <1>5, <1>6, <1>7, <1>8 DEF PresenceNext

(* However enters, beats, leaves, sweeps and counts race: rows name        *)
(* registered servers and counters stay within the accounts, nobody is     *)
(* counted on two servers, a launch finds room where there is room, and a  *)
(* connection that was replaced takes nobody offline.                      *)
THEOREM PresenceAlwaysSafe == PresenceSpec => PresenceSafe
<1>1. PresenceIInv => PresenceTypeOK
    BY DEF PresenceIInv, PresenceTypeOK, OnlineRow
<1>2. CountedOnce
    BY DEF CountedOnce, Counted
<1>3. PresenceIInv => PresenceTypeOK /\ CountedOnce /\ LaunchFindsRoom
    BY <1>1, <1>2, RoomFound
<1>4. PresenceIInv /\ [PresenceNext]_pvars =>
        [\A a \in Accounts :
           (online[a] # Absent /\ online'[a] = Absent) =>
             \/ a \in silent
             \/ \E h \in Handlers : /\ handler'[h].op = "uncache"
                                    /\ handler'[h].account = a
                                    /\ handler'[h].row = online[a]]_pvars
    BY RowsTakenRightly DEF RowTakenRightly
<1>. QED
    BY <1>3, <1>4, PresenceSpecIInv, PTL DEF PresenceSpec, PresenceSafe, OldConnectionHarmless
=============================================================================
