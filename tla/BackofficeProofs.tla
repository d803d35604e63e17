-------------------------- MODULE BackofficeProofs --------------------------
(***************************************************************************)
(* Proofs about the back office: who is let in, what the                   *)
(* super-administrator's operations answer and pay, and which              *)
(* announcements reach the players; and about IdempotentAction, the shape  *)
(* every operation with an opId has.                                       *)
(***************************************************************************)
EXTENDS IdempotentAction, AdminAccess, AdminOps, Announcements, FiniteSetTheorems, WellFoundedInduction, TLAPS

-----------------------------------------------------------------------------
(* Access: the rows of administrators and of services. *)
LoginNonceRow == [admin : Admins \cup {"none"}, status : {"none", "PENDING", "EXPIRED", "CONSUMED"},
                  live : BOOLEAN]
BrowserRow == [step : {"idle", "asked", "login", "signed", "admitted"}, admin : Admins \cup {"none"},
               nonce : LoginNonces \cup {"none"}]
AdminToken == [admin : Admins, nonce : LoginNonces, by : Browsers]
IdentityRow == [kind : {"none", "GAME_SERVER", "WORKER", "OPS"}, capabilities : SUBSET {"economy.gameplay", "economy.rewards"},
                status : {"none", "ACTIVE", "DISABLED"}]
WorkerRow == [step : {"idle", "verified"}, message : DOMAIN Messages \cup {"none"}, expires : Int]
KeyOf(m) == <<Messages[m].service, Messages[m].nonce>>

AdminShape ==
    /\ adminUsers \in [Admins -> {"none", "ACTIVE", "DISABLED"}]
    /\ loginNonces \in [LoginNonces -> LoginNonceRow]
    /\ browser \in [Browsers -> BrowserRow]
    /\ \A b \in Browsers : /\ browser[b].step # "idle" => browser[b].admin \in Admins
                           /\ browser[b].step \in {"login", "signed"} => browser[b].nonce \in LoginNonces
    /\ adminTokens \subseteq AdminToken

ServiceShape ==
    /\ identities \in [Services -> IdentityRow]
    /\ tick \in Nat /\ serviceNonces \in [NonceKeys -> Int]
    /\ worker \in [Workers -> WorkerRow]
    /\ served \in [DOMAIN Messages -> Nat] /\ firstServed \in [DOMAIN Messages -> Int]

DisableShape ==
    /\ pendingAtDisable \in [Admins \cup Services -> Nat]
    /\ servedAfterDisable \in [Admins \cup Services -> Nat]

(* A token's nonce is consumed, and no two tokens share one. *)
TokenInv ==
    /\ \A t \in adminTokens : loginNonces[t.nonce].status = "CONSUMED"
    /\ NonceLogsInOnce

(* The requests past the middleware: of an administrator, of a service. *)
Admitted(f, a) == {b \in Browsers : f[b].step = "admitted" /\ f[b].admin = a}
Verified(f, s) == {w \in Workers : f[w].step = "verified" /\ Messages[f[w].message].service = s}

(* What was served since, and what is past the middleware now, were past   *)
(* it when the administrator or the service was disabled.                  *)
AdminsStop ==
    \A a \in Admins :
        /\ adminUsers[a] # "DISABLED" => servedAfterDisable[a] = 0
        /\ adminUsers[a] = "DISABLED" =>
             servedAfterDisable[a] + Cardinality(Admitted(browser, a)) <= pendingAtDisable[a]

ServicesStop ==
    \A s \in Services :
        /\ identities[s].status # "DISABLED" => servedAfterDisable[s] = 0
        /\ identities[s].status = "DISABLED" =>
             servedAfterDisable[s] + Cardinality(Verified(worker, s)) <= pendingAtDisable[s]

(* A verified request is of this very second: its timestamp is within the  *)
(* skew and its nonce will be kept for the skew from now.                  *)
WorkerInv ==
    \A w \in Workers : worker[w].step = "verified" =>
        /\ worker[w].message \in DOMAIN Messages
        /\ worker[w].expires = tick + MaxSkew
        /\ Messages[worker[w].message].signed >= tick - MaxSkew
        /\ identities[Messages[worker[w].message].service].status # "none"

(* The nonce of a served request is kept for the skew from its service. *)
ServedInv ==
    \A m \in DOMAIN Messages : served[m] > 0 =>
        /\ identities[Messages[m].service].status # "none"
        /\ serviceNonces[KeyOf(m)] >= firstServed[m] + MaxSkew

CapabilitiesOwn ==
    \A s \in Services : identities[s].status # "none" =>
        identities[s].capabilities \subseteq CapabilitiesByKind[identities[s].kind]

NamelessIsNobody == \A s \in Services : identities[s].status = "none" => identities[s] = NoIdentity

AdminIInv == AdminShape /\ TokenInv /\ AdminsStop
ServiceIInv == ServiceShape /\ WorkerInv /\ ServedInv /\ ServedOnce /\ CapabilitiesOwn /\ NamelessIsNobody /\ ServicesStop
AccessIInv == DisableShape /\ AdminIInv /\ ServiceIInv

LEMMA AccessRows ==
    /\ NoNonce \in LoginNonceRow /\ NoNonce.status = "none"
    /\ NoBrowser \in BrowserRow /\ NoBrowser.step = "idle" /\ NoBrowser.admin = "none" /\ NoBrowser.nonce = "none"
    /\ NoWorker \in WorkerRow /\ NoWorker.step = "idle"
    /\ NoIdentity \in IdentityRow /\ NoIdentity.status = "none"
    /\ \A m \in DOMAIN Messages : KeyOf(m) \in NonceKeys
BY DEF NoNonce, LoginNonceRow, NoBrowser, BrowserRow, NoWorker, WorkerRow, NoIdentity, IdentityRow, KeyOf, NonceKeys

LEMMA AccessInitIInv == AccessInit => AccessIInv
<1>. SUFFICES ASSUME AccessInit PROVE AccessIInv
    OBVIOUS
<1>1. DisableShape
    BY DEF AccessInit, DisableShape
<1>2. AdminIInv
    BY AccessRows DEF AccessInit, AdminIInv, AdminShape, TokenInv, NonceLogsInOnce, AdminsStop
<1>3. /\ \A s \in Services : identities[s] = NoIdentity /\ identities[s].status = "none" /\ servedAfterDisable[s] = 0
      /\ \A w \in Workers : worker[w] = NoWorker /\ worker[w].step = "idle"
      /\ \A m \in DOMAIN Messages : served[m] = 0
    BY AccessRows DEF AccessInit
<1>4. ServiceShape
    BY AccessRows DEF AccessInit, ServiceShape
<1>5. ServiceIInv
    BY <1>3, <1>4 DEF ServiceIInv, WorkerInv, ServedInv, ServedOnce, CapabilitiesOwn, NamelessIsNobody, ServicesStop
<1>. QED
    BY <1>1, <1>2, <1>5 DEF AccessIInv

(* The two halves touch each other only through the counters of the        *)
(* disabled, each at its own names.                                        *)
LEMMA ServicesUntouched ==
    ASSUME ServiceIInv, UNCHANGED serviceVars,
           \A s \in Services : pendingAtDisable'[s] = pendingAtDisable[s] /\ servedAfterDisable'[s] = servedAfterDisable[s]
    PROVE  ServiceIInv'
<1>1. UNCHANGED <<identities, tick, serviceNonces, worker, served, firstServed>>
    BY DEF serviceVars
<1>2. ServiceShape'
    BY <1>1 DEF ServiceIInv, ServiceShape
<1>3. WorkerInv' /\ ServedInv' /\ ServedOnce' /\ CapabilitiesOwn' /\ NamelessIsNobody'
    BY <1>1 DEF ServiceIInv, WorkerInv, ServedInv, ServedOnce, CapabilitiesOwn, NamelessIsNobody
<1>4. ServicesStop'
    BY <1>1 DEF ServiceIInv, ServicesStop
<1>. QED
    BY <1>2, <1>3, <1>4 DEF ServiceIInv

LEMMA AdminsUntouched ==
    ASSUME AdminIInv, UNCHANGED adminVars,
           \A a \in Admins : pendingAtDisable'[a] = pendingAtDisable[a] /\ servedAfterDisable'[a] = servedAfterDisable[a]
    PROVE  AdminIInv'
<1>1. UNCHANGED <<adminUsers, loginNonces, browser, adminTokens>>
    BY DEF adminVars
<1>2. AdminShape' /\ TokenInv'
    BY <1>1 DEF AdminIInv, AdminShape, TokenInv, NonceLogsInOnce
<1>3. AdminsStop'
    BY <1>1 DEF AdminIInv, AdminsStop
<1>. QED
    BY <1>2, <1>3 DEF AdminIInv

LEMMA AdmittedFinite ==
    \A f, a : IsFiniteSet(Admitted(f, a)) /\ Cardinality(Admitted(f, a)) \in Nat
<1>. SUFFICES ASSUME NEW f, NEW a PROVE IsFiniteSet(Admitted(f, a)) /\ Cardinality(Admitted(f, a)) \in Nat
    OBVIOUS
<1>1. IsFiniteSet(Admitted(f, a))
    BY AccessAssumption, FS_Subset DEF Admitted
<1>. QED
    BY <1>1, FS_CardinalityType

LEMMA VerifiedFinite ==
    \A f, s : IsFiniteSet(Verified(f, s)) /\ Cardinality(Verified(f, s)) \in Nat
<1>. SUFFICES ASSUME NEW f, NEW s PROVE IsFiniteSet(Verified(f, s)) /\ Cardinality(Verified(f, s)) \in Nat
    OBVIOUS
<1>1. IsFiniteSet(Verified(f, s))
    BY AccessAssumption, FS_Subset DEF Verified
<1>. QED
    BY <1>1, FS_CardinalityType

(* A request moves, to a step that is not past the middleware unless the   *)
(* administrator is active.                                                *)
LEMMA BrowseFacts ==
    ASSUME AdminShape, NEW b \in Browsers, NEW step \in {"idle", "asked", "login", "signed", "admitted"},
           NEW a \in Admins \cup {"none"}, NEW n \in LoginNonces \cup {"none"}, Browse(b, step, a, n),
           step # "idle" => a \in Admins, step \in {"login", "signed"} => n \in LoginNonces
    PROVE  /\ browser' \in [Browsers -> BrowserRow]
           /\ browser'[b].step = step /\ browser'[b].admin = a /\ browser'[b].nonce = n
           /\ \A c \in Browsers : c # b => browser'[c] = browser[c]
           /\ \A c \in Browsers : /\ browser'[c].step # "idle" => browser'[c].admin \in Admins
                                  /\ browser'[c].step \in {"login", "signed"} => browser'[c].nonce \in LoginNonces
<1>. DEFINE y == [step |-> step, admin |-> a, nonce |-> n]
<1>1. y \in BrowserRow /\ y.step = step /\ y.admin = a /\ y.nonce = n
    BY DEF BrowserRow
<1>2. browser' = [browser EXCEPT ![b] = y]
    BY DEF Browse
<1>. HIDE DEF y
<1>3. browser' \in [Browsers -> BrowserRow] /\ browser'[b] = y /\ \A c \in Browsers : c # b => browser'[c] = browser[c]
    BY <1>1, <1>2 DEF AdminShape
<1>. QED
    BY <1>1, <1>3 DEF AdminShape

LEMMA BrowseStep ==
    ASSUME DisableShape, AdminIInv, NEW b \in Browsers,
           NEW step \in {"idle", "asked", "login", "signed", "admitted"},
           NEW a \in Admins \cup {"none"}, NEW n \in LoginNonces \cup {"none"}, Browse(b, step, a, n),
           step # "idle" => a \in Admins, step \in {"login", "signed"} => n \in LoginNonces,
           step = "admitted" => adminUsers[a] # "DISABLED",
           UNCHANGED <<adminUsers, pendingAtDisable, servedAfterDisable>>,
           loginNonces' \in [LoginNonces -> LoginNonceRow], adminTokens' \subseteq AdminToken, TokenInv'
    PROVE  AdminIInv'
<1>1. /\ browser' \in [Browsers -> BrowserRow]
      /\ browser'[b].step = step /\ browser'[b].admin = a /\ browser'[b].nonce = n
      /\ \A c \in Browsers : c # b => browser'[c] = browser[c]
      /\ \A c \in Browsers : /\ browser'[c].step # "idle" => browser'[c].admin \in Admins
                             /\ browser'[c].step \in {"login", "signed"} => browser'[c].nonce \in LoginNonces
    BY BrowseFacts DEF AdminIInv
<1>2. AdminShape'
    BY <1>1 DEF AdminIInv, AdminShape
<1>3. ASSUME NEW x \in Admins, adminUsers[x] = "DISABLED"
      PROVE  Cardinality(Admitted(browser', x)) <= Cardinality(Admitted(browser, x))
  <2>1. Admitted(browser', x) \subseteq Admitted(browser, x)
      BY <1>1, <1>3 DEF Admitted
  <2>. QED
      BY <2>1, AdmittedFinite, FS_Subset
<1>4. AdminsStop'
  <2>. SUFFICES ASSUME NEW x \in Admins
                PROVE  /\ adminUsers'[x] # "DISABLED" => servedAfterDisable'[x] = 0
                       /\ adminUsers'[x] = "DISABLED" =>
                            servedAfterDisable'[x] + Cardinality(Admitted(browser', x)) <= pendingAtDisable'[x]
      BY DEF AdminsStop
  <2>1. servedAfterDisable[x] \in Nat /\ pendingAtDisable[x] \in Nat
      BY DEF DisableShape
  <2>. QED
      BY <1>3, <2>1, AdmittedFinite DEF AdminIInv, AdminsStop
<1>. QED
    BY <1>2, <1>4 DEF AdminIInv

(* A nonce's row changes and leaves what is consumed as it is. *)
NonceGoes(n, row) == loginNonces' = [loginNonces EXCEPT ![n] = row]

LEMMA NonceFacts ==
    ASSUME AdminShape, TokenInv, NEW n \in LoginNonces, NEW row \in LoginNonceRow, NonceGoes(n, row),
           loginNonces[n].status = "CONSUMED" => row.status = "CONSUMED", adminTokens' = adminTokens
    PROVE  loginNonces' \in [LoginNonces -> LoginNonceRow] /\ adminTokens' \subseteq AdminToken /\ TokenInv'
<1>1. /\ loginNonces' \in [LoginNonces -> LoginNonceRow] /\ loginNonces'[n] = row
      /\ \A k \in LoginNonces : k # n => loginNonces'[k] = loginNonces[k]
    BY DEF AdminShape, NonceGoes
<1>2. \A t \in adminTokens : t.nonce \in LoginNonces
    BY DEF AdminShape, AdminToken
<1>. QED
    BY <1>1, <1>2 DEF TokenInv, NonceLogsInOnce, AdminShape

LEMMA NonceRows ==
    ASSUME AdminShape, NEW n \in LoginNonces, NEW status \in {"none", "PENDING", "EXPIRED", "CONSUMED"}
    PROVE  /\ [loginNonces[n] EXCEPT !.live = FALSE] \in LoginNonceRow
           /\ [loginNonces[n] EXCEPT !.live = FALSE].status = loginNonces[n].status
           /\ [loginNonces[n] EXCEPT !.status = status] \in LoginNonceRow
           /\ [loginNonces[n] EXCEPT !.status = status].status = status
<1>1. loginNonces[n] \in LoginNonceRow
    BY DEF AdminShape
<1>. QED
    BY <1>1 DEF LoginNonceRow

LEMMA NonceUnchanged ==
    ASSUME AdminIInv, UNCHANGED <<loginNonces, adminTokens>>
    PROVE  loginNonces' \in [LoginNonces -> LoginNonceRow] /\ adminTokens' \subseteq AdminToken /\ TokenInv'
BY DEF AdminIInv, AdminShape, TokenInv, NonceLogsInOnce

LEMMA LoginSteps ==
    ASSUME DisableShape, AdminIInv, NEW b \in Browsers,
           \/ AdminLoginNonce(b) \/ ConsumeAdminLoginNonce(b)
           \/ \E a \in Admins : AskAdminNonce(b, a) \/ \E n \in LoginNonces : AdminLogin(b, a, n)
           \/ \E n \in LoginNonces : SaveAdminLoginNonce(b, n)
           \/ \E t \in adminTokens : RequireAdmin(b, t)
    PROVE  AdminIInv'
<1>0. AdminShape /\ TokenInv
    BY DEF AdminIInv
<1>1. ASSUME NEW a \in Admins, AskAdminNonce(b, a) PROVE AdminIInv'
  <2>1. Browse(b, "asked", a, "none") /\ UNCHANGED <<adminUsers, loginNonces, adminTokens, pendingAtDisable, servedAfterDisable>>
      BY <1>1 DEF AskAdminNonce, disableVars
  <2>. QED
      BY <2>1, NonceUnchanged, BrowseStep
<1>2. ASSUME NEW a \in Admins, NEW n \in LoginNonces, AdminLogin(b, a, n) PROVE AdminIInv'
  <2>1. Browse(b, "login", a, n) /\ UNCHANGED <<adminUsers, loginNonces, adminTokens, pendingAtDisable, servedAfterDisable>>
      BY <1>2 DEF AdminLogin, disableVars
  <2>. QED
      BY <2>1, NonceUnchanged, BrowseStep
<1>3. ASSUME NEW t \in adminTokens, RequireAdmin(b, t) PROVE AdminIInv'
  <2>1. /\ Browse(b, "admitted", t.admin, "none") /\ adminUsers[t.admin] # "DISABLED"
        /\ UNCHANGED <<adminUsers, loginNonces, adminTokens, pendingAtDisable, servedAfterDisable>>
      BY <1>3 DEF RequireAdmin, disableVars
  <2>2. t.admin \in Admins
      BY <1>0 DEF AdminShape, AdminToken
  <2>. QED
      BY <2>1, <2>2, NonceUnchanged, BrowseStep
<1>4. ASSUME NEW n \in LoginNonces, SaveAdminLoginNonce(b, n) PROVE AdminIInv'
  <2>. DEFINE row == [admin |-> browser[b].admin, status |-> "PENDING", live |-> TRUE]
  <2>1. /\ NonceGoes(n, row) /\ loginNonces[n].status = "none" /\ Browse(b, "idle", "none", "none")
        /\ UNCHANGED <<adminUsers, adminTokens, pendingAtDisable, servedAfterDisable>>
      BY <1>4, AccessRows DEF SaveAdminLoginNonce, disableVars, NonceGoes
  <2>2. row \in LoginNonceRow /\ row.status = "PENDING"
    <3>1. browser[b].admin \in Admins \cup {"none"}
        BY <1>0 DEF AdminShape, BrowserRow
    <3>. QED
        BY <3>1 DEF LoginNonceRow
  <2>. HIDE DEF row
  <2>3. loginNonces' \in [LoginNonces -> LoginNonceRow] /\ adminTokens' \subseteq AdminToken /\ TokenInv'
      BY <1>0, <2>1, <2>2, NonceFacts
  <2>. QED
      BY <2>1, <2>3, BrowseStep
<1>5. ASSUME AdminLoginNonce(b) PROVE AdminIInv'
  <2>. DEFINE n == browser[b].nonce
              row == [loginNonces[n] EXCEPT !.status = "EXPIRED"]
  <2>1. n \in LoginNonces /\ browser[b].admin \in Admins
      BY <1>0, <1>5 DEF AdminLoginNonce, AdminShape
  <2>2. /\ Browse(b, "signed", browser[b].admin, n) \/ Browse(b, "idle", "none", "none")
        /\ \/ loginNonces' = loginNonces
           \/ loginNonces[n].status = "PENDING" /\ loginNonces' = [loginNonces EXCEPT ![n].status = "EXPIRED"]
        /\ UNCHANGED <<adminUsers, adminTokens, pendingAtDisable, servedAfterDisable>>
      BY <1>5 DEF AdminLoginNonce, disableVars
  <2>3. loginNonces' \in [LoginNonces -> LoginNonceRow] /\ adminTokens' \subseteq AdminToken /\ TokenInv'
    <3>1. CASE loginNonces' = loginNonces
        BY <2>2, <3>1, NonceUnchanged
    <3>2. CASE loginNonces[n].status = "PENDING" /\ loginNonces' = [loginNonces EXCEPT ![n].status = "EXPIRED"]
      <4>1. row \in LoginNonceRow /\ NonceGoes(n, row)
          BY <1>0, <2>1, <3>2, NonceRows DEF NonceGoes
      <4>. HIDE DEF row
      <4>. QED
          BY <1>0, <2>1, <2>2, <3>2, <4>1, NonceFacts
    <3>. QED
        BY <2>2, <3>1, <3>2
  <2>. QED
      BY <2>1, <2>2, <2>3, BrowseStep
<1>6. ASSUME ConsumeAdminLoginNonce(b) PROVE AdminIInv'
  <2>. DEFINE n == browser[b].nonce
              row == [loginNonces[n] EXCEPT !.status = "CONSUMED"]
              token == [admin |-> browser[b].admin, nonce |-> n, by |-> b]
  <2>1. n \in LoginNonces /\ browser[b].admin \in Admins
      BY <1>0, <1>6 DEF ConsumeAdminLoginNonce, AdminShape
  <2>2. /\ Browse(b, "idle", "none", "none")
        /\ \/ loginNonces' = loginNonces /\ adminTokens' = adminTokens
           \/ /\ loginNonces[n].status = "PENDING" /\ loginNonces' = [loginNonces EXCEPT ![n].status = "CONSUMED"]
              /\ adminTokens' = adminTokens \cup {token}
        /\ UNCHANGED <<adminUsers, pendingAtDisable, servedAfterDisable>>
      BY <1>6 DEF ConsumeAdminLoginNonce, disableVars
  <2>3. loginNonces' \in [LoginNonces -> LoginNonceRow] /\ adminTokens' \subseteq AdminToken /\ TokenInv'
    <3>1. CASE loginNonces' = loginNonces /\ adminTokens' = adminTokens
        BY <3>1, NonceUnchanged
    <3>2. CASE /\ loginNonces[n].status = "PENDING" /\ loginNonces' = [loginNonces EXCEPT ![n].status = "CONSUMED"]
               /\ adminTokens' = adminTokens \cup {token}
      <4>1. row \in LoginNonceRow /\ row.status = "CONSUMED" /\ loginNonces' = [loginNonces EXCEPT ![n] = row]
          BY <1>0, <2>1, <3>2, NonceRows
      <4>2. token \in AdminToken /\ token.nonce = n
          BY <2>1 DEF AdminToken
      <4>. HIDE DEF row, token
      <4>3. /\ loginNonces' \in [LoginNonces -> LoginNonceRow] /\ loginNonces'[n].status = "CONSUMED"
            /\ \A k \in LoginNonces : k # n => loginNonces'[k] = loginNonces[k]
          BY <1>0, <2>1, <4>1 DEF AdminShape
      <4>4. \A t \in adminTokens : t.nonce \in LoginNonces /\ t.nonce # n /\ loginNonces[t.nonce].status = "CONSUMED"
          BY <1>0, <3>2 DEF AdminShape, AdminToken, TokenInv
      <4>5. \A t \in adminTokens' : t = token \/ t \in adminTokens
          BY <3>2
      <4>6. \A t \in adminTokens' : loginNonces'[t.nonce].status = "CONSUMED"
          BY <4>2, <4>3, <4>4, <4>5
      <4>7. \A s, t \in adminTokens' : s.nonce = t.nonce => s = t
          BY <1>0, <4>2, <4>4, <4>5 DEF TokenInv, NonceLogsInOnce
      <4>8. adminTokens' \subseteq AdminToken
          BY <1>0, <4>2, <4>5 DEF AdminShape
      <4>. QED
          BY <4>3, <4>6, <4>7, <4>8 DEF TokenInv, NonceLogsInOnce
    <3>. QED
        BY <2>2, <3>1, <3>2
  <2>. QED
      BY <2>2, <2>3, BrowseStep
<1>. QED
    BY <1>1, <1>2, <1>3, <1>4, <1>5, <1>6

LEMMA RowSteps ==
    ASSUME DisableShape, AdminIInv,
           \/ \E n \in LoginNonces : LoginNonceExpires(n)
           \/ \E t \in adminTokens : AdminTokenExpires(t)
           \/ \E a \in Admins : CreateAdminUser(a)
    PROVE  AdminIInv'
<1>0. AdminShape /\ TokenInv /\ AdminsStop
    BY DEF AdminIInv
<1>1. ASSUME NEW n \in LoginNonces, LoginNonceExpires(n) PROVE AdminIInv'
  <2>. DEFINE row == [loginNonces[n] EXCEPT !.live = FALSE]
  <2>1. UNCHANGED <<adminUsers, browser, adminTokens, pendingAtDisable, servedAfterDisable>> /\ NonceGoes(n, row)
      BY <1>1 DEF LoginNonceExpires, disableVars, NonceGoes
  <2>2. row \in LoginNonceRow /\ row.status = loginNonces[n].status
      BY <1>0, NonceRows
  <2>. HIDE DEF row
  <2>3. loginNonces' \in [LoginNonces -> LoginNonceRow] /\ adminTokens' \subseteq AdminToken /\ TokenInv'
      BY <1>0, <2>1, <2>2, NonceFacts
  <2>. QED
      BY <1>0, <2>1, <2>3 DEF AdminIInv, AdminShape, AdminsStop
<1>2. ASSUME NEW t \in adminTokens, AdminTokenExpires(t) PROVE AdminIInv'
  <2>1. /\ UNCHANGED <<adminUsers, loginNonces, browser, pendingAtDisable, servedAfterDisable>>
        /\ adminTokens' \subseteq adminTokens
      BY <1>2 DEF AdminTokenExpires, disableVars
  <2>2. TokenInv'
      BY <1>0, <2>1 DEF TokenInv, NonceLogsInOnce
  <2>3. AdminsStop'
      BY <1>0, <2>1 DEF AdminsStop
  <2>4. AdminShape'
      BY <1>0, <2>1 DEF AdminShape
  <2>. QED
      BY <2>2, <2>3, <2>4 DEF AdminIInv
<1>3. ASSUME NEW a \in Admins, CreateAdminUser(a) PROVE AdminIInv'
  <2>1. /\ adminUsers[a] = "none" /\ adminUsers' = [adminUsers EXCEPT ![a] = "ACTIVE"]
        /\ UNCHANGED <<loginNonces, browser, adminTokens, pendingAtDisable, servedAfterDisable>>
      BY <1>3 DEF CreateAdminUser, disableVars
  <2>2. AdminShape' /\ TokenInv'
      BY <1>0, <2>1 DEF AdminShape, TokenInv, NonceLogsInOnce
  <2>3. \A x \in Admins : adminUsers'[x] = IF x = a THEN "ACTIVE" ELSE adminUsers[x]
      BY <1>0, <2>1 DEF AdminShape
  <2>4. AdminsStop'
      BY <1>0, <2>1, <2>3 DEF AdminsStop
  <2>. QED
      BY <2>2, <2>4 DEF AdminIInv
<1>. QED
    BY <1>1, <1>2, <1>3

(* Disabling counts what is past the middleware; each of these that runs   *)
(* leaves one fewer.                                                       *)
LEMMA DisableAdminStep ==
    ASSUME DisableShape, AdminIInv, NEW a \in Admins, DisableAdminUser(a)
    PROVE  DisableShape' /\ AdminIInv' /\ \A s \in Services : pendingAtDisable'[s] = pendingAtDisable[s]
<1>. DEFINE N == Cardinality(Admitted(browser, a))
<1>0. AdminShape /\ TokenInv /\ AdminsStop
    BY DEF AdminIInv
<1>1. /\ adminUsers[a] = "ACTIVE" /\ adminUsers' = [adminUsers EXCEPT ![a] = "DISABLED"]
      /\ pendingAtDisable' = [pendingAtDisable EXCEPT ![a] = N]
      /\ UNCHANGED <<loginNonces, browser, adminTokens, servedAfterDisable>>
    BY DEF DisableAdminUser, Admitted
<1>2. N \in Nat
    BY AdmittedFinite
<1>. HIDE DEF N
<1>3. DisableShape' /\ pendingAtDisable'[a] = N
      /\ \A x \in Admins \cup Services : x # a => pendingAtDisable'[x] = pendingAtDisable[x]
    BY <1>1, <1>2 DEF DisableShape
<1>4. AdminShape' /\ TokenInv'
    BY <1>0, <1>1 DEF AdminShape, TokenInv, NonceLogsInOnce
<1>5. \A x \in Admins : adminUsers'[x] = IF x = a THEN "DISABLED" ELSE adminUsers[x]
    BY <1>0, <1>1 DEF AdminShape
<1>6. ASSUME NEW x \in Admins
      PROVE  /\ adminUsers'[x] # "DISABLED" => servedAfterDisable'[x] = 0
             /\ adminUsers'[x] = "DISABLED" =>
                  servedAfterDisable'[x] + Cardinality(Admitted(browser', x)) <= pendingAtDisable'[x]
  <2>1. CASE x = a
      BY <1>0, <1>1, <1>2, <1>3, <1>5, <2>1 DEF AdminsStop, N
  <2>2. CASE x # a
      BY <1>0, <1>1, <1>3, <1>5, <2>2 DEF AdminsStop
  <2>. QED
      BY <2>1, <2>2
<1>7. AdminsStop'
    BY <1>6 DEF AdminsStop
<1>. QED
    BY <1>3, <1>4, <1>7, AccessAssumption DEF AdminIInv

LEMMA AdminHandlerStep ==
    ASSUME DisableShape, AdminIInv, NEW b \in Browsers, AdminHandlerRuns(b)
    PROVE  DisableShape' /\ AdminIInv' /\ \A s \in Services : servedAfterDisable'[s] = servedAfterDisable[s]
<1>. DEFINE a == browser[b].admin
<1>0. AdminShape /\ TokenInv /\ AdminsStop
    BY DEF AdminIInv
<1>1. /\ browser[b].step = "admitted" /\ Browse(b, "idle", "none", "none")
      /\ AfterDisable(a, adminUsers[a])
      /\ UNCHANGED <<adminUsers, loginNonces, adminTokens, pendingAtDisable>>
    BY DEF AdminHandlerRuns
<1>2. a \in Admins /\ a \notin Services
    BY <1>0, <1>1, AccessAssumption DEF AdminShape
<1>3. /\ browser' \in [Browsers -> BrowserRow] /\ browser'[b].step = "idle"
      /\ \A c \in Browsers : c # b => browser'[c] = browser[c]
      /\ \A c \in Browsers : /\ browser'[c].step # "idle" => browser'[c].admin \in Admins
                             /\ browser'[c].step \in {"login", "signed"} => browser'[c].nonce \in LoginNonces
    BY <1>0, <1>1, BrowseFacts
<1>4. Admitted(browser', a) = Admitted(browser, a) \ {b} /\ b \in Admitted(browser, a)
      /\ \A x \in Admins : x # a => Admitted(browser', x) = Admitted(browser, x)
    BY <1>1, <1>3 DEF Admitted
<1>5. Cardinality(Admitted(browser', a)) = Cardinality(Admitted(browser, a)) - 1
    BY <1>4, AdmittedFinite, FS_RemoveElement
<1>. HIDE DEF a
<1>6. /\ DisableShape' /\ \A x \in Admins \cup Services : x # a => servedAfterDisable'[x] = servedAfterDisable[x]
      /\ adminUsers[a] # "DISABLED" => servedAfterDisable'[a] = servedAfterDisable[a]
      /\ adminUsers[a] = "DISABLED" => servedAfterDisable'[a] = servedAfterDisable[a] + 1
    BY <1>1, <1>2 DEF DisableShape, AfterDisable
<1>7. AdminShape' /\ TokenInv'
    BY <1>0, <1>1, <1>3 DEF AdminShape, TokenInv, NonceLogsInOnce
<1>8. ASSUME NEW x \in Admins
      PROVE  /\ adminUsers'[x] # "DISABLED" => servedAfterDisable'[x] = 0
             /\ adminUsers'[x] = "DISABLED" =>
                  servedAfterDisable'[x] + Cardinality(Admitted(browser', x)) <= pendingAtDisable'[x]
  <2>1. CASE x = a
    <3>1. servedAfterDisable[a] \in Nat /\ pendingAtDisable[a] \in Nat /\ Cardinality(Admitted(browser, a)) \in Nat
        BY <1>2, AdmittedFinite DEF DisableShape
    <3>. QED
        BY <1>0, <1>1, <1>2, <1>5, <1>6, <2>1, <3>1 DEF AdminsStop
  <2>2. CASE x # a
      BY <1>0, <1>1, <1>4, <1>6, <2>2 DEF AdminsStop
  <2>. QED
      BY <2>1, <2>2
<1>9. AdminsStop'
    BY <1>8 DEF AdminsStop
<1>. QED
    BY <1>2, <1>6, <1>7, <1>9 DEF AdminIInv

LEMMA AdminsNextIInv ==
    ASSUME AccessIInv, AdminsNext
    PROVE  AccessIInv'
<1>0. DisableShape /\ AdminIInv /\ ServiceIInv
    BY DEF AccessIInv
<1>1. ASSUME NEW a \in Admins, DisableAdminUser(a) PROVE AccessIInv'
  <2>1. UNCHANGED serviceVars /\ servedAfterDisable' = servedAfterDisable
      BY <1>1 DEF DisableAdminUser
  <2>. QED
      BY <1>0, <1>1, <2>1, DisableAdminStep, ServicesUntouched DEF AccessIInv
<1>2. ASSUME NEW b \in Browsers, AdminHandlerRuns(b) PROVE AccessIInv'
  <2>1. UNCHANGED serviceVars /\ pendingAtDisable' = pendingAtDisable
      BY <1>2 DEF AdminHandlerRuns
  <2>. QED
      BY <1>0, <1>2, <2>1, AdminHandlerStep, ServicesUntouched DEF AccessIInv
<1>3. ASSUME AdminIInv', UNCHANGED serviceVars, UNCHANGED disableVars PROVE AccessIInv'
  <2>1. DisableShape' /\ UNCHANGED <<pendingAtDisable, servedAfterDisable>>
      BY <1>0, <1>3 DEF DisableShape, disableVars
  <2>. QED
      BY <1>0, <1>3, <2>1, ServicesUntouched DEF AccessIInv
<1>4. ASSUME NEW b \in Browsers,
             \/ AdminLoginNonce(b) \/ ConsumeAdminLoginNonce(b)
             \/ \E a \in Admins : AskAdminNonce(b, a) \/ \E n \in LoginNonces : AdminLogin(b, a, n)
             \/ \E n \in LoginNonces : SaveAdminLoginNonce(b, n)
             \/ \E t \in adminTokens : RequireAdmin(b, t)
      PROVE  AccessIInv'
  <2>1. UNCHANGED serviceVars /\ UNCHANGED disableVars
      BY <1>4 DEF AdminLoginNonce, ConsumeAdminLoginNonce, AskAdminNonce, AdminLogin, SaveAdminLoginNonce, RequireAdmin
  <2>2. AdminIInv'
      BY <1>0, <1>4, LoginSteps
  <2>. QED
      BY <1>3, <2>1, <2>2
<1>5. ASSUME \/ \E n \in LoginNonces : LoginNonceExpires(n)
             \/ \E t \in adminTokens : AdminTokenExpires(t)
             \/ \E a \in Admins : CreateAdminUser(a)
      PROVE  AccessIInv'
  <2>1. UNCHANGED serviceVars /\ UNCHANGED disableVars
      BY <1>5 DEF LoginNonceExpires, AdminTokenExpires, CreateAdminUser
  <2>2. AdminIInv'
      BY <1>0, <1>5, RowSteps
  <2>. QED
      BY <1>3, <2>1, <2>2
<1>. QED
    BY <1>1, <1>2, <1>4, <1>5 DEF AdminsNext

-----------------------------------------------------------------------------
(* The services' half. *)
LEMMA IdentityStep ==
    ASSUME ServiceIInv, DisableShape, NEW s \in Services, NEW row \in IdentityRow,
           identities' = [identities EXCEPT ![s] = row], row.status # "none",
           row.capabilities \subseteq CapabilitiesByKind[row.kind],
           UNCHANGED <<tick, serviceNonces, worker, served, firstServed, servedAfterDisable>>,
           identities[s].status # "DISABLED",
           \A x \in Services : x # s => pendingAtDisable'[x] = pendingAtDisable[x],
           row.status = "DISABLED" => pendingAtDisable'[s] = Cardinality(Verified(worker, s))
    PROVE  ServiceIInv'
<1>0. /\ ServiceShape /\ WorkerInv /\ ServedInv /\ ServedOnce /\ CapabilitiesOwn /\ NamelessIsNobody /\ ServicesStop
    BY DEF ServiceIInv
<1>1. /\ identities' \in [Services -> IdentityRow] /\ identities'[s] = row
      /\ \A x \in Services : x # s => identities'[x] = identities[x]
    BY <1>0 DEF ServiceShape
<1>2. ServiceShape'
    BY <1>0, <1>1 DEF ServiceShape
<1>3. \A x \in Services : identities[x].status # "none" => identities'[x].status # "none"
    BY <1>1
<1>4. WorkerInv'
    BY <1>0, <1>3, AccessAssumption DEF WorkerInv
<1>5. ServedInv'
    BY <1>0, <1>3, AccessAssumption DEF ServedInv
<1>6. ServedOnce'
    BY <1>0 DEF ServedOnce
<1>7. CapabilitiesOwn' /\ NamelessIsNobody'
    BY <1>0, <1>1 DEF CapabilitiesOwn, NamelessIsNobody
<1>8. ServicesStop'
  <2>1. servedAfterDisable[s] = 0 /\ Cardinality(Verified(worker, s)) \in Nat
      BY <1>0, VerifiedFinite DEF ServicesStop
  <2>2. ASSUME NEW x \in Services
        PROVE  /\ identities'[x].status # "DISABLED" => servedAfterDisable[x] = 0
               /\ identities'[x].status = "DISABLED" =>
                    servedAfterDisable[x] + Cardinality(Verified(worker, x)) <= pendingAtDisable'[x]
    <3>1. CASE x = s
        BY <1>1, <2>1, <3>1
    <3>2. CASE x # s
        BY <1>0, <1>1, <3>2 DEF ServicesStop
    <3>. QED
        BY <3>1, <3>2
  <2>. QED
      BY <2>2 DEF ServicesStop
<1>. QED
    BY <1>2, <1>4, <1>5, <1>6, <1>7, <1>8 DEF ServiceIInv

LEMMA IdentitySteps ==
    ASSUME AccessIInv, NEW s \in Services,
           \/ DisableServiceIdentity(s)
           \/ \E kind \in {"GAME_SERVER", "OPS"},
                 c \in {{}, {"economy.gameplay"}, {"economy.gameplay", "economy.rewards"}} :
                CreateServiceIdentity(s, kind, c)
    PROVE  AccessIInv'
<1>0. DisableShape /\ AdminIInv /\ ServiceIInv
    BY DEF AccessIInv
<1>1. ASSUME NEW kind \in {"GAME_SERVER", "OPS"},
             NEW c \in {{}, {"economy.gameplay"}, {"economy.gameplay", "economy.rewards"}},
             CreateServiceIdentity(s, kind, c)
      PROVE  AccessIInv'
  <2>. DEFINE row == [kind |-> kind, capabilities |-> c, status |-> "ACTIVE"]
  <2>1. /\ identities[s].status = "none" /\ identities' = [identities EXCEPT ![s] = row]
        /\ c \subseteq CapabilitiesByKind[kind]
        /\ UNCHANGED <<tick, serviceNonces, worker, served, firstServed, pendingAtDisable, servedAfterDisable>>
        /\ UNCHANGED adminVars
      BY <1>1, AccessRows DEF CreateServiceIdentity, NormalizeServiceIdentityInput, disableVars
  <2>2. row \in IdentityRow /\ row.status = "ACTIVE" /\ row.kind = kind /\ row.capabilities = c
    <3>1. c \in SUBSET {"economy.gameplay", "economy.rewards"}
        OBVIOUS
    <3>. QED
        BY <3>1 DEF IdentityRow
  <2>. HIDE DEF row
  <2>3. ServiceIInv'
      BY <1>0, <2>1, <2>2, IdentityStep
  <2>4. AdminIInv' /\ DisableShape'
      BY <1>0, <2>1, AdminsUntouched DEF DisableShape
  <2>. QED
      BY <2>3, <2>4 DEF AccessIInv
<1>2. ASSUME DisableServiceIdentity(s) PROVE AccessIInv'
  <2>. DEFINE row == [identities[s] EXCEPT !.status = "DISABLED"]
              N == Cardinality(Verified(worker, s))
  <2>1. /\ identities[s].status = "ACTIVE" /\ identities' = [identities EXCEPT ![s] = row]
        /\ pendingAtDisable' = [pendingAtDisable EXCEPT ![s] = N]
        /\ UNCHANGED <<tick, serviceNonces, worker, served, firstServed, servedAfterDisable>>
        /\ UNCHANGED adminVars
      BY <1>2 DEF DisableServiceIdentity, Verified
  <2>2. identities[s] \in IdentityRow /\ N \in Nat
      BY <1>0, VerifiedFinite DEF ServiceIInv, ServiceShape
  <2>3. row \in IdentityRow /\ row.status = "DISABLED" /\ row.kind = identities[s].kind
        /\ row.capabilities = identities[s].capabilities
      BY <2>2 DEF IdentityRow
  <2>4. row.capabilities \subseteq CapabilitiesByKind[row.kind]
      BY <1>0, <2>1, <2>3 DEF ServiceIInv, CapabilitiesOwn
  <2>. HIDE DEF row, N
  <2>5. DisableShape' /\ pendingAtDisable'[s] = N
        /\ \A x \in Admins \cup Services : x # s => pendingAtDisable'[x] = pendingAtDisable[x]
      BY <1>0, <2>1, <2>2 DEF DisableShape
  <2>6. ServiceIInv'
      BY <1>0, <2>1, <2>3, <2>4, <2>5, IdentityStep DEF N
  <2>7. AdminIInv'
      BY <1>0, <2>1, <2>5, AdminsUntouched, AccessAssumption
  <2>. QED
      BY <2>5, <2>6, <2>7 DEF AccessIInv
<1>. QED
    BY <1>1, <1>2

LEMMA TickStep ==
    ASSUME AccessIInv, AccessTick
    PROVE  AccessIInv'
<1>0. DisableShape /\ AdminIInv /\ ServiceIInv
    BY DEF AccessIInv
<1>1. /\ tick' = tick + 1 /\ \A w \in Workers : worker[w].step = "idle"
      /\ UNCHANGED <<identities, serviceNonces, worker, served, firstServed, pendingAtDisable, servedAfterDisable>>
      /\ UNCHANGED adminVars
    BY AccessRows DEF AccessTick, disableVars
<1>2. ServiceShape' /\ WorkerInv' /\ ServedInv' /\ ServedOnce'
    BY <1>0, <1>1 DEF ServiceIInv, ServiceShape, WorkerInv, ServedInv, ServedOnce
<1>3. CapabilitiesOwn' /\ NamelessIsNobody' /\ ServicesStop'
    BY <1>0, <1>1 DEF ServiceIInv, CapabilitiesOwn, NamelessIsNobody, ServicesStop
<1>4. AdminIInv' /\ DisableShape'
    BY <1>0, <1>1, AdminsUntouched DEF DisableShape
<1>. QED
    BY <1>2, <1>3, <1>4 DEF AccessIInv, ServiceIInv

LEMMA VerifyStep ==
    ASSUME AccessIInv, NEW w \in Workers, NEW m \in DOMAIN Messages, VerifyServiceRequest(w, m)
    PROVE  AccessIInv'
<1>. DEFINE row == [step |-> "verified", message |-> m, expires |-> tick + MaxSkew]
<1>0. /\ DisableShape /\ AdminIInv
      /\ ServiceShape /\ WorkerInv /\ ServedInv /\ ServedOnce /\ CapabilitiesOwn /\ NamelessIsNobody /\ ServicesStop
    BY DEF AccessIInv, ServiceIInv
<1>1. /\ worker[w].step = "idle" /\ worker' = [worker EXCEPT ![w] = row]
      /\ identities[Messages[m].service].status = "ACTIVE" /\ Messages[m].signed >= tick - MaxSkew
      /\ UNCHANGED <<identities, tick, serviceNonces, served, firstServed, pendingAtDisable, servedAfterDisable>>
      /\ UNCHANGED adminVars
    BY AccessRows DEF VerifyServiceRequest, NonceExpiry, disableVars
<1>2. row \in WorkerRow /\ row.step = "verified" /\ row.message = m /\ row.expires = tick + MaxSkew
    BY <1>0, AccessAssumption DEF WorkerRow, ServiceShape
<1>. HIDE DEF row
<1>3. worker' \in [Workers -> WorkerRow] /\ worker'[w] = row /\ \A v \in Workers : v # w => worker'[v] = worker[v]
    BY <1>0, <1>1, <1>2 DEF ServiceShape
<1>4. ServiceShape'
    BY <1>0, <1>1, <1>3 DEF ServiceShape
<1>5. WorkerInv'
    BY <1>0, <1>1, <1>2, <1>3 DEF WorkerInv
<1>6. ServedInv' /\ ServedOnce' /\ CapabilitiesOwn' /\ NamelessIsNobody'
    BY <1>0, <1>1 DEF ServedInv, ServedOnce, CapabilitiesOwn, NamelessIsNobody
<1>7. \A s \in Services : identities[s].status = "DISABLED" => Verified(worker', s) = Verified(worker, s)
    BY <1>1, <1>2, <1>3 DEF Verified
<1>8. ServicesStop'
    BY <1>0, <1>1, <1>7 DEF ServicesStop
<1>9. AdminIInv' /\ DisableShape'
    BY <1>0, <1>1, AdminsUntouched DEF DisableShape
<1>. QED
    BY <1>4, <1>5, <1>6, <1>8, <1>9 DEF AccessIInv, ServiceIInv

(* A verified request is served or found served: while the timestamp of a  *)
(* served request, behind the clock when it was served, is within the      *)
(* skew, its nonce is still there.                                         *)
LEMMA ConsumeStep ==
    ASSUME AccessIInv, NEW w \in Workers, ConsumeServiceNonce(w)
    PROVE  AccessIInv'
<1>. DEFINE m == worker[w].message
            key == KeyOf(m)
            s == Messages[m].service
<1>0. /\ DisableShape /\ AdminIInv
      /\ ServiceShape /\ WorkerInv /\ ServedInv /\ ServedOnce /\ CapabilitiesOwn /\ NamelessIsNobody /\ ServicesStop
    BY DEF AccessIInv, ServiceIInv
<1>1. worker[w].step = "verified" /\ worker' = [worker EXCEPT ![w] = NoWorker]
      /\ UNCHANGED <<identities, tick, pendingAtDisable>> /\ UNCHANGED adminVars
    BY DEF ConsumeServiceNonce
<1>2. /\ m \in DOMAIN Messages /\ s \in Services /\ s \notin Admins /\ key \in NonceKeys
      /\ worker[w].expires = tick + MaxSkew
      /\ Messages[m].signed >= tick - MaxSkew /\ Messages[m].signed \in Int /\ identities[s].status # "none"
    BY <1>0, <1>1, AccessAssumption, AccessRows DEF WorkerInv
<1>3. \/ UNCHANGED <<serviceNonces, served, firstServed, servedAfterDisable>>
      \/ /\ serviceNonces[key] <= tick
         /\ serviceNonces' = [serviceNonces EXCEPT ![key] = tick + MaxSkew]
         /\ served' = [served EXCEPT ![m] = @ + 1]
         /\ firstServed' = IF served[m] = 0 THEN [firstServed EXCEPT ![m] = tick] ELSE firstServed
         /\ AfterDisable(s, identities[s].status)
    BY <1>2 DEF ConsumeServiceNonce, KeyOf
<1>4. /\ worker' \in [Workers -> WorkerRow] /\ worker'[w].step = "idle"
      /\ \A v \in Workers : v # w => worker'[v] = worker[v]
    BY <1>0, <1>1, AccessRows DEF ServiceShape
<1>5. /\ Verified(worker', s) = Verified(worker, s) \ {w} /\ w \in Verified(worker, s)
      /\ \A x \in Services : x # s => Verified(worker', x) = Verified(worker, x)
    BY <1>1, <1>4 DEF Verified
<1>7. WorkerInv'
    BY <1>0, <1>1, <1>4 DEF WorkerInv
<1>8. CapabilitiesOwn' /\ NamelessIsNobody'
    BY <1>0, <1>1 DEF CapabilitiesOwn, NamelessIsNobody
<1>. HIDE DEF m, key, s
<1>6. /\ Cardinality(Verified(worker', s)) = Cardinality(Verified(worker, s)) - 1
      /\ Cardinality(Verified(worker, s)) \in Nat
  <2>1. IsFiniteSet(Verified(worker, s)) /\ Cardinality(Verified(worker, s)) \in Nat
      BY VerifiedFinite
  <2>2. Cardinality(Verified(worker, s) \ {w}) = Cardinality(Verified(worker, s)) - 1
      BY <1>5, <2>1, FS_RemoveElement
  <2>. QED
      BY <1>5, <2>1, <2>2
<1>9. /\ DisableShape'
      /\ \A x \in Admins \cup Services : x # s => servedAfterDisable'[x] = servedAfterDisable[x]
      /\ identities[s].status # "DISABLED" => servedAfterDisable'[s] = servedAfterDisable[s]
      /\ identities[s].status = "DISABLED" => servedAfterDisable'[s] <= servedAfterDisable[s] + 1
  <2>1. servedAfterDisable[s] \in Nat
      BY <1>0, <1>2 DEF DisableShape
  <2>2. CASE UNCHANGED servedAfterDisable
      BY <1>0, <1>1, <2>1, <2>2 DEF DisableShape
  <2>3. CASE AfterDisable(s, identities[s].status)
      BY <1>0, <1>1, <1>2, <2>1, <2>3 DEF DisableShape, AfterDisable
  <2>. QED
      BY <1>3, <2>2, <2>3
<1>10. ServicesStop'
  <2>1. ASSUME NEW x \in Services
        PROVE  /\ identities[x].status # "DISABLED" => servedAfterDisable'[x] = 0
               /\ identities[x].status = "DISABLED" =>
                    servedAfterDisable'[x] + Cardinality(Verified(worker', x)) <= pendingAtDisable[x]
    <3>1. CASE x = s
      <4>1. servedAfterDisable[s] \in Nat /\ pendingAtDisable[s] \in Nat /\ servedAfterDisable'[s] \in Nat
          BY <1>0, <1>2, <1>9 DEF DisableShape
      <4>. QED
          BY <1>0, <1>2, <1>6, <1>9, <3>1, <4>1 DEF ServicesStop
    <3>2. CASE x # s
        BY <1>0, <1>5, <1>9, <3>2 DEF ServicesStop
    <3>. QED
        BY <3>1, <3>2
  <2>. QED
      BY <1>1, <2>1 DEF ServicesStop
<1>11. ServiceShape' /\ ServedInv' /\ ServedOnce'
  <2>1. CASE UNCHANGED <<serviceNonces, served, firstServed>>
      BY <1>0, <1>1, <1>4, <2>1 DEF ServiceShape, ServedInv, ServedOnce
  <2>2. CASE /\ serviceNonces[key] <= tick
             /\ serviceNonces' = [serviceNonces EXCEPT ![key] = tick + MaxSkew]
             /\ served' = [served EXCEPT ![m] = @ + 1]
             /\ firstServed' = IF served[m] = 0 THEN [firstServed EXCEPT ![m] = tick] ELSE firstServed
    <3>1. /\ tick \in Nat /\ MaxSkew \in Nat /\ serviceNonces \in [NonceKeys -> Int]
          /\ served \in [DOMAIN Messages -> Nat] /\ firstServed \in [DOMAIN Messages -> Int]
        BY <1>0, AccessAssumption DEF ServiceShape
    <3>2. /\ serviceNonces' \in [NonceKeys -> Int] /\ serviceNonces'[key] = tick + MaxSkew
          /\ \A k \in NonceKeys : serviceNonces'[k] >= serviceNonces[k] /\ serviceNonces[k] \in Int /\ serviceNonces'[k] \in Int
        BY <1>2, <2>2, <3>1
    <3>3. /\ served' \in [DOMAIN Messages -> Nat] /\ served'[m] = served[m] + 1
          /\ \A x \in DOMAIN Messages : x # m => served'[x] = served[x]
        BY <1>2, <2>2, <3>1
    <3>4. /\ firstServed' \in [DOMAIN Messages -> Int]
          /\ \A x \in DOMAIN Messages : x # m => firstServed'[x] = firstServed[x]
          /\ served[m] = 0 => firstServed'[m] = tick
          /\ served[m] # 0 => firstServed'[m] = firstServed[m]
        BY <1>2, <2>2, <3>1
    <3>5. ServiceShape'
        BY <1>0, <1>1, <1>4, <3>2, <3>3, <3>4 DEF ServiceShape
    <3>6. ASSUME NEW x \in DOMAIN Messages, served'[x] > 0
          PROVE  /\ identities[Messages[x].service].status # "none"
                 /\ serviceNonces'[KeyOf(x)] >= firstServed'[x] + MaxSkew
      <4>1. CASE x = m /\ served[m] = 0
          BY <1>2, <3>1, <3>2, <3>4, <4>1 DEF key, s
      <4>2. CASE ~(x = m /\ served[m] = 0)
        <5>1. served[x] > 0 /\ firstServed'[x] = firstServed[x] /\ firstServed[x] \in Int /\ KeyOf(x) \in NonceKeys
            BY <1>2, <3>1, <3>3, <3>4, <3>6, <4>2, AccessRows
        <5>2. serviceNonces[KeyOf(x)] >= firstServed[x] + MaxSkew /\ identities[Messages[x].service].status # "none"
            BY <1>0, <5>1 DEF ServedInv
        <5>. QED
            BY <3>1, <3>2, <5>1, <5>2
      <4>. QED
          BY <4>1, <4>2
    <3>7. ServedInv'
        BY <1>1, <3>6 DEF ServedInv, KeyOf
    <3>8. ASSUME NEW x \in DOMAIN Messages, Messages[x].signed < firstServed'[x] PROVE served'[x] <= 1
      <4>1. CASE x # m
          BY <1>0, <3>3, <3>4, <3>8, <4>1 DEF ServedOnce
      <4>2. CASE x = m /\ served[m] = 0
          BY <3>3, <4>2
      <4>3. CASE x = m /\ served[m] # 0
        <5>1. served[m] > 0 /\ served[m] \in Nat /\ firstServed[m] \in Int /\ Messages[m].signed < firstServed[m]
            BY <1>2, <3>1, <3>4, <3>8, <4>3
        <5>2. serviceNonces[key] >= firstServed[m] + MaxSkew
            BY <1>0, <1>2, <5>1 DEF ServedInv, key
        <5>. QED
            BY <1>2, <2>2, <3>1, <3>2, <5>1, <5>2
      <4>. QED
          BY <4>1, <4>2, <4>3
    <3>9. ServedOnce'
        BY <3>8 DEF ServedOnce
    <3>. QED
        BY <3>5, <3>7, <3>9
  <2>. QED
      BY <1>3, <2>1, <2>2
<1>12. AdminIInv'
  <2>1. \A a \in Admins : servedAfterDisable'[a] = servedAfterDisable[a]
      BY <1>2, <1>9
  <2>. QED
      BY <1>0, <1>1, <2>1, AdminsUntouched
<1>. QED
    BY <1>7, <1>8, <1>9, <1>10, <1>11, <1>12 DEF AccessIInv, ServiceIInv

LEMMA AccessNextIInv == AccessIInv /\ [AdminsNext \/ ServicesNext]_accessVars => AccessIInv'
<1>. SUFFICES ASSUME AccessIInv, [AdminsNext \/ ServicesNext]_accessVars PROVE AccessIInv'
    OBVIOUS
<1>1. CASE AdminsNext
    BY <1>1, AdminsNextIInv
<1>2. CASE ServicesNext
    BY <1>2, TickStep, IdentitySteps, VerifyStep, ConsumeStep DEF ServicesNext
<1>3. CASE UNCHANGED accessVars
  <2>1. UNCHANGED adminVars /\ UNCHANGED serviceVars /\ UNCHANGED <<pendingAtDisable, servedAfterDisable>>
      BY <1>3 DEF accessVars, adminVars, serviceVars
  <2>. QED
      BY <2>1, AdminsUntouched, ServicesUntouched DEF AccessIInv, DisableShape
<1>. QED
    BY <1>1, <1>2, <1>3

(* AccessGuarded is an invariant of access: a login nonce yields one       *)
(* token (ConsumeAdminLoginNonce), a signed request whose timestamp is not *)
(* ahead of the clock is served once (ConsumeServiceNonce), capabilities   *)
(* stay within the kind's, and whoever is disabled is served no more than  *)
(* what was past the middleware (RequireAdmin, RequireService).            *)
THEOREM AccessAlwaysGuarded == AccessSpec => []AccessGuarded
<1>1. AccessInit => AccessIInv
    BY AccessInitIInv
<1>2. AccessIInv /\ [AdminsNext \/ ServicesNext]_accessVars => AccessIInv'
    BY AccessNextIInv
<1>3. AccessIInv => AccessGuarded
  <2>. SUFFICES ASSUME AccessIInv PROVE AccessGuarded
      OBVIOUS
  <2>1. AccessTypeOK
    <3>1. \A m \in DOMAIN Messages : served[m] > 0 => identities[Messages[m].service] # NoIdentity
        BY AccessRows DEF AccessIInv, ServiceIInv, ServedInv
    <3>2. \A s \in Services : identities[s] # NoIdentity =>
             identities[s].capabilities \subseteq CapabilitiesByKind[identities[s].kind]
        BY DEF AccessIInv, ServiceIInv, CapabilitiesOwn, NamelessIsNobody
    <3>. QED
        BY <3>1, <3>2 DEF AccessTypeOK
  <2>2. DisabledStops
    <3>1. ASSUME NEW a \in Admins PROVE servedAfterDisable[a] <= pendingAtDisable[a]
      <4>1. /\ servedAfterDisable[a] \in Nat /\ pendingAtDisable[a] \in Nat
            /\ Cardinality(Admitted(browser, a)) \in Nat
          BY AdmittedFinite DEF AccessIInv, DisableShape
      <4>. QED
          BY <4>1 DEF AccessIInv, AdminIInv, AdminsStop
    <3>2. ASSUME NEW s \in Services PROVE servedAfterDisable[s] <= pendingAtDisable[s]
      <4>1. /\ servedAfterDisable[s] \in Nat /\ pendingAtDisable[s] \in Nat
            /\ Cardinality(Verified(worker, s)) \in Nat
          BY VerifiedFinite DEF AccessIInv, DisableShape
      <4>. QED
          BY <4>1 DEF AccessIInv, ServiceIInv, ServicesStop
    <3>. QED
        BY <3>1, <3>2 DEF DisabledStops
  <2>. QED
      BY <2>1, <2>2 DEF AccessIInv, AdminIInv, ServiceIInv, TokenInv, AccessGuarded
<1>. QED
    BY <1>1, <1>2, <1>3, PTL DEF AccessSpec

-----------------------------------------------------------------------------
(* Operations: the rows.  Answers are whatever the handlers return. *)
IsDesk(x) == x \in [step : {x.step}, op : {x.op}, admin : {x.admin}, action : {x.action},
                    read : {x.read}, result : {x.result}, replay : {x.replay}]
DeskSteps == {"idle", "asked", "new", "found", "performed", "audited"}
PreviewRow == [kind : {"none", "LOTTERY", "COMPENSATION"}, admin : Operators \cup {"none"},
               status : {"none", "PENDING", "COMMITTED"}, live : BOOLEAN]

GoodDesk(x) ==
    /\ IsDesk(x) /\ x.step \in DeskSteps /\ x.replay \in BOOLEAN
    /\ x.step # "idle" => x.op \in LoggedOps /\ x.admin \in Operators /\ x.action # "none"

DeskShape(f) == f = [d \in Desks |-> f[d]] /\ \A d \in Desks : GoodDesk(f[d])

LogShape ==
    /\ opsLog = [o \in LoggedOps |-> opsLog[o]] /\ answers = [o \in LoggedOps |-> answers[o]]
    /\ auditRows \in [LoggedOps -> Nat] /\ performed \in [LoggedOps -> Nat]

PreviewShape ==
    /\ previews \in [Previews -> PreviewRow]
    /\ previewTargets = [p \in Previews |-> previewTargets[p]]
    /\ commitKeys \in [CommitIds -> Previews \cup {"none"}]
    /\ adminGrants \in [Previews -> [Targets -> Nat]]

ServerShape == server.status \in {"ONLINE", "MAINTENANCE", "DRAINING"} /\ seat \in 0 .. 2

(* A logged opId has been audited and is answered with the logged answer   *)
(* only; one that is not logged has not been answered.                     *)
LogInv ==
    \A o \in LoggedOps :
        /\ opsLog[o] = NoLog => answers[o] = {}
        /\ opsLog[o] # NoLog => /\ answers[o] \subseteq {opsLog[o].answer} /\ auditRows[o] > 0
                                /\ opsLog[o].admin # "none" /\ opsLog[o].action # "none"

(* A request sent after the logging is still to be answered from the log;  *)
(* one that is to complete has written its audit row.                      *)
DeskInv ==
    \A d \in Desks :
        /\ desk[d].replay => desk[d].step \in {"idle", "asked"}
        /\ desk[d].replay /\ desk[d].step = "asked" => opsLog[desk[d].op] # NoLog
        /\ desk[d].step = "audited" => auditRows[desk[d].op] > 0

(* Effects that have no audit row yet. *)
Unaudited(f, o) == {d \in Desks : f[d].step = "performed" /\ f[d].op = o}
AuditInv == \A o \in LoggedOps : auditRows[o] + Cardinality(Unaudited(desk, o)) <= performed[o]

PreviewInv ==
    \A p \in Previews :
        /\ previews[p].kind = "none" <=> previews[p].status = "none"
        /\ previews[p].kind # "none" => previewTargets[p] # {}
        /\ \A t \in Targets : adminGrants[p][t] = IF previews[p].status = "COMMITTED" /\ t \in previewTargets[p] THEN 1 ELSE 0

(* The requests, the log, the audit rows and the effects; the previews. *)
DeskCore == DeskShape(desk) /\ LogShape /\ LogInv /\ DeskInv /\ AuditInv
PreviewCore == PreviewShape /\ PreviewInv

OpsIInv == menu \in Menus /\ ServerShape /\ DeskCore /\ PreviewCore

(* A request goes to another step, or leaves. *)
Moved(f, d, s) ==
    /\ DeskShape(f) /\ f[d].step = s /\ f[d].op = desk[d].op /\ f[d].replay = desk[d].replay
    /\ \A e \in Desks : e # d => f[e] = desk[e]
Left(f, d) ==
    /\ DeskShape(f) /\ f[d].step = "idle" /\ f[d].replay = FALSE
    /\ \A e \in Desks : e # d => f[e] = desk[e]

LEMMA NoDeskFacts == IsDesk(NoDesk) /\ NoDesk.step = "idle" /\ NoDesk.replay = FALSE
BY DEF NoDesk, IsDesk

Puts(f, d, y) == f = [desk EXCEPT ![d] = y]

LEMMA DeskPut ==
    ASSUME DeskShape(desk), NEW d \in Desks, NEW y, GoodDesk(y), NEW f, Puts(f, d, y)
    PROVE  DeskShape(f) /\ f[d] = y /\ \A e \in Desks : e # d => f[e] = desk[e]
<1>1. DOMAIN desk = Desks
    BY DEF DeskShape
<1>2. f[d] = y /\ (\A e \in Desks : e # d => f[e] = desk[e]) /\ f = [e \in Desks |-> f[e]]
    BY <1>1 DEF Puts
<1>. QED
    BY <1>2 DEF DeskShape

Edited(x, y, s) ==
    /\ IsDesk(y) /\ y.step = s /\ y.op = x.op /\ y.admin = x.admin /\ y.action = x.action
    /\ y.replay = x.replay

LEMMA DeskRowEdits ==
    ASSUME NEW x, IsDesk(x), NEW s, NEW v
    PROVE  /\ Edited(x, [x EXCEPT !.step = s], s)
           /\ Edited(x, [x EXCEPT !.step = s, !.result = v], s)
           /\ Edited(x, [x EXCEPT !.step = s, !.read = v], s)
<1>1. Edited(x, [x EXCEPT !.step = s], s)
    BY DEF IsDesk, Edited
<1>2. Edited(x, [x EXCEPT !.step = s, !.result = v], s)
    BY DEF IsDesk, Edited
<1>3. Edited(x, [x EXCEPT !.step = s, !.read = v], s)
    BY DEF IsDesk, Edited
<1>. QED
    BY <1>1, <1>2, <1>3, Zenon

LEMMA DeskMoves ==
    ASSUME DeskShape(desk), NEW d \in Desks, desk[d].step # "idle", NEW s \in DeskSteps, NEW f,
           \/ f = [desk EXCEPT ![d].step = s]
           \/ \E v : f = [desk EXCEPT ![d].step = s, ![d].result = v]
           \/ \E v : f = [desk EXCEPT ![d].step = s, ![d].read = v]
    PROVE  Moved(f, d, s)
<1>1. DOMAIN desk = Desks /\ IsDesk(desk[d]) /\ desk[d].replay \in BOOLEAN
      /\ desk[d].op \in LoggedOps /\ desk[d].admin \in Operators /\ desk[d].action # "none"
    BY DEF DeskShape, GoodDesk
<1>2. PICK v : \/ f = [desk EXCEPT ![d] = [desk[d] EXCEPT !.step = s]]
               \/ f = [desk EXCEPT ![d] = [desk[d] EXCEPT !.step = s, !.result = v]]
               \/ f = [desk EXCEPT ![d] = [desk[d] EXCEPT !.step = s, !.read = v]]
  <2>1. CASE f = [desk EXCEPT ![d].step = s]
      BY <2>1
  <2>2. ASSUME NEW v, f = [desk EXCEPT ![d].step = s, ![d].result = v]
        PROVE  f = [desk EXCEPT ![d] = [desk[d] EXCEPT !.step = s, !.result = v]]
      BY <1>1, <2>2
  <2>3. ASSUME NEW v, f = [desk EXCEPT ![d].step = s, ![d].read = v]
        PROVE  f = [desk EXCEPT ![d] = [desk[d] EXCEPT !.step = s, !.read = v]]
      BY <1>1, <2>3
  <2>. QED
      BY <2>1, <2>2, <2>3
<1>3. PICK y : f = [desk EXCEPT ![d] = y] /\ Edited(desk[d], y, s)
    BY <1>1, <1>2, DeskRowEdits, Zenon
<1>4. GoodDesk(y)
    BY <1>1, <1>3 DEF Edited, GoodDesk
<1>5. Puts(f, d, y)
    BY <1>3 DEF Puts
<1>6. DeskShape(f) /\ f[d] = y /\ \A e \in Desks : e # d => f[e] = desk[e]
    BY <1>4, <1>5, DeskPut
<1>. QED
    BY <1>3, <1>6 DEF Moved, Edited

LEMMA DeskLeaves ==
    ASSUME DeskShape(desk), NEW d \in Desks, NEW f, Puts(f, d, NoDesk)
    PROVE  Left(f, d)
<1>1. GoodDesk(NoDesk)
    BY NoDeskFacts DEF GoodDesk, DeskSteps
<1>3. DeskShape(f) /\ f[d] = NoDesk /\ \A e \in Desks : e # d => f[e] = desk[e]
    BY <1>1, DeskPut
<1>. QED
    BY <1>3, NoDeskFacts, Zenon DEF Left

LEMMA UnauditedFinite ==
    \A f, o : IsFiniteSet(Unaudited(f, o)) /\ Cardinality(Unaudited(f, o)) \in Nat
<1>. SUFFICES ASSUME NEW f, NEW o PROVE IsFiniteSet(Unaudited(f, o)) /\ Cardinality(Unaudited(f, o)) \in Nat
    OBVIOUS
<1>1. IsFiniteSet(Unaudited(f, o))
    BY OpsAssumption, FS_Subset DEF Unaudited
<1>. QED
    BY <1>1, FS_CardinalityType

LEMMA OpsInitIInv == OpsInit => OpsIInv
<1>. SUFFICES ASSUME OpsInit PROVE OpsIInv
    OBVIOUS
<1>1. menu \in Menus /\ ServerShape /\ LogShape
    BY DEF OpsInit, ServerShape, LogShape
<1>2. DeskShape(desk) /\ \A d \in Desks : desk[d].step = "idle" /\ ~desk[d].replay
  <2>1. desk = [d \in Desks |-> NoDesk]
      BY DEF OpsInit
  <2>. QED
      BY <2>1, NoDeskFacts DEF DeskShape, GoodDesk, DeskSteps
<1>3. PreviewShape /\ PreviewInv
    BY DEF OpsInit, PreviewShape, PreviewInv, PreviewRow, NoPreview
<1>4. LogInv /\ DeskInv
    BY <1>2 DEF OpsInit, LogInv, DeskInv
<1>5. AuditInv
  <2>1. \A o \in LoggedOps : Unaudited(desk, o) = {}
      BY <1>2 DEF Unaudited
  <2>2. \A o \in LoggedOps : Cardinality(Unaudited(desk, o)) = 0
      BY <2>1, FS_EmptySet
  <2>3. \A o \in LoggedOps : auditRows[o] = 0 /\ performed[o] = 0
      BY DEF OpsInit
  <2>. QED
      BY <2>2, <2>3 DEF AuditInv
<1>. QED
    BY <1>1, <1>2, <1>3, <1>4, <1>5 DEF OpsIInv, DeskCore, PreviewCore

(* The books of an opId: audit rows and effects still to be audited. *)
LEMMA UnauditedMoves ==
    ASSUME NEW d \in Desks, NEW s, NEW f, Moved(f, d, s), NEW o
    PROVE  /\ desk[d].step # "performed" /\ s # "performed" =>
                Cardinality(Unaudited(f, o)) = Cardinality(Unaudited(desk, o))
           /\ desk[d].step # "performed" /\ s = "performed" =>
                Cardinality(Unaudited(f, o)) = Cardinality(Unaudited(desk, o)) + (IF o = desk[d].op THEN 1 ELSE 0)
           /\ desk[d].step = "performed" /\ s # "performed" =>
                Cardinality(Unaudited(f, o)) = Cardinality(Unaudited(desk, o)) - (IF o = desk[d].op THEN 1 ELSE 0)
<1>. DEFINE U == Unaudited(desk, o)
            V == Unaudited(f, o)
<1>1. IsFiniteSet(U) /\ Cardinality(U) \in Nat
    BY UnauditedFinite
<1>2. ASSUME desk[d].step # "performed", s # "performed" PROVE V = U
    BY <1>2 DEF Unaudited, Moved
<1>3. ASSUME desk[d].step # "performed", s = "performed" PROVE V = (IF o = desk[d].op THEN U \cup {d} ELSE U) /\ d \notin U
    BY <1>3 DEF Unaudited, Moved
<1>4. ASSUME desk[d].step = "performed", s # "performed"
      PROVE V = (IF o = desk[d].op THEN U \ {d} ELSE U) /\ (o = desk[d].op => d \in U)
    BY <1>4 DEF Unaudited, Moved
<1>. HIDE DEF U, V
<1>5. d \notin U => Cardinality(U \cup {d}) = Cardinality(U) + 1
    BY <1>1, FS_AddElement
<1>6. d \in U => Cardinality(U \ {d}) = Cardinality(U) - 1
    BY <1>1, FS_RemoveElement
<1>7. ASSUME desk[d].step # "performed", s = "performed"
      PROVE  Cardinality(V) = Cardinality(U) + (IF o = desk[d].op THEN 1 ELSE 0)
  <2>1. CASE o = desk[d].op
      BY <1>3, <1>5, <1>7, <2>1
  <2>2. CASE o # desk[d].op
      BY <1>1, <1>3, <1>7, <2>2
  <2>. QED
      BY <2>1, <2>2
<1>8. ASSUME desk[d].step = "performed", s # "performed"
      PROVE  Cardinality(V) = Cardinality(U) - (IF o = desk[d].op THEN 1 ELSE 0)
  <2>1. CASE o = desk[d].op
      BY <1>4, <1>6, <1>8, <2>1
  <2>2. CASE o # desk[d].op
      BY <1>1, <1>4, <1>8, <2>2
  <2>. QED
      BY <2>1, <2>2
<1>9. desk[d].step # "performed" /\ s # "performed" => Cardinality(V) = Cardinality(U)
    BY <1>2
<1>. QED
    BY <1>7, <1>8, <1>9 DEF U, V

LEMMA QuietMove ==
    ASSUME DeskCore, NEW d \in Desks, NEW s \in {"new", "found"}, Moved(desk', d, s), ~desk[d].replay,
           desk[d].step \in {"asked", "new"}, UNCHANGED <<opsLog, answers, auditRows, performed>>
    PROVE  DeskCore'
<1>1. /\ DeskShape(desk') /\ desk'[d].step = s /\ desk'[d].op = desk[d].op /\ ~desk'[d].replay
      /\ \A e \in Desks : e # d => desk'[e] = desk[e]
    BY DEF Moved
<1>2. \A o : Cardinality(Unaudited(desk', o)) = Cardinality(Unaudited(desk, o))
    BY UnauditedMoves
<1>3. LogShape' /\ LogInv'
    BY DEF DeskCore, LogShape, LogInv
<1>4. DeskInv'
    BY <1>1 DEF DeskCore, DeskInv
<1>5. AuditInv'
    BY <1>2 DEF DeskCore, AuditInv
<1>6. DeskShape(desk)'
    BY <1>1 DEF DeskShape, GoodDesk
<1>. QED
    BY <1>3, <1>4, <1>5, <1>6 DEF DeskCore

(* A request ends; it may have been told what is in the log. *)
LEMMA LeaveStep ==
    ASSUME DeskCore, NEW d \in Desks, Left(desk', d), UNCHANGED <<opsLog, auditRows, performed>>,
           \/ answers' = answers
           \/ \E o \in LoggedOps : /\ opsLog[o] # NoLog
                               /\ answers' = [answers EXCEPT ![o] = @ \cup {opsLog[o].answer}]
    PROVE  DeskCore'
<1>0. LogShape /\ LogInv /\ DeskInv /\ AuditInv
    BY DEF DeskCore
<1>1. /\ DeskShape(desk') /\ desk'[d].step = "idle" /\ ~desk'[d].replay
      /\ \A e \in Desks : e # d => desk'[e] = desk[e]
    BY DEF Left
<1>2. ASSUME NEW o \in LoggedOps PROVE Cardinality(Unaudited(desk', o)) <= Cardinality(Unaudited(desk, o))
  <2>1. Unaudited(desk', o) \subseteq Unaudited(desk, o)
      BY <1>1 DEF Unaudited
  <2>. QED
      BY <2>1, UnauditedFinite, FS_Subset
<1>3. AuditInv'
  <2>. SUFFICES ASSUME NEW o \in LoggedOps PROVE auditRows[o] + Cardinality(Unaudited(desk', o)) <= performed[o]
      BY DEF AuditInv
  <2>1. auditRows[o] \in Nat /\ performed[o] \in Nat
      BY <1>0 DEF LogShape
  <2>. QED
      BY <1>0, <1>2, <2>1, UnauditedFinite DEF AuditInv
<1>4. DeskInv'
    BY <1>0, <1>1 DEF DeskInv
<1>5. LogShape' /\ LogInv'
  <2>1. CASE answers' = answers
      BY <1>0, <2>1 DEF LogShape, LogInv
  <2>2. ASSUME NEW o \in LoggedOps, opsLog[o] # NoLog, answers' = [answers EXCEPT ![o] = @ \cup {opsLog[o].answer}]
        PROVE  LogShape' /\ LogInv'
    <3>1. DOMAIN answers = LoggedOps
        BY <1>0 DEF LogShape
    <3>2. /\ answers' = [x \in LoggedOps |-> answers'[x]]
          /\ answers'[o] = answers[o] \cup {opsLog[o].answer} /\ \A x \in LoggedOps : x # o => answers'[x] = answers[x]
        BY <2>2, <3>1
    <3>. QED
        BY <1>0, <2>2, <3>2 DEF LogShape, LogInv
  <2>. QED
      BY <2>1, <2>2
<1>6. DeskShape(desk)'
    BY <1>1 DEF DeskShape, GoodDesk
<1>. QED
    BY <1>3, <1>4, <1>5, <1>6 DEF DeskCore

(* The effect is counted before its audit row. *)
LEMMA PerformStep ==
    ASSUME DeskCore, NEW d \in Desks, desk[d].step \in {"new", "found"}, NEW v, Performed(d, v),
           UNCHANGED <<opsLog, answers, auditRows>>
    PROVE  DeskCore'
<1>. DEFINE op == desk[d].op
<1>0. DeskShape(desk) /\ LogShape /\ LogInv /\ DeskInv /\ AuditInv
    BY DEF DeskCore
<1>1. op \in LoggedOps /\ ~desk[d].replay /\ performed' = [performed EXCEPT ![op] = @ + 1]
    BY <1>0 DEF DeskShape, GoodDesk, DeskInv, Performed
<1>2. Moved(desk', d, "performed")
    BY <1>0, DeskMoves DEF Performed, DeskSteps
<1>3. /\ DeskShape(desk') /\ desk'[d].step = "performed" /\ desk'[d].op = op /\ ~desk'[d].replay
      /\ \A e \in Desks : e # d => desk'[e] = desk[e]
    BY <1>1, <1>2 DEF Moved
<1>4. \A o : Cardinality(Unaudited(desk', o)) = Cardinality(Unaudited(desk, o)) + (IF o = op THEN 1 ELSE 0)
    BY <1>2, UnauditedMoves
<1>. HIDE DEF op
<1>5. performed' \in [LoggedOps -> Nat] /\ performed'[op] = performed[op] + 1
      /\ \A o \in LoggedOps : o # op => performed'[o] = performed[o]
    BY <1>0, <1>1 DEF LogShape
<1>6. LogShape' /\ LogInv'
    BY <1>0, <1>5 DEF LogShape, LogInv
<1>7. DeskInv'
    BY <1>0, <1>3 DEF DeskInv
<1>8. AuditInv'
  <2>1. ASSUME NEW o \in LoggedOps PROVE auditRows[o] + Cardinality(Unaudited(desk', o)) <= performed'[o]
    <3>1. auditRows[o] \in Nat /\ performed[o] \in Nat /\ Cardinality(Unaudited(desk, o)) \in Nat
        BY <1>0, UnauditedFinite DEF LogShape
    <3>2. auditRows[o] + Cardinality(Unaudited(desk, o)) <= performed[o]
        BY <1>0 DEF AuditInv
    <3>3. CASE o = op
        BY <1>4, <1>5, <3>1, <3>2, <3>3
    <3>4. CASE o # op
        BY <1>4, <1>5, <3>1, <3>2, <3>4
    <3>. QED
        BY <3>3, <3>4
  <2>. QED
      BY <2>1 DEF AuditInv
<1>9. DeskShape(desk)'
    BY <1>3 DEF DeskShape, GoodDesk
<1>. QED
    BY <1>6, <1>7, <1>8, <1>9 DEF DeskCore

LEMMA AuditStep ==
    ASSUME DeskCore, NEW d \in Desks, AuditTarget(d)
    PROVE  DeskCore'
<1>. DEFINE op == desk[d].op
<1>0. DeskShape(desk) /\ LogShape /\ LogInv /\ DeskInv /\ AuditInv
    BY DEF DeskCore
<1>1. /\ desk[d].step = "performed" /\ auditRows' = [auditRows EXCEPT ![op] = @ + 1]
      /\ desk' = [desk EXCEPT ![d].step = "audited"] /\ UNCHANGED <<opsLog, answers, performed>>
    BY DEF AuditTarget, Goes, effectVars
<1>2. op \in LoggedOps /\ ~desk[d].replay
    BY <1>0, <1>1 DEF DeskShape, GoodDesk, DeskInv
<1>3. Moved(desk', d, "audited")
    BY <1>0, <1>1, DeskMoves DEF DeskSteps
<1>4. /\ DeskShape(desk') /\ desk'[d].step = "audited" /\ desk'[d].op = op /\ ~desk'[d].replay
      /\ \A e \in Desks : e # d => desk'[e] = desk[e]
    BY <1>2, <1>3 DEF Moved
<1>5. \A o : Cardinality(Unaudited(desk', o)) = Cardinality(Unaudited(desk, o)) - (IF o = op THEN 1 ELSE 0)
    BY <1>1, <1>3, UnauditedMoves
<1>6. \A e \in Desks : desk[e].step = "audited" => desk[e].op \in LoggedOps /\ auditRows[desk[e].op] > 0
    BY <1>0 DEF DeskShape, GoodDesk, DeskInv
<1>. HIDE DEF op
<1>7. auditRows' \in [LoggedOps -> Nat] /\ auditRows'[op] = auditRows[op] + 1 /\ auditRows'[op] > 0
      /\ \A o \in LoggedOps : o # op => auditRows'[o] = auditRows[o]
    BY <1>0, <1>1, <1>2 DEF LogShape
<1>8. LogShape' /\ LogInv'
    BY <1>0, <1>1, <1>7 DEF LogShape, LogInv
<1>9. DeskInv'
    BY <1>0, <1>1, <1>4, <1>6, <1>7 DEF DeskInv
<1>10. AuditInv'
  <2>1. ASSUME NEW o \in LoggedOps PROVE auditRows'[o] + Cardinality(Unaudited(desk', o)) <= performed[o]
    <3>1. auditRows[o] \in Nat /\ performed[o] \in Nat /\ Cardinality(Unaudited(desk, o)) \in Nat
        BY <1>0, UnauditedFinite DEF LogShape
    <3>2. auditRows[o] + Cardinality(Unaudited(desk, o)) <= performed[o]
        BY <1>0 DEF AuditInv
    <3>3. CASE o = op
        BY <1>5, <1>7, <3>1, <3>2, <3>3
    <3>4. CASE o # op
        BY <1>5, <1>7, <3>1, <3>2, <3>4
    <3>. QED
        BY <3>3, <3>4
  <2>. QED
      BY <1>1, <2>1 DEF AuditInv
<1>11. DeskShape(desk)'
    BY <1>4 DEF DeskShape, GoodDesk
<1>. QED
    BY <1>8, <1>9, <1>10, <1>11 DEF DeskCore

(* The first answer is logged; later ones are answered from the log. *)
LEMMA CompleteStep ==
    ASSUME DeskCore, NEW d \in Desks, CompleteOperation(d)
    PROVE  DeskCore'
<1>. DEFINE op == desk[d].op
            entry == LogEntry(d)
<1>0. DeskShape(desk) /\ LogShape /\ LogInv /\ DeskInv /\ AuditInv
    BY DEF DeskCore
<1>1. /\ desk[d].step = "audited" /\ desk' = [desk EXCEPT ![d] = NoDesk] /\ UNCHANGED <<auditRows, performed>>
      /\ opsLog' = IF opsLog[op] = NoLog THEN [opsLog EXCEPT ![op] = entry] ELSE opsLog
      /\ answers' = [answers EXCEPT ![op] = @ \cup {opsLog'[op].answer}]
    BY DEF CompleteOperation, SaveAdminOperation, Leaves, effectVars
<1>2. op \in LoggedOps /\ auditRows[op] > 0 /\ desk[d].admin \in Operators /\ desk[d].action # "none"
    BY <1>0, <1>1 DEF DeskShape, GoodDesk, DeskInv
<1>3. entry.admin # "none" /\ entry.action # "none" /\ entry # NoLog
  <2>1. entry.admin = desk[d].admin /\ entry.action = desk[d].action
      BY DEF LogEntry
  <2>2. NoLog.admin = "none"
      BY DEF NoLog
  <2>. QED
      BY <1>2, <2>1, <2>2, OpsAssumption
<1>4. Left(desk', d)
  <2>1. Puts(desk', d, NoDesk)
      BY <1>1 DEF Puts
  <2>. QED
      BY <1>0, <2>1, DeskLeaves
<1>. HIDE DEF op, entry
<1>5. CASE opsLog[op] # NoLog
  <2>1. opsLog' = opsLog /\ answers' = [answers EXCEPT ![op] = @ \cup {opsLog[op].answer}]
      BY <1>1, <1>5
  <2>. QED
      BY <1>1, <1>2, <1>4, <1>5, <2>1, LeaveStep
<1>6. CASE opsLog[op] = NoLog
  <2>1. DOMAIN opsLog = LoggedOps /\ DOMAIN answers = LoggedOps
      BY <1>0 DEF LogShape
  <2>2. /\ opsLog' = [x \in LoggedOps |-> opsLog'[x]] /\ opsLog'[op] = entry
        /\ \A x \in LoggedOps : x # op => opsLog'[x] = opsLog[x]
      BY <1>1, <1>2, <1>6, <2>1
  <2>3. /\ answers' = [x \in LoggedOps |-> answers'[x]] /\ answers'[op] = answers[op] \cup {entry.answer}
        /\ \A x \in LoggedOps : x # op => answers'[x] = answers[x]
      BY <1>1, <1>2, <2>1, <2>2
  <2>4. answers[op] = {}
      BY <1>0, <1>2, <1>6 DEF LogInv
  <2>5. LogShape'
      BY <1>0, <1>1, <2>2, <2>3 DEF LogShape
  <2>6. LogInv'
      BY <1>0, <1>1, <1>2, <1>3, <2>2, <2>3, <2>4 DEF LogInv
  <2>7. /\ DeskShape(desk') /\ desk'[d].step = "idle" /\ ~desk'[d].replay
        /\ \A e \in Desks : e # d => desk'[e] = desk[e]
      BY <1>4 DEF Left
  <2>8. \A x \in LoggedOps : opsLog[x] # NoLog => opsLog'[x] # NoLog
      BY <1>3, <2>2
  <2>9. DeskInv'
      BY <1>0, <1>1, <2>7, <2>8 DEF DeskInv, DeskShape, GoodDesk
  <2>10. ASSUME NEW o \in LoggedOps PROVE auditRows[o] + Cardinality(Unaudited(desk', o)) <= performed[o]
    <3>1. Unaudited(desk', o) \subseteq Unaudited(desk, o)
        BY <2>7 DEF Unaudited
    <3>2. Cardinality(Unaudited(desk', o)) <= Cardinality(Unaudited(desk, o))
        BY <3>1, UnauditedFinite, FS_Subset
    <3>3. auditRows[o] \in Nat /\ performed[o] \in Nat
        BY <1>0 DEF LogShape
    <3>. QED
        BY <1>0, <3>2, <3>3, UnauditedFinite DEF AuditInv
  <2>11. AuditInv'
      BY <1>1, <2>10 DEF AuditInv
  <2>12. DeskShape(desk)'
      BY <2>7 DEF DeskShape, GoodDesk
  <2>. QED
      BY <2>5, <2>6, <2>9, <2>11, <2>12 DEF DeskCore
<1>. QED
    BY <1>5, <1>6

LEMMA AskStep ==
    ASSUME DeskCore, NEW d \in Desks, NEW o \in LoggedOps, NEW a \in Operators, NEW action, action # "none",
           AskOperation(d, o, a, action)
    PROVE  DeskCore'
<1>. DEFINE y == [NoDesk EXCEPT !.step = "asked", !.op = o, !.admin = a, !.action = action,
                                !.replay = opsLog[o] # NoLog]
<1>0. DeskShape(desk) /\ LogShape /\ LogInv /\ DeskInv /\ AuditInv
    BY DEF DeskCore
<1>1. /\ desk[d].step = "idle" /\ desk' = [desk EXCEPT ![d] = y]
      /\ UNCHANGED <<opsLog, answers, auditRows, performed>>
    BY NoDeskFacts DEF AskOperation, logVars, effectVars
<1>2. /\ IsDesk(y) /\ y.step = "asked" /\ y.op = o /\ y.admin = a /\ y.action = action
      /\ y.replay = (opsLog[o] # NoLog)
    BY NoDeskFacts DEF IsDesk
<1>. HIDE DEF y
<1>3. GoodDesk(y)
    BY <1>2 DEF GoodDesk, DeskSteps
<1>4. DeskShape(desk') /\ desk'[d] = y /\ \A e \in Desks : e # d => desk'[e] = desk[e]
  <2>1. Puts(desk', d, y)
      BY <1>1 DEF Puts
  <2>. QED
      BY <1>0, <1>3, <2>1, DeskPut
<1>5. DeskInv'
    BY <1>0, <1>1, <1>2, <1>4 DEF DeskInv
<1>6. \A x : Unaudited(desk', x) = Unaudited(desk, x)
    BY <1>1, <1>2, <1>4 DEF Unaudited
<1>7. AuditInv'
    BY <1>0, <1>1, <1>6 DEF AuditInv
<1>8. LogShape' /\ LogInv'
    BY <1>0, <1>1 DEF LogShape, LogInv
<1>9. DeskShape(desk)'
    BY <1>4 DEF DeskShape, GoodDesk
<1>. QED
    BY <1>5, <1>7, <1>8, <1>9 DEF DeskCore

(* Previews: frozen once, expired, paid once. *)
LEMMA FreezeStep ==
    ASSUME PreviewCore, DeskShape(desk), NEW d \in Desks, desk[d].step # "idle", NEW p \in Previews,
           NEW kind \in {"LOTTERY", "COMPENSATION"}, NEW targets, targets # {}, FreezePreview(d, p, kind, targets),
           UNCHANGED commitVars
    PROVE  PreviewCore'
<1>. DEFINE row == [kind |-> kind, admin |-> desk[d].admin, status |-> "PENDING", live |-> TRUE]
<1>1. /\ previews[p].status = "none" /\ previews' = [previews EXCEPT ![p] = row]
      /\ previewTargets' = [previewTargets EXCEPT ![p] = targets] /\ UNCHANGED <<commitKeys, adminGrants>>
    BY DEF FreezePreview, commitVars, NoPreview
<1>2. row \in PreviewRow /\ row.kind = kind /\ row.status = "PENDING"
    BY DEF PreviewRow, DeskShape, GoodDesk
<1>. HIDE DEF row
<1>3. /\ previews' \in [Previews -> PreviewRow] /\ previews'[p] = row
      /\ \A q \in Previews : q # p => previews'[q] = previews[q]
    BY <1>1, <1>2 DEF PreviewCore, PreviewShape
<1>4. DOMAIN previewTargets = Previews
    BY DEF PreviewCore, PreviewShape
<1>5. /\ previewTargets' = [q \in Previews |-> previewTargets'[q]] /\ previewTargets'[p] = targets
      /\ \A q \in Previews : q # p => previewTargets'[q] = previewTargets[q]
    BY <1>1, <1>4
<1>6. PreviewShape'
    BY <1>1, <1>3, <1>5 DEF PreviewCore, PreviewShape
<1>7. PreviewInv'
    BY <1>1, <1>2, <1>3, <1>5 DEF PreviewCore, PreviewInv
<1>. QED
    BY <1>6, <1>7 DEF PreviewCore

LEMMA ExpireStep ==
    ASSUME PreviewCore, NEW p \in Previews, PreviewExpires(p)
    PROVE  PreviewCore'
<1>. DEFINE row == [previews[p] EXCEPT !.live = FALSE]
<1>1. previews' = [previews EXCEPT ![p] = row] /\ UNCHANGED <<previewTargets, commitKeys, adminGrants>>
    BY DEF PreviewExpires, commitVars
<1>2. previews[p] \in PreviewRow
    BY DEF PreviewCore, PreviewShape
<1>3. row \in PreviewRow /\ row.kind = previews[p].kind /\ row.status = previews[p].status
    BY <1>2 DEF PreviewRow
<1>. HIDE DEF row
<1>4. /\ previews' \in [Previews -> PreviewRow] /\ previews'[p] = row
      /\ \A q \in Previews : q # p => previews'[q] = previews[q]
    BY <1>1, <1>3 DEF PreviewCore, PreviewShape
<1>5. \A q \in Previews : previews'[q].kind = previews[q].kind /\ previews'[q].status = previews[q].status
    BY <1>3, <1>4
<1>. QED
    BY <1>1, <1>4, <1>5 DEF PreviewCore, PreviewShape, PreviewInv

LEMMA CommitStep ==
    ASSUME PreviewCore, NEW c \in CommitIds, NEW p \in Previews, previews[p].status = "PENDING",
           Pay(c, p) \/ Refused(p), UNCHANGED previewTargets
    PROVE  PreviewCore'
<1>1. CASE Refused(p)
    BY <1>1 DEF PreviewCore, PreviewShape, PreviewInv, Refused
<1>2. CASE Pay(c, p)
  <2>. DEFINE row == [previews[p] EXCEPT !.status = "COMMITTED"]
              grants == [t \in Targets |-> IF t \in previewTargets[p] THEN adminGrants[p][t] + 1 ELSE adminGrants[p][t]]
  <2>1. /\ previews' = [previews EXCEPT ![p] = row] /\ commitKeys' = [commitKeys EXCEPT ![c] = p]
        /\ adminGrants' = [adminGrants EXCEPT ![p] = grants]
      BY <1>2 DEF Pay
  <2>2. previews[p] \in PreviewRow /\ adminGrants[p] \in [Targets -> Nat] /\ previews[p].kind # "none"
      BY DEF PreviewCore, PreviewShape, PreviewInv
  <2>3. row \in PreviewRow /\ row.kind = previews[p].kind /\ row.status = "COMMITTED"
      BY <2>2 DEF PreviewRow
  <2>4. \A t \in Targets : adminGrants[p][t] = 0
      BY DEF PreviewCore, PreviewInv
  <2>5. grants \in [Targets -> Nat] /\ \A t \in Targets : grants[t] = IF t \in previewTargets[p] THEN 1 ELSE 0
      BY <2>2, <2>4
  <2>. HIDE DEF row, grants
  <2>6. /\ previews' \in [Previews -> PreviewRow] /\ previews'[p] = row
        /\ \A q \in Previews : q # p => previews'[q] = previews[q]
      BY <2>1, <2>3 DEF PreviewCore, PreviewShape
  <2>7. /\ adminGrants' \in [Previews -> [Targets -> Nat]] /\ adminGrants'[p] = grants
        /\ \A q \in Previews : q # p => adminGrants'[q] = adminGrants[q]
      BY <2>1, <2>5 DEF PreviewCore, PreviewShape
  <2>8. commitKeys' \in [CommitIds -> Previews \cup {"none"}]
      BY <2>1 DEF PreviewCore, PreviewShape
  <2>9. PreviewShape'
      BY <2>6, <2>7, <2>8 DEF PreviewCore, PreviewShape
  <2>10. PreviewInv'
      BY <2>2, <2>3, <2>5, <2>6, <2>7 DEF PreviewCore, PreviewInv
  <2>. QED
      BY <2>9, <2>10 DEF PreviewCore
<1>. QED
    BY <1>1, <1>2

LEMMA PreviewsUntouched ==
    ASSUME PreviewCore, UNCHANGED <<previews, previewTargets, commitKeys, adminGrants>>
    PROVE  PreviewCore'
BY DEF PreviewCore, PreviewShape, PreviewInv

LEMMA DesksUntouched ==
    ASSUME DeskCore, UNCHANGED <<desk, opsLog, answers, auditRows, performed>>
    PROVE  DeskCore'
<1>1. DeskShape(desk)'
    BY DEF DeskCore, DeskShape, GoodDesk, IsDesk
<1>2. LogShape' /\ LogInv' /\ DeskInv'
    BY DEF DeskCore, LogShape, LogInv, DeskInv
<1>3. AuditInv'
    BY DEF DeskCore, AuditInv, Unaudited
<1>. QED
    BY <1>1, <1>2, <1>3 DEF DeskCore

(* One lemma for what the requests do. *)
LEMMA RequestSteps ==
    ASSUME OpsIInv, NEW d \in Desks, DeskNext(d)
    PROVE  DeskCore' /\ PreviewCore' /\ ServerShape'
<1>0. DeskCore /\ PreviewCore /\ ServerShape /\ DeskShape(desk) /\ menu \in Menus
    BY DEF OpsIInv, DeskCore
<1>1. ASSUME UNCHANGED <<effectVars, commitVars>> PROVE PreviewCore' /\ ServerShape' /\ performed' = performed
  <2>1. UNCHANGED <<server, seat, previews, previewTargets, commitKeys, adminGrants, performed>>
      BY <1>1 DEF effectVars, commitVars
  <2>. QED
      BY <1>0, <2>1, PreviewsUntouched DEF ServerShape
<1>2. ASSUME NEW s \in DeskSteps, desk[d].step # "idle", desk[d].step \in {"asked", "new"}, ~desk[d].replay,
             \/ desk' = [desk EXCEPT ![d].step = s]
             \/ \E v : desk' = [desk EXCEPT ![d].step = s, ![d].read = v],
             s \in {"new", "found"}, UNCHANGED <<logVars, effectVars, commitVars>>
      PROVE  DeskCore' /\ PreviewCore' /\ ServerShape'
  <2>1. UNCHANGED <<opsLog, answers, auditRows, performed>> /\ UNCHANGED <<effectVars, commitVars>>
      BY <1>2 DEF logVars, effectVars
  <2>2. Moved(desk', d, s)
      BY <1>0, <1>2, DeskMoves
  <2>3. DeskCore'
      BY <1>0, <1>2, <2>1, <2>2, QuietMove
  <2>. QED
      BY <1>1, <2>1, <2>3
<1>3. ASSUME NEW o \in LoggedOps, NEW a \in Operators, NEW action \in menu, AskOperation(d, o, a, action)
      PROVE  DeskCore' /\ PreviewCore' /\ ServerShape'
  <2>1. action # "none"
      BY <1>0, OpsAssumption
  <2>2. UNCHANGED <<effectVars, commitVars>>
      BY <1>3 DEF AskOperation
  <2>. QED
      BY <1>0, <1>1, <1>3, <2>1, <2>2, AskStep
<1>4. ASSUME ReplayOperation(d) PROVE DeskCore' /\ PreviewCore' /\ ServerShape'
  <2>. DEFINE o == desk[d].op
  <2>1. desk[d].step = "asked" /\ o \in LoggedOps /\ UNCHANGED <<opsLog, auditRows, effectVars, commitVars>>
      BY <1>0, <1>4 DEF ReplayOperation, DeskShape, GoodDesk
  <2>2. CASE opsLog[o] = NoLog
    <3>1. desk' = [desk EXCEPT ![d].step = "new"] /\ UNCHANGED logVars
        BY <1>4, <2>1, <2>2 DEF ReplayOperation, Goes, logVars
    <3>2. ~desk[d].replay
        BY <1>0, <2>1, <2>2 DEF DeskCore, DeskInv
    <3>3. "new" \in DeskSteps
        BY DEF DeskSteps
    <3>. QED
        BY <1>2, <2>1, <3>1, <3>2, <3>3
  <2>3. CASE opsLog[o] # NoLog
    <3>1. /\ Puts(desk', d, NoDesk)
          /\ answers' = answers \/ answers' = [answers EXCEPT ![o] = @ \cup {opsLog[o].answer}]
        BY <1>4, <2>3 DEF ReplayOperation, Leaves, Puts
    <3>2. Left(desk', d)
        BY <1>0, <3>1, DeskLeaves
    <3>3. PreviewCore' /\ ServerShape' /\ performed' = performed
        BY <1>1, <2>1
    <3>4. DeskCore'
        BY <1>0, <2>1, <2>3, <3>1, <3>2, <3>3, LeaveStep
    <3>. QED
        BY <3>3, <3>4
  <2>. QED
      BY <2>2, <2>3
<1>5. ASSUME Leaves(d), UNCHANGED <<logVars, effectVars, commitVars>> PROVE DeskCore' /\ PreviewCore' /\ ServerShape'
  <2>1. Left(desk', d)
    <3>1. Puts(desk', d, NoDesk)
        BY <1>5 DEF Leaves, Puts
    <3>. QED
        BY <1>0, <3>1, DeskLeaves
  <2>2. UNCHANGED <<opsLog, answers, auditRows, performed>> /\ UNCHANGED <<effectVars, commitVars>>
      BY <1>5 DEF logVars, effectVars
  <2>3. DeskCore'
      BY <1>0, <2>1, <2>2, LeaveStep
  <2>. QED
      BY <1>1, <2>2, <2>3
<1>6. ASSUME NEW v, Performed(d, v), desk[d].step \in {"new", "found"}, UNCHANGED logVars PROVE DeskCore'
  <2>1. UNCHANGED <<opsLog, answers, auditRows>>
      BY <1>6 DEF logVars
  <2>. QED
      BY <1>0, <1>6, <2>1, PerformStep
<1>7. desk[d].step = "new" => ~desk[d].replay
    BY <1>0 DEF DeskCore, DeskInv
<1>8. ASSUME UpsertOpsServer(d) \/ SetOpsServerStatus(d) PROVE DeskCore' /\ PreviewCore' /\ ServerShape'
  <2>1. /\ desk[d].step \in {"new", "found"} /\ UNCHANGED logVars /\ \E v : Performed(d, v)
        /\ UNCHANGED <<seat, previews, previewTargets, commitKeys, adminGrants>>
        /\ server'.status \in {"MAINTENANCE", "DRAINING"}
      BY <1>8 DEF UpsertOpsServer, SetOpsServerStatus, Doing, commitVars
  <2>. QED
      BY <1>0, <1>6, <2>1, PreviewsUntouched DEF ServerShape
<1>9. ASSUME FindServer(d) PROVE DeskCore' /\ PreviewCore' /\ ServerShape'
  <2>1. /\ desk[d].step = "new" /\ \E v : desk' = [desk EXCEPT ![d].step = "found", ![d].read = v]
        /\ UNCHANGED <<logVars, effectVars, commitVars>>
      BY <1>9 DEF FindServer, Doing
  <2>2. "found" \in DeskSteps
      BY DEF DeskSteps
  <2>. QED
      BY <1>2, <1>7, <2>1, <2>2
<1>10. ASSUME GetOnlineSession(d) PROVE DeskCore' /\ PreviewCore' /\ ServerShape'
  <2>1. /\ desk[d].step = "new" /\ UNCHANGED <<logVars, effectVars, commitVars>>
        /\ Leaves(d) \/ \E v : desk' = [desk EXCEPT ![d].step = "found", ![d].read = v]
      BY <1>10 DEF GetOnlineSession, Doing
  <2>2. "found" \in DeskSteps
      BY DEF DeskSteps
  <2>. QED
      BY <1>2, <1>5, <1>7, <2>1, <2>2
<1>11. ASSUME KickOpsOnlinePlayer(d) PROVE DeskCore' /\ PreviewCore' /\ ServerShape'
  <2>1. /\ desk[d].step = "found" /\ UNCHANGED logVars
        /\ UNCHANGED <<server, previews, previewTargets, commitKeys, adminGrants>>
        /\ \/ seat' = 0 /\ \E v : Performed(d, v)
           \/ UNCHANGED <<seat, performed>> /\ Leaves(d)
        /\ UNCHANGED commitVars
      BY <1>11 DEF KickOpsOnlinePlayer, Doing, commitVars
  <2>2. CASE seat' = 0 /\ \E v : Performed(d, v)
      BY <1>0, <1>6, <2>1, <2>2, PreviewsUntouched DEF ServerShape
  <2>3. CASE UNCHANGED <<seat, performed>> /\ Leaves(d)
      BY <1>5, <2>1, <2>3 DEF effectVars
  <2>. QED
      BY <2>1, <2>2, <2>3
<1>12. ASSUME NEW p \in Previews, NEW kind \in {"LOTTERY", "COMPENSATION"}, NEW targets, targets # {},
              FreezePreview(d, p, kind, targets), desk[d].step = "new",
              UNCHANGED <<logVars, server, seat, commitVars>>
       PROVE  DeskCore' /\ PreviewCore' /\ ServerShape'
  <2>1. PreviewCore'
      BY <1>0, <1>12, FreezeStep
  <2>2. Performed(d, <<"preview", p>>) /\ UNCHANGED logVars
      BY <1>12 DEF FreezePreview
  <2>3. DeskCore'
      BY <1>6, <1>12, <2>2
  <2>. QED
      BY <1>0, <1>12, <2>1, <2>3 DEF ServerShape
<1>13. ASSUME NEW p \in Previews, CreateAdminCompensationPreview(d, p) PROVE DeskCore' /\ PreviewCore' /\ ServerShape'
  <2>1. /\ desk[d].step = "new" /\ UNCHANGED <<logVars, server, seat, commitVars>>
        /\ \/ Performed(d, <<"empty">>) /\ UNCHANGED <<previews, previewTargets>>
           \/ CompensationWhere # {} /\ FreezePreview(d, p, "COMPENSATION", CompensationWhere)
      BY <1>13 DEF CreateAdminCompensationPreview, Doing
  <2>2. CASE Performed(d, <<"empty">>) /\ UNCHANGED <<previews, previewTargets>>
    <3>1. UNCHANGED <<commitKeys, adminGrants>> /\ UNCHANGED logVars
        BY <2>1 DEF commitVars
    <3>2. DeskCore'
        BY <1>6, <2>1, <2>2, <3>1
    <3>. QED
        BY <1>0, <2>1, <2>2, <3>1, <3>2, PreviewsUntouched DEF ServerShape
  <2>3. CASE CompensationWhere # {} /\ FreezePreview(d, p, "COMPENSATION", CompensationWhere)
      BY <1>12, <2>1, <2>3
  <2>. QED
      BY <2>1, <2>2, <2>3
<1>14. ASSUME NEW p \in Previews, NEW t \in Targets, CreateAdminLotteryPreview(d, p, t)
       PROVE  DeskCore' /\ PreviewCore' /\ ServerShape'
  <2>1. /\ desk[d].step = "new" /\ UNCHANGED <<logVars, server, seat, commitVars>>
        /\ FreezePreview(d, p, "LOTTERY", {t})
      BY <1>14 DEF CreateAdminLotteryPreview, Doing
  <2>2. {t} # {}
      OBVIOUS
  <2>. QED
      BY <1>12, <2>1, <2>2
<1>15. ASSUME AuditTarget(d) \/ CompleteOperation(d) PROVE DeskCore' /\ PreviewCore' /\ ServerShape'
  <2>1. UNCHANGED <<effectVars, commitVars>>
      BY <1>15 DEF AuditTarget, CompleteOperation
  <2>. QED
      BY <1>0, <1>1, <1>15, <2>1, AuditStep, CompleteStep
<1>16. ASSUME OperationLost(d) PROVE DeskCore' /\ PreviewCore' /\ ServerShape'
    BY <1>5, <1>16 DEF OperationLost
<1>. QED
    BY <1>3, <1>4, <1>8, <1>9, <1>10, <1>11, <1>13, <1>14, <1>15, <1>16 DEF DeskNext

LEMMA OpsNextIInv == OpsIInv /\ [OpsNext]_opsVars => OpsIInv'
<1>. SUFFICES ASSUME OpsIInv, [OpsNext]_opsVars PROVE OpsIInv'
    OBVIOUS
<1>0. DeskCore /\ PreviewCore /\ ServerShape /\ menu \in Menus
    BY DEF OpsIInv
<1>1. menu' = menu
    BY DEF OpsNext, opsVars
<1>2. ASSUME NEW d \in Desks, DeskNext(d) PROVE OpsIInv'
    BY <1>0, <1>1, <1>2, RequestSteps DEF OpsIInv
<1>3. ASSUME PlayerReconnects PROVE OpsIInv'
  <2>1. /\ UNCHANGED <<desk, opsLog, answers, auditRows, performed, server>> /\ seat' = 2
        /\ UNCHANGED <<previews, previewTargets, commitKeys, adminGrants>>
      BY <1>3 DEF PlayerReconnects, logVars, commitVars
  <2>. QED
      BY <1>0, <1>1, <2>1, DesksUntouched, PreviewsUntouched DEF OpsIInv, ServerShape
<1>4. ASSUME NEW p \in Previews, PreviewExpires(p) PROVE OpsIInv'
  <2>1. UNCHANGED <<desk, opsLog, answers, auditRows, performed>> /\ UNCHANGED <<server, seat>>
      BY <1>4 DEF PreviewExpires, logVars
  <2>. QED
      BY <1>0, <1>1, <1>4, <2>1, DesksUntouched, ExpireStep DEF OpsIInv, ServerShape
<1>5. ASSUME NEW t, NEW status, NEW deleted, BanOrDelete(t, status, deleted) PROVE OpsIInv'
  <2>1. /\ UNCHANGED <<desk, opsLog, answers, auditRows, performed>> /\ UNCHANGED <<server, seat>>
        /\ UNCHANGED <<previews, previewTargets, commitKeys, adminGrants>>
      BY <1>5 DEF BanOrDelete, logVars, effectVars, commitVars
  <2>. QED
      BY <1>0, <1>1, <2>1, DesksUntouched, PreviewsUntouched DEF OpsIInv, ServerShape
<1>6. ASSUME NEW c \in CommitIds, NEW p \in Previews, NEW a \in Operators,
             CommitAdminLotteryPreview(c, p, a) \/ CommitAdminCompensation(c, p, a)
      PROVE  OpsIInv'
  <2>1. /\ UNCHANGED <<desk, opsLog, answers, auditRows, performed>> /\ UNCHANGED <<server, seat>>
      BY <1>6 DEF CommitAdminLotteryPreview, CommitAdminCompensation, logVars
  <2>2. previews[p].status = "PENDING" /\ (Pay(c, p) \/ Refused(p)) /\ UNCHANGED previewTargets
      BY <1>6 DEF CommitAdminLotteryPreview, CommitAdminCompensation, Committable
  <2>. QED
      BY <1>0, <1>1, <2>1, <2>2, DesksUntouched, CommitStep DEF OpsIInv, ServerShape
<1>7. CASE UNCHANGED opsVars
  <2>1. /\ UNCHANGED <<desk, opsLog, answers, auditRows, performed>> /\ UNCHANGED <<server, seat>>
        /\ UNCHANGED <<previews, previewTargets, commitKeys, adminGrants>>
      BY <1>7 DEF opsVars
  <2>. QED
      BY <1>0, <1>1, <2>1, DesksUntouched, PreviewsUntouched DEF OpsIInv, ServerShape
<1>. QED
    BY <1>2, <1>3, <1>4, <1>5, <1>6, <1>7 DEF OpsNext, OpsSteps

(* OperationsAnswerOnce is an invariant of the super-administrator's       *)
(* operations: one opId has one answer, given after its effect and audit   *)
(* row; a request sent after the logging performs nothing; a preview pays  *)
(* its frozen targets once and nobody else.                                *)
THEOREM OperationsAlwaysAnswerOnce == OpsSpec => []OperationsAnswerOnce
<1>1. OpsInit => OpsIInv
    BY OpsInitIInv
<1>2. OpsIInv /\ [OpsNext]_opsVars => OpsIInv'
    BY OpsNextIInv
<1>3. OpsIInv => OperationsAnswerOnce
  <2>. SUFFICES ASSUME OpsIInv PROVE OperationsAnswerOnce
      OBVIOUS
  <2>0. DeskShape(desk) /\ LogShape /\ LogInv /\ DeskInv /\ AuditInv /\ PreviewShape /\ PreviewInv /\ ServerShape
      BY DEF OpsIInv, DeskCore, PreviewCore
  <2>1. OpsTypeOK
    <3>1. ASSUME NEW o \in LoggedOps PROVE (opsLog[o].admin = "none") = (opsLog[o].action = "none")
        BY <2>0 DEF LogInv, NoLog
    <3>2. ASSUME NEW p \in Previews, previews[p].kind # "none"
          PROVE  previews[p].status \in {"PENDING", "COMMITTED"} /\ previewTargets[p] # {}
        BY <2>0, <3>2 DEF PreviewInv, PreviewShape, PreviewRow
    <3>3. \A c \in CommitIds : commitKeys[c] \in Previews \cup {"none"}
        BY <2>0 DEF PreviewShape
    <3>. QED
        BY <2>0, <3>1, <3>2, <3>3 DEF OpsTypeOK, ServerShape
  <2>2. OneAnswer
    <3>1. ASSUME NEW o \in LoggedOps PROVE Cardinality(answers[o]) <= 1
      <4>1. answers[o] \subseteq {opsLog[o].answer}
          BY <2>0 DEF LogInv
      <4>2. answers[o] = {} \/ answers[o] = {opsLog[o].answer}
          BY <4>1
      <4>3. Cardinality({}) = 0 /\ Cardinality({opsLog[o].answer}) = 1
          BY FS_EmptySet, FS_Singleton
      <4>. QED
          BY <4>2, <4>3
    <3>. QED
        BY <3>1 DEF OneAnswer
  <2>3. ReplayPerformsNothing
      BY <2>0 DEF DeskInv, ReplayPerformsNothing
  <2>4. AnsweredIsAudited
    <3>1. ASSUME NEW o \in LoggedOps PROVE auditRows[o] <= performed[o]
      <4>1. auditRows[o] \in Nat /\ performed[o] \in Nat /\ Cardinality(Unaudited(desk, o)) \in Nat
          BY <2>0, UnauditedFinite DEF LogShape
      <4>. QED
          BY <2>0, <4>1 DEF AuditInv
    <3>. QED
        BY <2>0, <3>1 DEF LogInv, AnsweredIsAudited
  <2>5. PreviewPaidOnce
      BY <2>0 DEF PreviewInv, PreviewPaidOnce
  <2>. QED
      BY <2>1, <2>2, <2>3, <2>4, <2>5 DEF OperationsAnswerOnce
<1>. QED
    BY <1>1, <1>2, <1>3, PTL DEF OpsSpec

-----------------------------------------------------------------------------
(* Announcements: the rows. *)
DedupeKeys == {<< >>} \cup
  UNION {{DedupeKey(d, Deliveries[d][i]) : i \in DOMAIN Deliveries[d]} : d \in DOMAIN Deliveries}
NoticeRow == [kind : {"RARE_REWARD", "OPS_NOTICE"}, status : {"ACTIVE", "REVOKED"}, starts : Int,
              ends : Int, priority : Int, dedupe : DedupeKeys, by : DOMAIN Deliveries \cup {"ops"}]
TemplateRow == [enabled : BOOLEAN, duration : Nat, priority : Int]

AnnouncementsShape ==
    /\ templates \in [Codes -> TemplateRow]
    /\ saidEnabled \in [Codes -> BOOLEAN]
    /\ notices \in Seq(NoticeRow)
    /\ delivery \in [DOMAIN Deliveries -> {"open", "inserted", "committed"}]
    /\ time \in 0 .. MaxTime
    /\ afterId \in 0 .. Len(notices)

(* A row that announces a rare drop names a delivery that has run.         *)
Announces(row, d) ==
    /\ d \in DOMAIN Deliveries
    /\ \E i \in DOMAIN Deliveries[d] :
         IsRare(Deliveries[d][i]) /\ DedupeKey(d, Deliveries[d][i]) = row.dedupe

NoticesInv ==
    \A n \in DOMAIN notices :
      /\ notices[n].ends > notices[n].starts
      /\ notices[n].kind = "RARE_REWARD" =>
           Announces(notices[n], notices[n].by) /\ delivery[notices[n].by] # "open"

WithdrawnInv == \A n \in withdrawn : n \in DOMAIN notices /\ notices[n].status = "REVOKED"

(* Whatever the cursor has passed was received or is accounted for, shown  *)
(* or not: rows become visible, or cease to be, behind the cursor.         *)
CursorInv == \A n \in 1 .. afterId : n \in received \cup late \cup crowded

AnnouncementsIInv ==
    /\ AnnouncementsShape /\ NoticesInv /\ WithdrawnInv /\ RevokedNotShown
    /\ CursorInv /\ TemplateFlagAsSaid

(* The provers' induction: a set of numbers that is not empty has a least. *)
LEMMA LeastNumber ==
    ASSUME NEW T \in SUBSET Nat, T # {}
    PROVE  \E n \in T : \A m \in T : n <= m
<1>1. PICK n \in T : \A m \in T : <<m, n>> \notin OpToRel(<, Nat)
    BY WFMin, NatLessThanWellFounded
<1>2. \A m \in T : ~(m < n)
    BY <1>1 DEF OpToRel
<1>. QED
    BY <1>2

(* A page that leaves out a row of the result is full: the rows before a   *)
(* row in the page's order number the rows of the result.                  *)
Ahead(S, n) == {m \in S : Before(m, n)}

LEMMA AheadCounts ==
    ASSUME NEW S \in SUBSET Nat, IsFiniteSet(S), \A n \in S : notices[n].priority \in Int
    PROVE  [n \in S |-> Cardinality(Ahead(S, n))] \in Bijection(S, 0 .. Cardinality(S) - 1)
<1>. DEFINE r == [n \in S |-> Cardinality(Ahead(S, n))]
            T == 0 .. Cardinality(S) - 1
<1>1. Cardinality(S) \in Nat
    BY FS_CardinalityType
<1>2. ASSUME NEW n \in S
      PROVE  IsFiniteSet(Ahead(S, n)) /\ Cardinality(Ahead(S, n)) \in T
  <2>. Ahead(S, n) \in SUBSET S
      BY DEF Ahead
  <2>0. notices[n].priority \in Int /\ n \in Nat
      OBVIOUS
  <2>1. n \notin Ahead(S, n)
      BY <2>0 DEF Ahead, Before
  <2>2. IsFiniteSet(Ahead(S, n)) /\ Cardinality(Ahead(S, n)) <= Cardinality(S)
        /\ (Cardinality(Ahead(S, n)) = Cardinality(S) => Ahead(S, n) = S)
      BY <2>1, FS_Subset
  <2>3. Cardinality(Ahead(S, n)) \in Nat /\ Cardinality(Ahead(S, n)) # Cardinality(S)
      BY <2>1, <2>2, FS_CardinalityType
  <2>. QED
      BY <1>1, <2>2, <2>3
<1>3. ASSUME NEW m \in S, NEW n \in S, Before(m, n)
      PROVE  Cardinality(Ahead(S, m)) < Cardinality(Ahead(S, n))
  <2>1. Ahead(S, m) \subseteq Ahead(S, n) /\ m \in Ahead(S, n) /\ m \notin Ahead(S, m)
    <3>1. ASSUME NEW k \in S, Before(k, m) PROVE Before(k, n)
      <4>1. /\ k \in Nat /\ m \in Nat /\ n \in Nat /\ notices[k].priority \in Int
            /\ notices[m].priority \in Int /\ notices[n].priority \in Int
          OBVIOUS
      <4>. QED
          BY <1>3, <3>1, <4>1 DEF Before
    <3>2. ~Before(m, m)
      <4>1. m \in Nat /\ notices[m].priority \in Int
          OBVIOUS
      <4>. QED
          BY <4>1 DEF Before
    <3>. QED
        BY <1>3, <3>1, <3>2 DEF Ahead
  <2>2. Cardinality(Ahead(S, m)) <= Cardinality(Ahead(S, n))
        /\ (Cardinality(Ahead(S, m)) = Cardinality(Ahead(S, n)) => Ahead(S, m) = Ahead(S, n))
      BY <1>2, <2>1, FS_Subset
  <2>3. Cardinality(Ahead(S, m)) # Cardinality(Ahead(S, n))
      BY <2>1, <2>2
  <2>. QED
      BY <1>1, <1>2, <2>2, <2>3
<1>4. ASSUME NEW m \in S, NEW n \in S, m # n PROVE r[m] # r[n]
  <2>1. Before(m, n) \/ Before(n, m)
      BY <1>4 DEF Before
  <2>2. r[m] < r[n] \/ r[n] < r[m]
      BY <1>3, <2>1
  <2>3. r[m] \in T /\ r[n] \in T
      BY <1>2
  <2>. QED
      BY <1>1, <2>2, <2>3
<1>5. r \in [S -> T]
    BY <1>2
<1>. HIDE DEF r
<1>6. r \in Injection(S, T)
    BY <1>4, <1>5 DEF Injection, IsInjective
<1>7. IsFiniteSet(T) /\ Cardinality(T) = Cardinality(S)
    BY <1>1, FS_Interval
<1>8. r \in Surjection(S, T)
    BY <1>6, <1>7, FS_Injection
<1>. QED
    BY <1>6, <1>8 DEF Bijection, r

LEMMA FullPage ==
    ASSUME NEW S \in SUBSET Nat, IsFiniteSet(S), \A n \in S : notices[n].priority \in Int,
           PageLimit \in Nat,
           NEW n0 \in S, ~(Cardinality(Ahead(S, n0)) < PageLimit)
    PROVE  Cardinality({n \in S : Cardinality(Ahead(S, n)) < PageLimit}) = PageLimit
<1>. DEFINE r == [n \in S |-> Cardinality(Ahead(S, n))]
            T == 0 .. Cardinality(S) - 1
            page == {n \in S : Cardinality(Ahead(S, n)) < PageLimit}
            ranks == 0 .. PageLimit - 1
            f == [n \in page |-> r[n]]
<1>1. r \in Injection(S, T) /\ r \in Surjection(S, T) /\ Cardinality(S) \in Nat
    BY AheadCounts, FS_CardinalityType DEF Bijection
<1>2. \A n \in S : r[n] = Cardinality(Ahead(S, n))
    OBVIOUS
<1>3. page = {n \in S : r[n] < PageLimit}
    BY <1>2
<1>. HIDE DEF r, page
<1>4. /\ r \in [S -> T]
      /\ \A m, n \in S : r[m] = r[n] => m = n
      /\ \A t \in T : \E n \in S : r[n] = t
    BY <1>1 DEF Injection, IsInjective, Surjection
<1>5. r[n0] \in T /\ PageLimit <= r[n0]
    BY <1>1, <1>2, <1>4
<1>6. ranks \subseteq T
    BY <1>1, <1>5
<1>7. f \in [page -> ranks]
  <2>1. ASSUME NEW n \in page PROVE r[n] \in ranks
    <3>1. n \in S /\ r[n] < PageLimit /\ r[n] \in T
        BY <1>3, <1>4
    <3>. QED
        BY <1>1, <3>1
  <2>. QED
      BY <2>1
<1>8. f \in Injection(page, ranks)
    BY <1>3, <1>4, <1>7 DEF Injection, IsInjective
<1>9. IsFiniteSet(ranks) /\ Cardinality(ranks) = PageLimit
  <2>1. 0 \in Int /\ PageLimit - 1 \in Int
      OBVIOUS
  <2>2. IsFiniteSet(ranks) /\ Cardinality(ranks) = IF 0 > PageLimit - 1 THEN 0 ELSE PageLimit - 1 - 0 + 1
      BY <2>1, FS_Interval
  <2>. HIDE DEF ranks
  <2>. QED
      BY <2>2
<1>10. f \in Surjection(page, ranks)
  <2>1. ASSUME NEW t \in ranks PROVE \E n \in page : f[n] = t
    <3>1. PICK n \in S : r[n] = t
        BY <1>4, <1>6
    <3>2. n \in page
        BY <1>3, <3>1
    <3>. QED
        BY <3>1, <3>2
  <2>. QED
      BY <1>7, <2>1 DEF Surjection
<1>. HIDE DEF f
<1>11. Cardinality(page) = Cardinality(ranks)
    BY <1>8, <1>9, <1>10, FS_Injection
<1>. QED
    BY <1>9, <1>11 DEF page

(* What a delivery publishes: a recursive function over its drops, unfolded *)
(* one drop at a time.                                                      *)
RareRow(d, i) ==
    LET drop == Deliveries[d][i]
        template == templates[TemplateOf(drop)]
    IN  [kind |-> "RARE_REWARD", status |-> "ACTIVE", starts |-> time,
         ends |-> IF template.duration > 0 THEN time + template.duration ELSE Never,
         priority |-> template.priority, dedupe |-> DedupeKey(d, drop), by |-> d]
PublishDrop(rows, d, i) ==
    IF ~IsRare(Deliveries[d][i]) \/ ~templates[TemplateOf(Deliveries[d][i])].enabled THEN rows
    ELSE InsertAnnouncementTx(rows, RareRow(d, i))
UnfoldPublished(g, d, i) == IF i = 0 THEN notices ELSE PublishDrop(g[i - 1], d, i)
IsPublished(g, d) == g = [i \in 0 .. Len(Deliveries[d]) |-> UnfoldPublished(g, d, i)]

(* The rows already there stay, and those added announce the delivery.     *)
Announced(d) ==
    {rows \in Seq(NoticeRow) :
       /\ Len(notices) <= Len(rows)
       /\ \A n \in 1 .. Len(notices) : rows[n] = notices[n]
       /\ \A n \in 1 .. Len(rows) : n > Len(notices) =>
            /\ rows[n].ends > rows[n].starts /\ rows[n].kind = "RARE_REWARD"
            /\ rows[n].by = d /\ Announces(rows[n], d)}

LEMMA RareRowFits ==
    ASSUME AnnouncementsShape, NEW d \in DOMAIN Deliveries, NEW i \in DOMAIN Deliveries[d],
           IsRare(Deliveries[d][i])
    PROVE  /\ RareRow(d, i) \in NoticeRow
           /\ RareRow(d, i).ends > RareRow(d, i).starts
           /\ RareRow(d, i).kind = "RARE_REWARD" /\ RareRow(d, i).by = d
           /\ Announces(RareRow(d, i), d)
<1>. DEFINE drop == Deliveries[d][i]
            template == templates[TemplateOf(drop)]
            until == IF template.duration > 0 THEN time + template.duration ELSE Never
<1>1. TemplateOf(drop) \in Codes
    BY DEF TemplateOf, Codes
<1>2. template \in TemplateRow
    BY <1>1 DEF AnnouncementsShape
<1>3. template.duration \in Nat /\ template.priority \in Int
    BY <1>2 DEF TemplateRow
<1>4. time \in Int /\ until \in Int /\ until > time
  <2>1. time \in 0 .. MaxTime /\ MaxTime \in Nat
      BY AnnouncementsAssumption DEF AnnouncementsShape
  <2>. HIDE DEF template
  <2>. QED
      BY <1>3, <2>1 DEF Never
<1>5. DedupeKey(d, drop) \in DedupeKeys
    BY DEF DedupeKeys
<1>6. RareRow(d, i) = [kind |-> "RARE_REWARD", status |-> "ACTIVE", starts |-> time, ends |-> until,
                       priority |-> template.priority, dedupe |-> DedupeKey(d, drop), by |-> d]
    BY Zenon DEF RareRow
<1>. HIDE DEF template, until, drop
<1>7. RareRow(d, i) \in NoticeRow
    BY <1>3, <1>4, <1>5, <1>6 DEF NoticeRow
<1>8. /\ RareRow(d, i).ends = until /\ RareRow(d, i).starts = time
      /\ RareRow(d, i).kind = "RARE_REWARD" /\ RareRow(d, i).by = d
      /\ RareRow(d, i).dedupe = DedupeKey(d, drop)
    BY <1>6
<1>. QED
    BY <1>4, <1>7, <1>8 DEF Announces, drop

LEMMA PublishDropAnnounces ==
    ASSUME AnnouncementsShape, NEW d \in DOMAIN Deliveries, NEW i \in DOMAIN Deliveries[d],
           NEW rows \in Announced(d)
    PROVE  PublishDrop(rows, d, i) \in Announced(d)
<1>1. CASE PublishDrop(rows, d, i) = rows
    BY <1>1
<1>2. CASE IsRare(Deliveries[d][i]) /\ PublishDrop(rows, d, i) = Append(rows, RareRow(d, i))
  <2>. DEFINE y == RareRow(d, i)
              new == Append(rows, y)
  <2>1. /\ y \in NoticeRow /\ y.ends > y.starts /\ y.kind = "RARE_REWARD" /\ y.by = d
        /\ Announces(y, d)
      BY <1>2, RareRowFits
  <2>. HIDE DEF y
  <2>2. rows \in Seq(NoticeRow) /\ Len(rows) \in Nat /\ Len(notices) <= Len(rows)
        /\ notices \in Seq(NoticeRow) /\ Len(notices) \in Nat
      BY DEF Announced, AnnouncementsShape
  <2>3. /\ new \in Seq(NoticeRow) /\ Len(new) = Len(rows) + 1 /\ new[Len(rows) + 1] = y
        /\ \A n \in 1 .. Len(rows) : new[n] = rows[n]
      BY <2>1, <2>2
  <2>. HIDE DEF new
  <2>4. Len(notices) <= Len(new) /\ \A n \in 1 .. Len(notices) : new[n] = notices[n]
      BY <2>2, <2>3 DEF Announced
  <2>5. ASSUME NEW n \in 1 .. Len(new), n > Len(notices)
        PROVE  /\ new[n].ends > new[n].starts /\ new[n].kind = "RARE_REWARD"
               /\ new[n].by = d /\ Announces(new[n], d)
    <3>1. CASE n = Len(rows) + 1
        BY <2>1, <2>3, <3>1
    <3>2. CASE n # Len(rows) + 1
      <4>1. n \in 1 .. Len(rows) /\ new[n] = rows[n]
          BY <2>2, <2>3, <3>2
      <4>. QED
          BY <2>5, <4>1 DEF Announced
    <3>. QED
        BY <3>1, <3>2
  <2>6. new \in Announced(d)
      BY <2>3, <2>4, <2>5 DEF Announced
  <2>. QED
      BY <1>2, <2>6 DEF new, y
<1>. QED
    BY <1>1, <1>2 DEF PublishDrop, InsertAnnouncementTx

LEMMA PublishedExists ==
    ASSUME AnnouncementsShape, NEW d \in DOMAIN Deliveries
    PROVE  \E g : IsPublished(g, d)
<1>. DEFINE N == Len(Deliveries[d])
            A == Announced(d)
            Ok(k) == \E g \in [0 .. k -> A] : \A i \in 0 .. k : g[i] = UnfoldPublished(g, d, i)
            Bad == {k \in Nat : k <= N /\ ~Ok(k)}
<1>1. N \in Nat /\ DOMAIN Deliveries[d] = 1 .. N
    BY AnnouncementsAssumption
<1>2. notices \in A
    BY DEF AnnouncementsShape, Announced
<1>. HIDE DEF A, N
<1>3. Ok(0)
  <2>. DEFINE g == [i \in 0 .. 0 |-> notices]
  <2>1. g \in [0 .. 0 -> A] /\ \A i \in 0 .. 0 : g[i] = UnfoldPublished(g, d, i)
      BY <1>2 DEF UnfoldPublished
  <2>. QED
      BY <2>1
<1>4. ASSUME NEW k \in Nat, k + 1 <= N, Ok(k) PROVE Ok(k + 1)
  <2>1. PICK g \in [0 .. k -> A] : \A i \in 0 .. k : g[i] = UnfoldPublished(g, d, i)
      BY <1>4
  <2>. DEFINE h == [i \in 0 .. k + 1 |-> IF i <= k THEN g[i] ELSE PublishDrop(g[k], d, k + 1)]
  <2>2. k + 1 \in DOMAIN Deliveries[d] /\ g[k] \in A
      BY <1>1, <1>4
  <2>3. PublishDrop(g[k], d, k + 1) \in A
      BY <2>2, PublishDropAnnounces DEF A
  <2>4. h \in [0 .. k + 1 -> A] /\ h[k + 1] = PublishDrop(g[k], d, k + 1)
        /\ \A i \in 0 .. k : h[i] = g[i]
      BY <2>3
  <2>. HIDE DEF h
  <2>5. ASSUME NEW i \in 0 .. k + 1 PROVE h[i] = UnfoldPublished(h, d, i)
    <3>1. CASE i = k + 1
      <4>1. i # 0 /\ i - 1 = k /\ h[k] = g[k]
          BY <2>4, <3>1
      <4>. QED
          BY <2>4, <3>1, <4>1 DEF UnfoldPublished
    <3>2. CASE i # k + 1
      <4>1. i \in 0 .. k /\ (i # 0 => i - 1 \in 0 .. k)
          BY <3>2
      <4>. QED
          BY <2>1, <2>4, <4>1 DEF UnfoldPublished
    <3>. QED
        BY <3>1, <3>2
  <2>. QED
      BY <2>4, <2>5
<1>. HIDE DEF Ok
<1>5. Bad = {}
  <2>. SUFFICES ASSUME Bad # {} PROVE FALSE
      OBVIOUS
  <2>1. PICK k \in Bad : \A j \in Bad : k <= j
      BY LeastNumber
  <2>2. k \in Nat /\ k # 0 /\ k <= N
      BY <1>3, <2>1
  <2>3. k - 1 \in Nat /\ k - 1 \notin Bad /\ k - 1 + 1 <= N /\ k - 1 <= N
      BY <1>1, <2>1, <2>2
  <2>4. Ok(k - 1)
      BY <2>3
  <2>. QED
      BY <1>4, <2>1, <2>2, <2>3, <2>4
<1>6. PICK g \in [0 .. N -> A] : \A i \in 0 .. N : g[i] = UnfoldPublished(g, d, i)
    BY <1>1, <1>5 DEF Ok
<1>7. IsPublished(g, d)
    BY <1>6 DEF IsPublished, N
<1>. QED
    BY <1>7

LEMMA PublishedAnnounces ==
    ASSUME AnnouncementsShape, NEW d \in DOMAIN Deliveries
    PROVE  PublishRareRewardAnnouncementsTx(d) \in Announced(d)
<1>. DEFINE g == CHOOSE f : IsPublished(f, d)
            N == Len(Deliveries[d])
            Bad == {k \in Nat : k <= N /\ g[k] \notin Announced(d)}
<1>1. PublishRareRewardAnnouncementsTx(d) = g[N]
    BY Zenon DEF PublishRareRewardAnnouncementsTx, IsPublished, UnfoldPublished, PublishDrop, RareRow
<1>2. IsPublished(g, d)
    BY PublishedExists, Zenon
<1>3. N \in Nat /\ DOMAIN Deliveries[d] = 1 .. N
    BY AnnouncementsAssumption
<1>. HIDE DEF g
<1>4. \A i \in 0 .. N : g[i] = IF i = 0 THEN notices ELSE PublishDrop(g[i - 1], d, i)
    BY <1>2 DEF IsPublished, UnfoldPublished
<1>. HIDE DEF N
<1>5. notices \in Announced(d)
    BY DEF AnnouncementsShape, Announced
<1>6. Bad = {}
  <2>. SUFFICES ASSUME Bad # {} PROVE FALSE
      OBVIOUS
  <2>1. PICK k \in Bad : \A j \in Bad : k <= j
      BY LeastNumber
  <2>2. k \in 1 .. N
      BY <1>3, <1>4, <1>5, <2>1
  <2>3. k - 1 \in Nat /\ k - 1 <= N /\ k - 1 \notin Bad /\ k \in 0 .. N /\ k # 0
      BY <1>3, <2>1, <2>2
  <2>4. g[k - 1] \in Announced(d)
      BY <2>3
  <2>5. g[k] = PublishDrop(g[k - 1], d, k)
      BY <1>4, <2>3
  <2>. QED
      BY <1>3, <2>1, <2>2, <2>4, <2>5, PublishDropAnnounces
<1>. QED
    BY <1>1, <1>3, <1>6

LEMMA NoticeIds ==
    ASSUME AnnouncementsShape
    PROVE  /\ Len(notices) \in Nat /\ DOMAIN notices = 1 .. Len(notices)
           /\ \A n \in DOMAIN notices : notices[n] \in NoticeRow
BY DEF AnnouncementsShape

LEMMA AnnouncementsInitIInv == AnnouncementsInit => AnnouncementsIInv
<1>. SUFFICES ASSUME AnnouncementsInit PROVE AnnouncementsIInv
    OBVIOUS
<1>. USE DEF AnnouncementsInit
<1>1. MaxTime \in Nat
    BY AnnouncementsAssumption
<1>2. templates \in [Codes -> TemplateRow]
  <2>1. ASSUME NEW c \in Codes PROVE DefaultAnnouncementTemplates[c] \in TemplateRow
      BY DEF DefaultAnnouncementTemplates, TemplateRow
  <2>. QED
      BY <2>1 DEF DefaultAnnouncementTemplates
<1>3. Len(notices) = 0 /\ notices \in Seq(NoticeRow) /\ DOMAIN notices = {}
    OBVIOUS
<1>4. AnnouncementsShape
    BY <1>1, <1>2, <1>3 DEF AnnouncementsShape
<1>5. TemplateFlagAsSaid
    BY DEF TemplateFlagAsSaid, DefaultAnnouncementTemplates
<1>6. NoticesInv /\ WithdrawnInv /\ RevokedNotShown /\ CursorInv
    BY <1>3 DEF NoticesInv, WithdrawnInv, RevokedNotShown, CursorInv
<1>. QED
    BY <1>4, <1>5, <1>6 DEF AnnouncementsIInv

LEMMA TemplateStep ==
    ASSUME AnnouncementsIInv, NEW c \in EditedCodes, NEW enabled \in {"yes", "no", "unsaid"},
           NEW duration \in 0 .. 1, UpsertAnnouncementTemplate(c, enabled, duration)
    PROVE  AnnouncementsIInv'
<1>1. c \in Codes
    BY AnnouncementsAssumption DEF Codes
<1>2. templates \in [Codes -> TemplateRow] /\ saidEnabled \in [Codes -> BOOLEAN]
    BY DEF AnnouncementsIInv, AnnouncementsShape
<1>. DEFINE flag == IF enabled = "unsaid" THEN templates[c].enabled ELSE enabled = "yes"
            y == [templates[c] EXCEPT !.duration = duration, !.enabled = flag]
<1>3. templates[c] \in TemplateRow /\ flag \in BOOLEAN
    BY <1>1, <1>2 DEF TemplateRow
<1>4. templates' = [templates EXCEPT ![c] = y]
    BY <1>1, <1>2, <1>3 DEF UpsertAnnouncementTemplate, TemplateRow
<1>. HIDE DEF flag
<1>5. y \in TemplateRow /\ y.enabled = flag
  <2>1. y \in [enabled : {flag}, duration : {duration}, priority : {templates[c].priority}]
      BY <1>3 DEF TemplateRow
  <2>2. duration \in Nat /\ templates[c].priority \in Int
      BY <1>3 DEF TemplateRow
  <2>. HIDE DEF y
  <2>3. y.enabled = flag /\ y = [enabled |-> flag, duration |-> duration, priority |-> templates[c].priority]
      BY <2>1
  <2>. QED
      BY <1>3, <2>2, <2>3 DEF TemplateRow
<1>. HIDE DEF y
<1>6. /\ templates' \in [Codes -> TemplateRow]
      /\ \A k \in Codes : templates'[k].enabled = IF k = c THEN flag ELSE templates[k].enabled
    BY <1>1, <1>2, <1>4, <1>5
<1>7. /\ saidEnabled' \in [Codes -> BOOLEAN]
      /\ \A k \in Codes : saidEnabled'[k] = IF k = c /\ enabled # "unsaid" THEN enabled = "yes"
                                            ELSE saidEnabled[k]
    BY <1>1, <1>2 DEF UpsertAnnouncementTemplate, Said
<1>8. UNCHANGED <<notices, delivery, time, afterId, received, withdrawn, shownRevoked, late, crowded>>
    BY DEF UpsertAnnouncementTemplate
<1>9. AnnouncementsShape'
    BY <1>6, <1>7, <1>8 DEF AnnouncementsIInv, AnnouncementsShape
<1>10. TemplateFlagAsSaid'
  <2>1. \A k \in Codes : templates[k].enabled = saidEnabled[k]
      BY DEF AnnouncementsIInv, TemplateFlagAsSaid
  <2>2. ASSUME NEW k \in Codes PROVE templates'[k].enabled = saidEnabled'[k]
      BY <1>1, <1>6, <1>7, <2>1 DEF flag
  <2>. QED
      BY <2>2 DEF TemplateFlagAsSaid
<1>11. NoticesInv' /\ WithdrawnInv' /\ RevokedNotShown' /\ CursorInv'
    BY <1>8 DEF AnnouncementsIInv, NoticesInv, WithdrawnInv, RevokedNotShown, CursorInv, Announces
<1>. QED
    BY <1>9, <1>10, <1>11 DEF AnnouncementsIInv

(* A step that adds rows, or rewrites what a row shows, keeps what is      *)
(* known of the rows that were there.                                      *)
LEMMA NoticesStep ==
    ASSUME AnnouncementsIInv, notices' \in Seq(NoticeRow), Len(notices) <= Len(notices'),
           \A n \in 1 .. Len(notices) : notices'[n].status = "REVOKED" \/ notices'[n].status = notices[n].status,
           withdrawn' = withdrawn \/ \E n \in 1 .. Len(notices) :
                                       withdrawn' = withdrawn \cup {n} /\ notices'[n].status = "REVOKED",
           delivery' \in [DOMAIN Deliveries -> {"open", "inserted", "committed"}],
           NoticesInv',
           UNCHANGED <<templates, time, afterId, received, saidEnabled, shownRevoked, late, crowded>>
    PROVE  AnnouncementsIInv'
<1>1. /\ Len(notices) \in Nat /\ DOMAIN notices = 1 .. Len(notices)
    BY NoticeIds DEF AnnouncementsIInv
<1>2. Len(notices') \in Nat /\ DOMAIN notices' = 1 .. Len(notices')
    OBVIOUS
<1>3. afterId' \in 0 .. Len(notices')
    BY <1>1, <1>2 DEF AnnouncementsIInv, AnnouncementsShape
<1>4. AnnouncementsShape'
    BY <1>3 DEF AnnouncementsIInv, AnnouncementsShape
<1>5. WithdrawnInv'
  <2>1. ASSUME NEW n \in withdrawn PROVE n \in DOMAIN notices' /\ notices'[n].status = "REVOKED"
    <3>1. n \in 1 .. Len(notices) /\ notices[n].status = "REVOKED"
        BY <1>1 DEF AnnouncementsIInv, WithdrawnInv
    <3>. QED
        BY <1>1, <1>2, <3>1
  <2>2. ASSUME NEW n \in 1 .. Len(notices), notices'[n].status = "REVOKED"
        PROVE  n \in DOMAIN notices' /\ notices'[n].status = "REVOKED"
      BY <1>1, <1>2, <2>2
  <2>. QED
      BY <2>1, <2>2 DEF WithdrawnInv
<1>6. RevokedNotShown' /\ CursorInv' /\ TemplateFlagAsSaid'
    BY DEF AnnouncementsIInv, RevokedNotShown, CursorInv, TemplateFlagAsSaid
<1>. QED
    BY <1>4, <1>5, <1>6 DEF AnnouncementsIInv

LEMMA DeliverRewardsStep ==
    ASSUME AnnouncementsIInv, NEW d \in DOMAIN Deliveries, DeliverRewards(d)
    PROVE  AnnouncementsIInv'
<1>1. AnnouncementsShape /\ NoticesInv
    BY DEF AnnouncementsIInv
<1>2. notices' \in Announced(d) /\ withdrawn' = withdrawn
      /\ UNCHANGED <<templates, time, afterId, received, saidEnabled, shownRevoked, late, crowded>>
    BY <1>1, PublishedAnnounces DEF DeliverRewards
<1>3. /\ notices' \in Seq(NoticeRow) /\ Len(notices) <= Len(notices')
      /\ \A n \in 1 .. Len(notices) : notices'[n] = notices[n]
    BY <1>2 DEF Announced
<1>4. /\ delivery' \in [DOMAIN Deliveries -> {"open", "inserted", "committed"}]
      /\ delivery'[d] # "open"
      /\ \A e \in DOMAIN Deliveries : delivery[e] # "open" => delivery'[e] # "open"
    BY <1>1 DEF DeliverRewards, AnnouncementsShape
<1>5. NoticesInv'
  <2>1. ASSUME NEW n \in DOMAIN notices'
        PROVE  /\ notices'[n].ends > notices'[n].starts
               /\ notices'[n].kind = "RARE_REWARD" =>
                    Announces(notices'[n], notices'[n].by) /\ delivery'[notices'[n].by] # "open"
    <3>1. /\ n \in 1 .. Len(notices') /\ Len(notices') \in Nat /\ Len(notices) \in Nat
          /\ DOMAIN notices = 1 .. Len(notices)
        BY <1>1, <1>3, NoticeIds
    <3>2. CASE n <= Len(notices)
      <4>1. n \in DOMAIN notices /\ notices'[n] = notices[n]
          BY <1>3, <3>1, <3>2
      <4>2. notices[n].kind = "RARE_REWARD" => notices[n].by \in DOMAIN Deliveries
          BY <1>1, <4>1 DEF NoticesInv, Announces
      <4>. QED
          BY <1>1, <1>4, <4>1, <4>2 DEF NoticesInv
    <3>3. CASE ~(n <= Len(notices))
        BY <1>2, <1>4, <3>1, <3>3 DEF Announced
    <3>. QED
        BY <3>2, <3>3
  <2>. QED
      BY <2>1 DEF NoticesInv, Announces
<1>. QED
    BY <1>2, <1>3, <1>4, <1>5, NoticesStep

LEMMA DeliveryCommitsStep ==
    ASSUME AnnouncementsIInv, NEW d \in DOMAIN Deliveries, DeliveryCommits(d)
    PROVE  AnnouncementsIInv'
<1>1. AnnouncementsShape /\ NoticesInv
    BY DEF AnnouncementsIInv
<1>2. notices' = notices /\ withdrawn' = withdrawn
      /\ UNCHANGED <<templates, time, afterId, received, saidEnabled, shownRevoked, late, crowded>>
    BY DEF DeliveryCommits
<1>3. /\ delivery' \in [DOMAIN Deliveries -> {"open", "inserted", "committed"}]
      /\ \A e \in DOMAIN Deliveries : delivery[e] # "open" => delivery'[e] # "open"
    BY <1>1 DEF DeliveryCommits, AnnouncementsShape
<1>4. notices' \in Seq(NoticeRow) /\ Len(notices) <= Len(notices')
    BY <1>1, <1>2, NoticeIds DEF AnnouncementsShape
<1>5. NoticesInv'
    BY <1>1, <1>2, <1>3 DEF NoticesInv, Announces
<1>. QED
    BY <1>2, <1>3, <1>4, <1>5, NoticesStep

(* One row rewritten. *)
LEMMA NoticeRewritten ==
    ASSUME AnnouncementsIInv, NEW n \in DOMAIN notices, NEW y \in NoticeRow,
           notices' = [notices EXCEPT ![n] = y],
           y.status = "REVOKED" \/ y.status = notices[n].status,
           y.kind = notices[n].kind, y.dedupe = notices[n].dedupe, y.by = notices[n].by,
           y.ends > y.starts,
           withdrawn' = withdrawn \/ (withdrawn' = withdrawn \cup {n} /\ y.status = "REVOKED"),
           UNCHANGED <<templates, delivery, time, afterId, received, saidEnabled, shownRevoked, late,
                       crowded>>
    PROVE  AnnouncementsIInv'
<1>1. /\ notices \in Seq(NoticeRow) /\ Len(notices) \in Nat /\ DOMAIN notices = 1 .. Len(notices)
      /\ NoticesInv
    BY NoticeIds DEF AnnouncementsIInv, AnnouncementsShape
<1>2. /\ notices' \in Seq(NoticeRow) /\ Len(notices') = Len(notices) /\ DOMAIN notices' = DOMAIN notices
      /\ \A m \in DOMAIN notices : notices'[m] = IF m = n THEN y ELSE notices[m]
    BY <1>1
<1>3. NoticesInv'
  <2>1. ASSUME NEW m \in DOMAIN notices'
        PROVE  /\ notices'[m].ends > notices'[m].starts
               /\ notices'[m].kind = "RARE_REWARD" =>
                    Announces(notices'[m], notices'[m].by) /\ delivery[notices'[m].by] # "open"
    <3>1. CASE m = n
        BY <1>1, <1>2, <3>1 DEF NoticesInv, Announces
    <3>2. CASE m # n
        BY <1>1, <1>2, <3>2 DEF NoticesInv
    <3>. QED
        BY <3>1, <3>2
  <2>. QED
      BY <2>1 DEF NoticesInv, Announces
<1>4. \A m \in 1 .. Len(notices) : notices'[m].status = "REVOKED" \/ notices'[m].status = notices[m].status
    BY <1>1, <1>2
<1>5. withdrawn' = withdrawn \/ \E m \in 1 .. Len(notices) :
                                  withdrawn' = withdrawn \cup {m} /\ notices'[m].status = "REVOKED"
    BY <1>1, <1>2
<1>6. delivery' \in [DOMAIN Deliveries -> {"open", "inserted", "committed"}]
    BY DEF AnnouncementsIInv, AnnouncementsShape
<1>7. Len(notices) <= Len(notices')
    BY <1>1, <1>2
<1>. QED
    BY <1>2, <1>3, <1>4, <1>5, <1>6, <1>7, NoticesStep

LEMMA OpsNoticeSteps ==
    ASSUME AnnouncementsIInv, NEW t \in Titles,
           CreateOpsAnnouncement(t) \/ \E n \in DOMAIN notices : UpdateOpsAnnouncement(n, t)
    PROVE  AnnouncementsIInv'
<1>1. /\ notices \in Seq(NoticeRow) /\ Len(notices) \in Nat /\ DOMAIN notices = 1 .. Len(notices)
      /\ NoticesInv
    BY NoticeIds DEF AnnouncementsIInv, AnnouncementsShape
<1>2. t.starts \in Int /\ t.ends \in Int /\ t.priority \in Int
    BY AnnouncementsAssumption
<1>3. CASE CreateOpsAnnouncement(t)
  <2>. DEFINE y == [kind |-> "OPS_NOTICE", status |-> "ACTIVE", starts |-> t.starts,
                    ends |-> t.ends, priority |-> t.priority, dedupe |-> <<>>, by |-> "ops"]
  <2>1. notices' = Append(notices, y) /\ t.ends > t.starts
        /\ UNCHANGED <<templates, delivery, time, afterId, received, saidEnabled, withdrawn,
                       shownRevoked, late, crowded>>
      BY <1>3 DEF CreateOpsAnnouncement
  <2>2. y \in NoticeRow
    <3>1. << >> \in DedupeKeys
        BY DEF DedupeKeys
    <3>. QED
        BY <1>2, <3>1 DEF NoticeRow
  <2>3. y.kind = "OPS_NOTICE" /\ y.ends > y.starts
      BY <2>1
  <2>. HIDE DEF y
  <2>4. /\ notices' \in Seq(NoticeRow) /\ Len(notices') = Len(notices) + 1
        /\ DOMAIN notices' = 1 .. Len(notices) + 1 /\ notices'[Len(notices) + 1] = y
        /\ \A n \in 1 .. Len(notices) : notices'[n] = notices[n]
      BY <1>1, <2>1, <2>2
  <2>5. NoticesInv'
    <3>1. ASSUME NEW m \in DOMAIN notices'
          PROVE  /\ notices'[m].ends > notices'[m].starts
                 /\ notices'[m].kind = "RARE_REWARD" =>
                      Announces(notices'[m], notices'[m].by) /\ delivery[notices'[m].by] # "open"
      <4>1. CASE m = Len(notices) + 1
          BY <2>3, <2>4, <4>1
      <4>2. CASE m # Len(notices) + 1
        <5>1. m \in DOMAIN notices /\ notices'[m] = notices[m]
            BY <1>1, <2>4, <4>2
        <5>. QED
            BY <1>1, <5>1 DEF NoticesInv
      <4>. QED
          BY <4>1, <4>2
    <3>. QED
        BY <2>1, <3>1 DEF NoticesInv, Announces
  <2>6. delivery' \in [DOMAIN Deliveries -> {"open", "inserted", "committed"}]
      BY <2>1 DEF AnnouncementsIInv, AnnouncementsShape
  <2>7. Len(notices) <= Len(notices')
      BY <1>1, <2>4
  <2>. QED
      BY <2>1, <2>4, <2>5, <2>6, <2>7, NoticesStep
<1>4. ASSUME NEW n \in DOMAIN notices, UpdateOpsAnnouncement(n, t) PROVE AnnouncementsIInv'
  <2>. DEFINE y == [notices[n] EXCEPT !.starts = t.starts, !.ends = t.ends, !.priority = t.priority]
  <2>1. notices[n] \in NoticeRow
      BY NoticeIds DEF AnnouncementsIInv
  <2>2. /\ notices' = [notices EXCEPT ![n].starts = t.starts, ![n].ends = t.ends,
                                      ![n].priority = t.priority]
        /\ t.ends > t.starts
        /\ UNCHANGED <<templates, delivery, time, afterId, received, saidEnabled, withdrawn,
                       shownRevoked, late, crowded>>
      BY <1>4 DEF UpdateOpsAnnouncement
  <2>3. notices' = [notices EXCEPT ![n] = y]
      BY <1>1, <2>1, <2>2 DEF NoticeRow
  <2>4. /\ y \in NoticeRow /\ y.status = notices[n].status /\ y.kind = notices[n].kind
        /\ y.dedupe = notices[n].dedupe /\ y.by = notices[n].by
        /\ y.starts = t.starts /\ y.ends = t.ends
      BY <1>2, <2>1 DEF NoticeRow
  <2>. HIDE DEF y
  <2>. QED
      BY <2>2, <2>3, <2>4, NoticeRewritten
<1>. QED
    BY <1>3, <1>4

LEMMA RevokeStep ==
    ASSUME AnnouncementsIInv, NEW n \in DOMAIN notices, RevokeAnnouncement(n)
    PROVE  AnnouncementsIInv'
<1>. DEFINE y == [notices[n] EXCEPT !.status = "REVOKED"]
<1>1. notices[n] \in NoticeRow /\ notices[n].ends > notices[n].starts
    BY NoticeIds DEF AnnouncementsIInv, NoticesInv
<1>2. /\ notices' = [notices EXCEPT ![n] = y] /\ withdrawn' = withdrawn \cup {n}
      /\ UNCHANGED <<templates, delivery, time, afterId, received, saidEnabled, shownRevoked,
                     late, crowded>>
    BY DEF RevokeAnnouncement
<1>3. /\ y \in NoticeRow /\ y.status = "REVOKED" /\ y.kind = notices[n].kind
      /\ y.dedupe = notices[n].dedupe /\ y.by = notices[n].by
      /\ y.starts = notices[n].starts /\ y.ends = notices[n].ends
    BY <1>1 DEF NoticeRow
<1>. HIDE DEF y
<1>. QED
    BY <1>1, <1>2, <1>3, NoticeRewritten

(* A poll: what it passes and does not give is not showing or revoked, or  *)
(* the page is full.                                                       *)
LEMMA PollStep ==
    ASSUME AnnouncementsIInv, Poll
    PROVE  AnnouncementsIInv'
<1>. DEFINE page == ListActiveAnnouncements(afterId)
            to == IF page = {} THEN afterId ELSE CHOOSE n \in page : \A m \in page : m <= n
            passed == {n \in DOMAIN notices : n > afterId /\ n < to /\ n \notin page}
            found == {n \in DOMAIN notices : n > afterId /\ Visible(n)}
            missed == {n \in passed : ~Showing(n) \/ notices[n].status = "REVOKED"}
<1>1. /\ notices \in Seq(NoticeRow) /\ Len(notices) \in Nat /\ DOMAIN notices = 1 .. Len(notices)
      /\ \A n \in DOMAIN notices : notices[n] \in NoticeRow
      /\ afterId \in 0 .. Len(notices)
    BY NoticeIds DEF AnnouncementsIInv, AnnouncementsShape
<1>2. /\ page # {}
      /\ received' = received \cup page
      /\ shownRevoked' = shownRevoked \cup (page \cap withdrawn)
      /\ afterId' = to
      /\ crowded' = IF Cardinality(page) = PageLimit THEN crowded \cup passed ELSE crowded
      /\ late' = late \cup missed
      /\ UNCHANGED <<templates, notices, delivery, time, saidEnabled, withdrawn>>
    BY DEF Poll
<1>3. page = {n \in found : Cardinality(Ahead(found, n)) < PageLimit}
    BY DEF ListActiveAnnouncements, Ahead
<1>4. to \in page /\ \A m \in page : m <= to
  <2>1. page \subseteq 1 .. Len(notices)
      BY <1>1, <1>3
  <2>. HIDE DEF page
  <2>. DEFINE tops == {k \in Nat : \A m \in page : m <= k}
  <2>2. tops # {}
    <3>1. Len(notices) \in tops
        BY <1>1, <2>1
    <3>. QED
        BY <3>1
  <2>3. PICK k \in tops : \A j \in tops : k <= j
      BY <2>2, LeastNumber
  <2>4. k \in page
    <3>. SUFFICES ASSUME k \notin page PROVE FALSE
        OBVIOUS
    <3>1. PICK m \in page : TRUE
        BY <1>2
    <3>2. k \in Nat /\ k # 0
        BY <2>1, <2>3, <3>1
    <3>3. \A i \in page : i <= k - 1
        BY <2>1, <2>3, <3>2
    <3>4. k - 1 \in tops
        BY <3>2, <3>3
    <3>. QED
        BY <2>3, <3>2, <3>4
  <2>5. \E n \in page : \A m \in page : m <= n
      BY <2>3, <2>4
  <2>. QED
      BY <1>2, <2>5
<1>. HIDE DEF page, to
<1>5. to \in 1 .. Len(notices) /\ to > afterId
    BY <1>1, <1>3, <1>4
<1>6. AnnouncementsShape'
    BY <1>1, <1>2, <1>5 DEF AnnouncementsIInv, AnnouncementsShape
<1>7. RevokedNotShown'
  <2>1. ASSUME NEW n \in page, n \in withdrawn PROVE FALSE
    <3>1. notices[n].status = "ACTIVE"
        BY <1>3 DEF Visible
    <3>2. notices[n].status = "REVOKED"
        BY <2>1 DEF AnnouncementsIInv, WithdrawnInv
    <3>. QED
        BY <3>1, <3>2
  <2>2. shownRevoked = {}
      BY DEF AnnouncementsIInv, RevokedNotShown
  <2>. QED
      BY <1>2, <2>1, <2>2 DEF RevokedNotShown
<1>8. CursorInv'
  <2>1. ASSUME NEW n \in 1 .. to PROVE n \in received' \cup late' \cup crowded'
    <3>1. CASE n <= afterId
      <4>1. n \in received \cup late \cup crowded
          BY <1>1, <3>1 DEF AnnouncementsIInv, CursorInv
      <4>. QED
          BY <1>2, <4>1
    <3>2. CASE n \in page
        BY <1>2, <3>2
    <3>3. CASE n > afterId /\ n \notin page
      <4>1. n \in passed
          BY <1>1, <1>4, <1>5, <3>3
      <4>2. CASE n \in missed
          BY <1>2, <4>2
      <4>3. CASE n \notin missed
        <5>1. Visible(n)
          <6>1. Showing(n) /\ notices[n].status # "REVOKED"
              BY <4>1, <4>3
          <6>2. notices[n].status \in {"ACTIVE", "REVOKED"}
              BY <1>1, <4>1 DEF NoticeRow
          <6>. QED
              BY <6>1, <6>2 DEF Visible
        <5>2. n \in found
            BY <4>1, <5>1
        <5>3. ~(Cardinality(Ahead(found, n)) < PageLimit)
            BY <1>3, <3>3, <5>2
        <5>4. found \in SUBSET Nat /\ IsFiniteSet(found) /\ PageLimit \in Nat
          <6>1. IsFiniteSet(1 .. Len(notices)) /\ found \subseteq 1 .. Len(notices)
              BY <1>1, FS_Interval
          <6>2. IsFiniteSet(found)
              BY <6>1, FS_Subset
          <6>. QED
              BY <1>1, <6>1, <6>2, AnnouncementsAssumption
        <5>5. \A m \in found : notices[m].priority \in Int
            BY <1>1 DEF NoticeRow
        <5>. HIDE DEF found
        <5>6. Cardinality(page) = PageLimit
            BY <1>3, <5>2, <5>3, <5>4, <5>5, FullPage
        <5>. QED
            BY <1>2, <4>1, <5>6
      <4>. QED
          BY <4>2, <4>3
    <3>. QED
        BY <1>1, <1>5, <3>1, <3>2, <3>3
  <2>. QED
      BY <1>2, <2>1 DEF CursorInv
<1>9. NoticesInv' /\ WithdrawnInv' /\ TemplateFlagAsSaid'
    BY <1>2 DEF AnnouncementsIInv, NoticesInv, WithdrawnInv, TemplateFlagAsSaid, Announces
<1>. QED
    BY <1>6, <1>7, <1>8, <1>9 DEF AnnouncementsIInv

LEMMA AnnouncementsNextIInv == AnnouncementsIInv /\ [AnnouncementsNext]_annVars => AnnouncementsIInv'
<1>1. ASSUME AnnouncementsIInv, UNCHANGED annVars PROVE AnnouncementsIInv'
    BY <1>1 DEF annVars, AnnouncementsIInv, AnnouncementsShape, NoticesInv, WithdrawnInv,
                RevokedNotShown, CursorInv, TemplateFlagAsSaid, Announces
<1>2. ASSUME AnnouncementsIInv, TimePasses PROVE AnnouncementsIInv'
  <2>1. time' \in 0 .. MaxTime
      BY <1>2, AnnouncementsAssumption DEF AnnouncementsIInv, AnnouncementsShape, TimePasses
  <2>. QED
      BY <1>2, <2>1 DEF TimePasses, AnnouncementsIInv, AnnouncementsShape, NoticesInv, WithdrawnInv,
                RevokedNotShown, CursorInv, TemplateFlagAsSaid, Announces
<1>3. ASSUME AnnouncementsIInv, AnnouncementsNext PROVE AnnouncementsIInv'
    BY <1>2, <1>3, PollStep, TemplateStep, DeliverRewardsStep, DeliveryCommitsStep, OpsNoticeSteps,
       RevokeStep, Zenon DEF AnnouncementsNext
<1>. QED
    BY <1>1, <1>3

LEMMA AnnouncementsIInvReach == AnnouncementsIInv => AnnouncementsReach
<1>. SUFFICES ASSUME AnnouncementsIInv PROVE AnnouncementsReach
    OBVIOUS
<1>1. /\ Len(notices) \in Nat /\ DOMAIN notices = 1 .. Len(notices)
      /\ \A n \in DOMAIN notices : notices[n] \in NoticeRow
      /\ afterId \in 0 .. Len(notices)
    BY NoticeIds DEF AnnouncementsIInv, AnnouncementsShape
<1>2. AnnouncementsTypeOK
  <2>1. \A n \in DOMAIN notices : notices[n].status \in {"ACTIVE", "REVOKED"}
      BY <1>1 DEF NoticeRow
  <2>. QED
      BY <2>1 DEF AnnouncementsIInv, NoticesInv, Announces, AnnouncementsTypeOK
<1>3. MissedExplained
  <2>1. \A n \in DOMAIN notices : n <= afterId => n \in 1 .. afterId
      BY <1>1
  <2>. QED
      BY <2>1 DEF AnnouncementsIInv, CursorInv, MissedExplained
<1>. QED
    BY <1>2, <1>3 DEF AnnouncementsIInv, AnnouncementsReach

(* Whatever deliveries, administrators and polls interleave: every row has *)
(* a window and a rare drop behind it, nothing revoked is given to a       *)
(* client, what its cursor passed without giving it was not visible then   *)
(* or did not fit the page, and a template's flag is what was last said.   *)
THEOREM AnnouncementsAlwaysReach == AnnouncementsSpec => []AnnouncementsReach
BY AnnouncementsInitIInv, AnnouncementsNextIInv, AnnouncementsIInvReach, PTL DEF AnnouncementsSpec

-----------------------------------------------------------------------------
(* IdempotentAction, for any sets of operations, attempts, bodies and      *)
(* stamps.  AppliedOnce is not inductive: that a commit finds no key rests *)
(* on the key having been absent when it was looked up, and on the         *)
(* advisory lock keeping every other attempt of the operation out since.   *)
Inside == {"locked", "running", "ran"}

(* The advisory lock is held by exactly the attempts inside the section. *)
LockInv ==
    /\ \A t \in Attempts : pc[t] \in Inside => holder[req[t].op] = t
    /\ \A op \in OpIds : holder[op] \in Attempts =>
          pc[holder[op]] \in Inside /\ req[holder[op]].op = op

(* No key appears between the lookup that missed it and the commit. *)
MissInv ==
    \A t \in Attempts : pc[t] \in {"running", "ran"} => keys[req[t].op] = NoKey

(* A stored key is that of the attempt that committed it. *)
KeyInv ==
    \A op \in OpIds : keys[op] # NoKey =>
        /\ keys[op].response \in Attempts
        /\ req[keys[op].response].op = op
        /\ req[keys[op].response].body = keys[op].body

(* An attempt answers when it ends; a success answers with the stored key. *)
ReplyInv ==
    \A t \in Attempts :
        /\ pc[t] # "done" => reply[t] = "none"
        /\ reply[t] \in Attempts => /\ keys[req[t].op] # NoKey
                                    /\ keys[req[t].op].response = reply[t]
                                    /\ keys[req[t].op].body = req[t].body

IInv == TypeOK /\ LockInv /\ MissInv /\ KeyInv /\ ReplyInv /\ AppliedOnce

-----------------------------------------------------------------------------
(* A stored row and the absence of one can be told apart. *)
LEMMA KeyOrNone ==
    ASSUME NEW k \in Key \cup {NoKey}
    PROVE  /\ k = NoKey <=> k.response = NoOne
           /\ k # NoKey => k \in Key /\ k.response \in Attempts
BY AttemptsAssumption DEF Key, NoKey

LEMMA InitIInv == Init => IInv
<1> SUFFICES ASSUME Init PROVE IInv
    OBVIOUS
<1>1. TypeOK
    BY DEF Init, TypeOK, Reply, Pcs
<1>2. LockInv
    BY AttemptsAssumption DEF Init, LockInv, Inside
<1>3. MissInv /\ KeyInv
    BY DEF Init, MissInv, KeyInv
<1>4. ReplyInv
    BY AttemptsAssumption DEF Init, ReplyInv
<1>5. AppliedOnce
    BY DEF Init, AppliedOnce
<1> QED
    BY <1>1, <1>2, <1>3, <1>4, <1>5 DEF IInv

(* The end of a transaction, whatever its answer, keeps what does not      *)
(* depend on the keys.                                                     *)
LEMMA EndStep ==
    ASSUME TypeOK, LockInv, NEW t \in Attempts, pc[t] \in Inside,
           NEW answer \in Reply, End(t, answer)
    PROVE  /\ pc' \in [Attempts -> Pcs]
           /\ holder' \in [OpIds -> Attempts \cup {NoOne}]
           /\ reply' \in [Attempts -> Reply]
           /\ req' = req
           /\ LockInv'
           /\ pc'[t] = "done" /\ reply'[t] = answer
           /\ \A u \in Attempts \ {t} : pc'[u] = pc[u] /\ reply'[u] = reply[u]
<1>1. /\ pc' \in [Attempts -> Pcs]
      /\ holder' \in [OpIds -> Attempts \cup {NoOne}]
      /\ reply' \in [Attempts -> Reply]
      /\ req' = req
      /\ pc'[t] = "done" /\ reply'[t] = answer
      /\ \A u \in Attempts \ {t} : pc'[u] = pc[u] /\ reply'[u] = reply[u]
    BY DEF TypeOK, End, Pcs, Request
<1>2. LockInv'
    BY <1>1, AttemptsAssumption DEF TypeOK, End, LockInv, Inside, Request
<1> QED
    BY <1>1, <1>2

LEMMA NextIInv == IInv /\ [Next]_vars => IInv'
<1> SUFFICES ASSUME IInv, [Next]_vars PROVE IInv'
    OBVIOUS
<1> USE DEF IInv
<1>1. ASSUME NEW t \in Attempts, NEW stamp \in Stamps, Begin(t, stamp) PROVE IInv'
    <2>1. /\ \A u \in Attempts : req'[u].op = req[u].op /\ req'[u].body = req[u].body
          /\ req' \in [Attempts -> Request]
          /\ pc' \in [Attempts -> Pcs]
        BY <1>1 DEF TypeOK, Begin, Request, Pcs
    <2>2. TypeOK'
        BY <1>1, <2>1 DEF TypeOK, Begin
    <2>3. LockInv'
        BY <1>1, <2>1 DEF TypeOK, LockInv, Begin, Inside
    <2>4. MissInv' /\ KeyInv' /\ ReplyInv' /\ AppliedOnce'
        BY <1>1, <2>1 DEF TypeOK, MissInv, KeyInv, ReplyInv, AppliedOnce, Begin
    <2> QED
        BY <2>2, <2>3, <2>4
<1>2. ASSUME NEW t \in Attempts, Lock(t) PROVE IInv'
    <2>1. TypeOK'
        BY <1>2 DEF TypeOK, Lock, Request, Pcs
    <2>2. LockInv'
        BY <1>2, AttemptsAssumption DEF TypeOK, LockInv, Lock, Inside, Request
    <2>3. MissInv' /\ KeyInv' /\ ReplyInv' /\ AppliedOnce'
        BY <1>2 DEF TypeOK, MissInv, KeyInv, ReplyInv, AppliedOnce, Lock
    <2> QED
        BY <2>1, <2>2, <2>3
<1>3. ASSUME NEW t \in Attempts, LookupMiss(t) PROVE IInv'
    <2>1. TypeOK'
        BY <1>3 DEF TypeOK, LookupMiss, Pcs
    <2>2. LockInv'
        BY <1>3 DEF TypeOK, LockInv, LookupMiss, Inside
    <2>3. MissInv' /\ KeyInv' /\ ReplyInv' /\ AppliedOnce'
        BY <1>3 DEF TypeOK, MissInv, KeyInv, ReplyInv, AppliedOnce, LookupMiss
    <2> QED
        BY <2>1, <2>2, <2>3
<1>4. ASSUME NEW t \in Attempts, LookupReplay(t) PROVE IInv'
    <2> DEFINE k == keys[req[t].op]
    <2>1. /\ k \in Key /\ k # NoKey /\ k.response \in Attempts
          /\ k.body = req[t].body /\ pc[t] \in Inside
        BY <1>4, KeyOrNone DEF TypeOK, LookupReplay, SameRequest, Request, Inside
    <2>2. End(t, k.response) /\ k.response \in Reply
        BY <1>4, <2>1 DEF LookupReplay, Reply
    <2>3. TypeOK' /\ LockInv'
        BY <1>4, <2>1, <2>2, EndStep DEF TypeOK, LookupReplay
    <2>4. MissInv' /\ KeyInv' /\ ReplyInv' /\ AppliedOnce'
        BY <1>4, <2>1, <2>2, EndStep DEF TypeOK, MissInv, KeyInv, ReplyInv, AppliedOnce, LookupReplay
    <2> QED
        BY <2>3, <2>4
<1>5. ASSUME NEW t \in Attempts, NEW answer \in {"refused", "failed"}, pc[t] \in Inside,
             End(t, answer), UNCHANGED <<keys, applied>>
      PROVE  IInv'
    <2>1. answer \in Reply /\ answer \notin Attempts
        BY AttemptsAssumption DEF Reply
    <2>2. TypeOK' /\ LockInv'
        BY <1>5, <2>1, EndStep DEF TypeOK
    <2>3. MissInv' /\ KeyInv' /\ ReplyInv' /\ AppliedOnce'
        BY <1>5, <2>1, EndStep DEF TypeOK, MissInv, KeyInv, ReplyInv, AppliedOnce
    <2> QED
        BY <2>2, <2>3
<1>6. ASSUME NEW t \in Attempts, Run(t) PROVE IInv'
    <2>1. TypeOK'
        BY <1>6 DEF TypeOK, Run, Pcs
    <2>2. LockInv'
        BY <1>6 DEF TypeOK, LockInv, Run, Inside
    <2>3. MissInv' /\ KeyInv' /\ ReplyInv' /\ AppliedOnce'
        BY <1>6 DEF TypeOK, MissInv, KeyInv, ReplyInv, AppliedOnce, Run
    <2> QED
        BY <2>1, <2>2, <2>3
<1>7. ASSUME NEW t \in Attempts, Commit(t) PROVE IInv'
    <2> DEFINE op == req[t].op
               k == [body |-> req[t].body, stamp |-> req[t].stamp, response |-> t]
    <2>1. PICK answer \in {t, "failed"} : End(t, answer)
        BY <1>7 DEF Commit
    <2>2. /\ pc[t] \in Inside /\ pc[t] = "ran" /\ op \in OpIds /\ keys[op] = NoKey
          /\ keys' = [keys EXCEPT ![op] = k]
          /\ applied' = [applied EXCEPT ![op] = @ \cup {t}]
          /\ k \in Key /\ k # NoKey
        BY <1>7, KeyOrNone, AttemptsAssumption DEF TypeOK, Commit, Request, Key, Inside
    <2>3. answer \in Reply /\ (answer \in Attempts => answer = t)
        BY AttemptsAssumption DEF Reply
    <2>4. TypeOK' /\ LockInv'
        BY <2>1, <2>2, <2>3, EndStep DEF TypeOK
    <2>5. MissInv'
        <3> SUFFICES ASSUME NEW u \in Attempts, pc'[u] \in {"running", "ran"}
                     PROVE  keys'[req'[u].op] = NoKey
            BY DEF MissInv
        <3>1. u # t /\ pc[u] \in {"running", "ran"} /\ req'[u] = req[u]
            BY <2>1, <2>2, <2>3, EndStep
        <3>2. req[u].op # op
            BY <2>2, <3>1 DEF LockInv, Inside
        <3> QED
            BY <2>2, <3>1, <3>2 DEF TypeOK, MissInv, Request
    <2>6. KeyInv'
        BY <2>1, <2>2, <2>3, EndStep DEF TypeOK, KeyInv, Request
    <2>7. ReplyInv'
        BY <2>1, <2>2, <2>3, EndStep DEF TypeOK, ReplyInv, Request
    <2>8. AppliedOnce'
        BY <2>1, <2>2, <2>3, EndStep DEF TypeOK, AppliedOnce, Request
    <2> QED
        BY <2>4, <2>5, <2>6, <2>7, <2>8
<1>8. CASE UNCHANGED vars
    BY <1>8 DEF vars, TypeOK, LockInv, MissInv, KeyInv, ReplyInv, AppliedOnce
<1> QED
    BY <1>1, <1>2, <1>3, <1>4, <1>5, <1>6, <1>7, <1>8
    DEF Next, Step, LookupRefuse, Fail, Inside

LEMMA SpecIInv == Spec => []IInv
BY InitIInv, NextIInv, PTL DEF Spec

-----------------------------------------------------------------------------
(* Type correctness of runIdempotentAction's transactions. *)
THEOREM TypeCorrect == Spec => []TypeOK
<1>1. IInv => TypeOK
    BY DEF IInv
<1> QED
    BY <1>1, SpecIInv, PTL

(* The mutation of an opId is committed at most once and exactly with its  *)
(* key, for any number of operations, retries and crashes.                 *)
THEOREM EffectAppliedOnce == Spec => []AppliedOnce
<1>1. IInv => AppliedOnce
    BY DEF IInv
<1> QED
    BY <1>1, SpecIInv, PTL

(* Every successful answer is that of the committed mutation of the same   *)
(* operation, asked for with the same body.                                *)
THEOREM AnswersAgree == Spec => []RepliesAgree
<1>1. IInv => RepliesAgree
    BY DEF IInv, TypeOK, RepliesAgree, ReplyInv, KeyInv, AppliedOnce, Request
<1> QED
    BY <1>1, SpecIInv, PTL

-----------------------------------------------------------------------------
(* A step of runIdempotentAction is a step, or no step, of ExactlyOnce. *)
LEMMA StepRefines ==
    ASSUME IInv, [Next]_vars
    PROVE  [Once!ONext]_(Once!onceVars)
<1> DEFINE done == [op \in OpIds |-> keys[op].response]
           told == [t \in Attempts |-> IF reply[t] \in Attempts THEN reply[t] ELSE NoOne]
<1> USE DEF IInv
<1>1. ASSUME NEW t \in Attempts, LookupReplay(t) PROVE Once!Replay(req[t].op, t)
    <2>1. /\ req[t].op \in OpIds /\ pc[t] = "locked" /\ reply[t] = "none"
          /\ keys[req[t].op].response \in Attempts
        BY <1>1, KeyOrNone DEF TypeOK, LookupReplay, Request, ReplyInv
    <2>2. reply' = [reply EXCEPT ![t] = keys[req[t].op].response] /\ keys' = keys
        BY <1>1 DEF LookupReplay, End
    <2>3. done' = done
        BY <2>2
    <2>4. done[req[t].op] \in Attempts /\ told[t] = NoOne
        BY <2>1, AttemptsAssumption
    <2>5. told' = [told EXCEPT ![t] = done[req[t].op]]
        BY <2>1, <2>2 DEF TypeOK
    <2> QED
        BY <2>3, <2>4, <2>5, AttemptsAssumption DEF Once!Replay
<1>2. ASSUME NEW t \in Attempts, Commit(t) PROVE Once!Perform(req[t].op, t)
    <2> DEFINE op == req[t].op
    <2>1. /\ op \in OpIds /\ keys[op] = NoKey /\ reply[t] = "none"
        BY <1>2 DEF TypeOK, Commit, Request, ReplyInv
    <2>2. done[op] = NoOne
        BY <2>1 DEF NoKey
    <2>3. done' = [done EXCEPT ![op] = t]
        BY <1>2, <2>1 DEF TypeOK, Commit
    <2>4. \/ reply' = [reply EXCEPT ![t] = t]
          \/ reply' = [reply EXCEPT ![t] = "failed"]
        BY <1>2 DEF Commit, End
    <2>5. told' = [told EXCEPT ![t] = t] \/ told' = told
        BY <2>1, <2>4, AttemptsAssumption DEF TypeOK
    <2> QED
        BY <2>2, <2>3, <2>5 DEF Once!Perform
<1>3. ASSUME NEW t \in Attempts, LookupRefuse(t) \/ Fail(t) PROVE UNCHANGED Once!onceVars
    <2>1. /\ reply[t] = "none" /\ keys' = keys
          /\ \/ reply' = [reply EXCEPT ![t] = "refused"]
             \/ reply' = [reply EXCEPT ![t] = "failed"]
        BY <1>3 DEF LookupRefuse, Fail, End, ReplyInv
    <2>2. told' = told /\ done' = done
        BY <2>1, AttemptsAssumption DEF TypeOK
    <2> QED
        BY <2>2 DEF Once!onceVars
<1>4. ASSUME UNCHANGED <<keys, reply>> PROVE UNCHANGED Once!onceVars
    BY <1>4 DEF Once!onceVars
<1>5. ASSUME NEW t \in Attempts, Step(t) PROVE [Once!ONext]_(Once!onceVars)
    <2>1. req[t].op \in OpIds
        BY DEF TypeOK, Request
    <2> QED
        BY <1>1, <1>2, <1>3, <1>4, <1>5, <2>1
        DEF Step, Begin, Lock, LookupMiss, Run, Once!ONext
<1> QED
    BY <1>4, <1>5 DEF Next, vars

(* runIdempotentAction implements the promise of an opId: at most one      *)
(* effect per operation, and every successful answer is its answer.        *)
THEOREM Refinement == Spec => ImplementsExactlyOnce
<1>1. Init => Once!OInit
    BY AttemptsAssumption DEF Init, Once!OInit, NoKey
<1>2. IInv /\ [Next]_vars => [Once!ONext]_(Once!onceVars)
    BY StepRefines
<1> QED
    BY <1>1, <1>2, SpecIInv, PTL DEF Spec, ImplementsExactlyOnce, Once!OSpec
====
