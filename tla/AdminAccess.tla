----------------------------- MODULE AdminAccess -----------------------------
(***************************************************************************)
(* Who may call the back office and the internal endpoints: administrators *)
(* with a signed login (admin/http.go, store/admin_users.go), services     *)
(* that sign every request (store/service_identities.go), and the          *)
(* middleware that admits both (httpx/middleware.go).  Each store call is  *)
(* one step; an account or an identity may be disabled between any two.    *)
(***************************************************************************)
EXTENDS Integers, FiniteSets

CONSTANTS Admins, LoginNonces,
          Browsers,          \* administrators' requests in flight
          Services,          \* service ids
          Messages,          \* signed requests: service, nonce, signed second, capability
          Workers,           \* service requests in flight
          MaxSkew, MaxTick

ASSUME AccessAssumption ==
  /\ IsFiniteSet(Browsers) /\ IsFiniteSet(Workers) /\ Admins \cap Services = {}
  /\ \A m \in DOMAIN Messages : Messages[m].service \in Services /\ Messages[m].signed \in Int
  /\ MaxSkew \in Nat /\ MaxTick \in Nat

VARIABLES adminUsers,        \* admin_users: status
          loginNonces,       \* admin_login_nonces
          browser,           \* administrators' requests
          adminTokens,       \* tokens issued: administrator and nonce
          identities,        \* service_identities: kind, capabilities, status
          tick,              \* the server's clock
          serviceNonces,     \* service_request_nonces: (service, nonce) -> expiry
          worker,            \* service requests
          served, firstServed,
          pendingAtDisable, servedAfterDisable

accessVars == <<adminUsers, loginNonces, browser, adminTokens, identities, tick,
                serviceNonces, worker, served, firstServed, pendingAtDisable, servedAfterDisable>>
adminVars == <<adminUsers, loginNonces, browser, adminTokens>>
serviceVars == <<identities, tick, serviceNonces, worker, served, firstServed>>
disableVars == <<pendingAtDisable, servedAfterDisable>>

CapabilitiesByKind ==
  [GAME_SERVER |-> {"account.gameplay", "economy.gameplay"}, WORKER |-> {"economy.worker"},
   OPS |-> {"account.ops", "economy.boss_ops", "economy.rewards"}]
NoBrowser == [step |-> "idle", admin |-> "none", nonce |-> "none"]
NoWorker == [step |-> "idle", message |-> "none", expires |-> 0]
NoIdentity == [kind |-> "none", capabilities |-> {}, status |-> "none"]
NoNonce == [admin |-> "none", status |-> "none", live |-> FALSE]
NonceKeys == {<<Messages[m].service, Messages[m].nonce>> : m \in DOMAIN Messages}

AccessInit ==
  /\ adminUsers = [a \in Admins |-> "none"]
  /\ loginNonces = [n \in LoginNonces |-> NoNonce]
  /\ browser = [b \in Browsers |-> NoBrowser] /\ adminTokens = {}
  /\ identities = [s \in Services |-> NoIdentity]
  /\ tick = 0 /\ serviceNonces = [k \in NonceKeys |-> 0]
  /\ worker = [w \in Workers |-> NoWorker]
  /\ served = [m \in DOMAIN Messages |-> 0] /\ firstServed = [m \in DOMAIN Messages |-> -1]
  /\ pendingAtDisable = [x \in Admins \cup Services |-> 0]
  /\ servedAfterDisable = [x \in Admins \cup Services |-> 0]

-----------------------------------------------------------------------------
CreateAdminUser(a) ==
  /\ adminUsers[a] = "none"
  /\ adminUsers' = [adminUsers EXCEPT ![a] = "ACTIVE"]
  /\ UNCHANGED <<loginNonces, browser, adminTokens, serviceVars, disableVars>>

\* DisableAdminUser: there is no way back.
DisableAdminUser(a) ==
  /\ adminUsers[a] = "ACTIVE"
  /\ adminUsers' = [adminUsers EXCEPT ![a] = "DISABLED"]
  /\ pendingAtDisable' = [pendingAtDisable EXCEPT ![a] =
       Cardinality({b \in Browsers : browser[b].step = "admitted" /\ browser[b].admin = a})]
  /\ UNCHANGED <<loginNonces, browser, adminTokens, serviceVars, servedAfterDisable>>

Browse(b, step, a, n) == browser' = [browser EXCEPT ![b] = [step |-> step, admin |-> a, nonce |-> n]]

\* adminLoginNonce: the user is read, then a nonce saved.
AskAdminNonce(b, a) ==
  /\ browser[b] = NoBrowser /\ adminUsers[a] = "ACTIVE"
  /\ Browse(b, "asked", a, "none")
  /\ UNCHANGED <<adminUsers, loginNonces, adminTokens, serviceVars, disableVars>>

SaveAdminLoginNonce(b, n) ==
  /\ browser[b].step = "asked" /\ loginNonces[n] = NoNonce
  /\ loginNonces' = [loginNonces EXCEPT ![n] =
                       [admin |-> browser[b].admin, status |-> "PENDING", live |-> TRUE]]
  /\ Browse(b, "idle", "none", "none")
  /\ UNCHANGED <<adminUsers, adminTokens, serviceVars, disableVars>>

LoginNonceExpires(n) ==
  /\ loginNonces[n].live
  /\ loginNonces' = [loginNonces EXCEPT ![n].live = FALSE]
  /\ UNCHANGED <<adminUsers, browser, adminTokens, serviceVars, disableVars>>

\* adminLogin reads the user ...
AdminLogin(b, a, n) ==
  /\ browser[b] = NoBrowser /\ adminUsers[a] = "ACTIVE"
  /\ Browse(b, "login", a, n)
  /\ UNCHANGED <<adminUsers, loginNonces, adminTokens, serviceVars, disableVars>>

\* ... then the nonce, which an expired one leaves marked EXPIRED ...
AdminLoginNonce(b) ==
  LET n == browser[b].nonce
      pending == loginNonces[n].admin = browser[b].admin /\ loginNonces[n].status = "PENDING"
  IN  /\ browser[b].step = "login"
      /\ IF pending /\ loginNonces[n].live THEN Browse(b, "signed", browser[b].admin, n)
         ELSE Browse(b, "idle", "none", "none")
      /\ loginNonces' = IF pending /\ ~loginNonces[n].live
                        THEN [loginNonces EXCEPT ![n].status = "EXPIRED"] ELSE loginNonces
      /\ UNCHANGED <<adminUsers, adminTokens, serviceVars, disableVars>>

\* ... and consumes it under its row lock, judged by the time of the login,
\* before a token is signed.  The EXPIRED it would write is rolled back.
ConsumeAdminLoginNonce(b) ==
  LET n == browser[b].nonce
  IN  /\ browser[b].step = "signed"
      /\ IF loginNonces[n].status = "PENDING"
         THEN /\ loginNonces' = [loginNonces EXCEPT ![n].status = "CONSUMED"]
              /\ adminTokens' = adminTokens \cup {[admin |-> browser[b].admin, nonce |-> n, by |-> b]}
         ELSE UNCHANGED <<loginNonces, adminTokens>>
      /\ Browse(b, "idle", "none", "none")
      /\ UNCHANGED <<adminUsers, serviceVars, disableVars>>

AdminTokenExpires(t) ==
  /\ t \in adminTokens /\ adminTokens' = adminTokens \ {t}
  /\ UNCHANGED <<adminUsers, loginNonces, browser, serviceVars, disableVars>>

\* RequireAdmin: a good token is not enough, the user is read again.
RequireAdmin(b, t) ==
  /\ browser[b] = NoBrowser /\ adminUsers[t.admin] = "ACTIVE"
  /\ Browse(b, "admitted", t.admin, "none")
  /\ UNCHANGED <<adminUsers, loginNonces, adminTokens, serviceVars, disableVars>>

AfterDisable(x, status) ==
  servedAfterDisable' = IF status # "DISABLED" THEN servedAfterDisable
                        ELSE [servedAfterDisable EXCEPT ![x] = @ + 1]

AdminHandlerRuns(b) ==
  /\ browser[b].step = "admitted"
  /\ Browse(b, "idle", "none", "none")
  /\ AfterDisable(browser[b].admin, adminUsers[browser[b].admin])
  /\ UNCHANGED <<adminUsers, loginNonces, adminTokens, serviceVars, pendingAtDisable>>

-----------------------------------------------------------------------------
\* normalizeServiceIdentityInput: some capability, and only the kind's own.
NormalizeServiceIdentityInput(kind, capabilities) ==
  capabilities # {} /\ capabilities \subseteq CapabilitiesByKind[kind]

CreateServiceIdentity(s, kind, capabilities) ==
  /\ identities[s] = NoIdentity
  /\ NormalizeServiceIdentityInput(kind, capabilities)
  /\ identities' = [identities EXCEPT ![s] =
                      [kind |-> kind, capabilities |-> capabilities, status |-> "ACTIVE"]]
  /\ UNCHANGED <<adminVars, tick, serviceNonces, worker, served, firstServed, disableVars>>

DisableServiceIdentity(s) ==
  /\ identities[s].status = "ACTIVE"
  /\ identities' = [identities EXCEPT ![s].status = "DISABLED"]
  /\ pendingAtDisable' = [pendingAtDisable EXCEPT ![s] =
       Cardinality({w \in Workers : worker[w].step = "verified"
                                    /\ Messages[worker[w].message].service = s})]
  /\ UNCHANGED <<adminVars, tick, serviceNonces, worker, served, firstServed, servedAfterDisable>>

FaultNonceExpiry(m) == Messages[m].signed + MaxSkew

\* VerifyServiceRequest: the nonce is kept for the skew from now.
NonceExpiry(m) == tick + MaxSkew

HasCapability(s, capability) == capability \in identities[s].capabilities

\* RequireService up to the nonce: an ACTIVE identity, a timestamp within the
\* skew of the clock on either side, the capability of the endpoint.
VerifyServiceRequest(w, m) ==
  LET message == Messages[m]
  IN  /\ worker[w] = NoWorker
      /\ identities[message.service].status = "ACTIVE"
      /\ message.signed >= tick - MaxSkew /\ message.signed <= tick + MaxSkew
      /\ HasCapability(message.service, message.capability)
      /\ worker' = [worker EXCEPT ![w] = [step |-> "verified", message |-> m, expires |-> NonceExpiry(m)]]
      /\ UNCHANGED <<adminVars, identities, tick, serviceNonces, served, firstServed, disableVars>>

\* ConsumeServiceNonce deletes what has expired and inserts; the primary key
\* refuses a nonce that is still there.  The endpoint runs after it.
ConsumeServiceNonce(w) ==
  LET m == worker[w].message
      key == <<Messages[m].service, Messages[m].nonce>>
      fresh == serviceNonces[key] <= tick
  IN  /\ worker[w].step = "verified"
      /\ worker' = [worker EXCEPT ![w] = NoWorker]
      /\ IF fresh
         THEN /\ serviceNonces' = [serviceNonces EXCEPT ![key] = worker[w].expires]
              /\ served' = [served EXCEPT ![m] = @ + 1]
              /\ firstServed' = IF served[m] = 0 THEN [firstServed EXCEPT ![m] = tick] ELSE firstServed
              /\ AfterDisable(Messages[m].service, identities[Messages[m].service].status)
         ELSE UNCHANGED <<serviceNonces, served, firstServed, servedAfterDisable>>
      /\ UNCHANGED <<adminVars, identities, tick, pendingAtDisable>>

\* The unit of the clock is long against the time between the two steps.
AccessTick ==
  /\ tick < MaxTick /\ \A w \in Workers : worker[w] = NoWorker
  /\ tick' = tick + 1
  /\ UNCHANGED <<adminVars, identities, serviceNonces, worker, served, firstServed, disableVars>>

AdminsNext ==
  \/ \E a \in Admins : CreateAdminUser(a) \/ DisableAdminUser(a)
  \/ \E b \in Browsers :
       \/ AdminLoginNonce(b) \/ ConsumeAdminLoginNonce(b) \/ AdminHandlerRuns(b)
       \/ \E a \in Admins : AskAdminNonce(b, a) \/ \E n \in LoginNonces : AdminLogin(b, a, n)
       \/ \E n \in LoginNonces : SaveAdminLoginNonce(b, n)
       \/ \E t \in adminTokens : RequireAdmin(b, t)
  \/ \E n \in LoginNonces : LoginNonceExpires(n)
  \/ \E t \in adminTokens : AdminTokenExpires(t)

ServicesNext ==
  \/ AccessTick
  \/ \E s \in Services : DisableServiceIdentity(s)
                         \/ \E kind \in {"GAME_SERVER", "OPS"},
                               c \in {{}, {"economy.gameplay"}, {"economy.gameplay", "economy.rewards"}} :
                              CreateServiceIdentity(s, kind, c)
  \/ \E w \in Workers : ConsumeServiceNonce(w) \/ \E m \in DOMAIN Messages : VerifyServiceRequest(w, m)

AccessSpec == AccessInit /\ [][AdminsNext \/ ServicesNext]_accessVars

-----------------------------------------------------------------------------
\* An identity never holds a capability of another kind, so a game server's
\* key cannot be used for an operator's endpoint (normalizeServiceIdentityInput).
AccessTypeOK ==
  /\ \A s \in Services : identities[s] # NoIdentity =>
       identities[s].capabilities \subseteq CapabilitiesByKind[identities[s].kind]
  /\ \A m \in DOMAIN Messages : served[m] > 0 => identities[Messages[m].service] # NoIdentity

\* One login nonce yields one token, even to two logins that both found it
\* PENDING (ConsumeAdminLoginNonce).
NonceLogsInOnce == \A s, t \in adminTokens : s.nonce = t.nonce => s = t

\* A service request that the network delivers again is served once, provided
\* its timestamp is not ahead of the server's clock: its nonce is then kept for
\* as long as the timestamp stays inside the skew.
ServedOnce == \A m \in DOMAIN Messages : Messages[m].signed < firstServed[m] => served[m] <= 1

\* After an administrator or a service is disabled only the requests that were
\* already past the middleware still run, whatever tokens exist.
DisabledStops == \A x \in Admins \cup Services : servedAfterDisable[x] <= pendingAtDisable[x]

\* A credential serves once, within its capabilities, and not when disabled.
AccessGuarded == AccessTypeOK /\ NonceLogsInOnce /\ ServedOnce /\ DisabledStops
=============================================================================
