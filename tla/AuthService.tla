----------------------------- MODULE AuthService -----------------------------
(***************************************************************************)
(* The auth service as its clients meet it: AuthService, PasskeyService    *)
(* and the OIDC provider, each of them a handler that awaits one operation *)
(* of the repository, the rate limiter, the ceremony store or the          *)
(* provider's storage after another, while other handlers run.             *)
(*                                                                         *)
(* An operation on a store is one step: of the repository because the      *)
(* functions of PostgreSQL implement AuthRepository (module AuthStore), of *)
(* Redis because it runs one script at a time.  Any await may fail, with   *)
(* or without its effect, and the process may stop and start again.        *)
(*                                                                         *)
(* A call t is one request to the service; what it makes anew it names     *)
(* New[t].  Checks of the form of an input, audit events and the waiting   *)
(* that makes answers take equally long are left out.                      *)
(* Definitions named X_<change> are mutants: X with one plausible mistake. *)
(***************************************************************************)
EXTENDS AuthRepository

CONSTANTS
  Calls, Clients, None,
  New,       \* the id of what a call makes: challenge, session, passkey, ceremony, ...
  Rules,     \* of each dimension, how many requests the limiter lets through in a window
  CeremonyLifetime, AuthorizationLifetime, BindingLifetime,
  BootstrapEmail, \* the first administrator in the configuration
  MaxDelay,  \* bound: how late a call reaches the limiter after it read its clock
  MaxTime    \* bound: of the clock

\* What a limiter counts requests by.
Dimensions ==
  {"challenge-email", "challenge-fingerprint", "challenge-network", "verify-challenge",
   "verify-network", "passkey-begin-fingerprint", "passkey-begin-network",
   "passkey-finish-fingerprint", "passkey-finish-network", "registration-begin-session",
   "registration-finish-session"}

ASSUME ServiceAssumption ==
  /\ New \in [Calls -> Challenges \cap Sessions \cap Passkeys \cap Tokens]
  /\ \A t, u \in Calls : New[t] = New[u] => t = u
  /\ None \notin Sessions \cup Challenges \cup Accounts \cup Tokens
  /\ BootstrapEmail \in Emails
  /\ \A d \in Dimensions : Rules[d].limit \in Nat \ {0} /\ Rules[d].window \in Nat \ {0}
  /\ {CeremonyLifetime, AuthorizationLifetime, BindingLifetime} \subseteq Nat \ {0}
  /\ {MaxDelay, MaxTime} \subseteq Nat

VARIABLES
  up,          \* whether the service is running
  clock,
  windows,     \* Redis: the requests a limiter still counts
  passed,      \* history: every request that a limiter let through
  ceremonies,  \* Redis: passkey ceremonies that have begun
  artifacts,   \* PostgreSQL: authorization codes and access tokens of the provider
  delivery,    \* of each challenge issued by a call, where its code is
  mailed,      \* codes that have arrived in a mailbox
  request,     \* what each call asks; [op |-> "none"] before
  at,          \* the await a call is at
  memo,        \* what a call remembers from one await to the next
  reply,       \* the answer of a call, or "none"
  faults       \* bound: failures and restarts that may still happen

stores == <<tables, windows, passed, ceremonies, artifacts>>
mail == <<delivery, mailed>>
calls == <<request, at, memo, reply>>
serviceVars == <<stores, mail, calls, clock, faults, up>>

\* HTTP answers: 2xx, 401, 403, 404, 409, 429, 503, and none because the service stopped.
Replies == {"ok", "unauthenticated", "forbidden", "missing", "conflict", "limited",
            "unavailable", "lost"}

Working(t, op, n) == request[t].op = op /\ reply[t] = "none" /\ at[t] = n

-----------------------------------------------------------------------------
(* A handler goes on to its next await, or answers. *)
Tell(t, r, m) ==
  /\ reply' = [reply EXCEPT ![t] = r]
  /\ memo' = [memo EXCEPT ![t] = m]
  /\ UNCHANGED <<request, at>>

Answer(t, r) == Tell(t, r, memo[t])

GoOn(t, m) ==
  /\ at' = [at EXCEPT ![t] = @ + 1]
  /\ memo' = [memo EXCEPT ![t] = m]
  /\ UNCHANGED <<request, reply>>

\* statusByCode and mapAdministrativeError
Status(r) ==
  CASE r = "invalid" -> "unauthenticated"
    [] r = "refused" -> "forbidden"
    [] OTHER -> r

Fault == faults > 0 /\ faults' = faults - 1

\* An operation of the repository and its answer.
Ask(q, r) ==
  \/ Perform(q, r) /\ UNCHANGED faults
  \/ /\ Fault /\ r = "unavailable"
     /\ UNCHANGED tables \/ \E lost \in Answers : Perform(q, lost)

Asks(t, q, r) ==
  Ask(q, r) /\ UNCHANGED <<windows, passed, ceremonies, artifacts, clock>>

\* A handler whose last await is q.
AnswersWith(t, q) ==
  /\ \E r \in Answers : Asks(t, q, r) /\ Answer(t, Status(r))
  /\ UNCHANGED mail

-----------------------------------------------------------------------------
(* The rate limiter: RedisRateLimiter.consume *)

\* What the script has not removed before it counts.
Counted(x, now) == x.now + Rules[x.key[1]].window > now

Full_Raw(n, d) == n > Rules[d].limit
Full(n, d) == n >= Rules[d].limit

ConsumeWindow(t, key, allowed) ==
  LET now == memo[t].now
      kept == {x \in windows : x.key = key => Counted(x, now)}
      entry == [key |-> key, by |-> t, now |-> now, at |-> clock]
  IN  /\ allowed = ~Full(Cardinality({y \in kept : y.key = key}), key[1])
      /\ windows' = IF allowed THEN kept \cup {entry} ELSE kept
      /\ passed' = IF allowed THEN passed \cup {entry} ELSE passed

\* One limit of a handler.  Requests for a code are refused without saying so:
\* the handler goes on and remembers it.
ConsumeRateLimit(t, key, refusal) ==
  /\ \/ /\ ConsumeWindow(t, key, TRUE)
        /\ GoOn(t, memo[t]) /\ UNCHANGED faults
     \/ /\ ConsumeWindow(t, key, FALSE)
        /\ IF refusal = "neutral" THEN GoOn(t, [memo[t] EXCEPT !.allowed = FALSE])
                                  ELSE Answer(t, refusal)
        /\ UNCHANGED faults
     \/ /\ Fault /\ Answer(t, "unavailable")
        /\ UNCHANGED <<windows, passed>> \/ \E allowed \in BOOLEAN : ConsumeWindow(t, key, allowed)
  /\ UNCHANGED <<tables, ceremonies, artifacts, mail, clock>>

\* How many limits a handler asks before anything else.
LimitsOf(op) ==
  CASE op = "request_code" -> 3
    [] op \in {"verify_code", "begin_login", "finish_login"} -> 2
    [] op \in {"begin_passkey", "finish_passkey"} -> 1
    [] OTHER -> 0

-----------------------------------------------------------------------------
(* Sessions *)

SessionQuery(t, op) == [op |-> op, session |-> request[t].session, now |-> memo[t].now]

\* What a session says of its holder, to the back end and to the page.
Principal(s) ==
  LET a == sessions[s].account IN [account |-> a, may |-> Capabilities(a)]

GetSession(t) ==
  /\ Working(t, "get_session", 1)
  /\ \E r \in Answers :
       /\ Asks(t, SessionQuery(t, "authenticate"), r)
       /\ IF r = "ok"
          THEN Tell(t, "ok", [memo[t] EXCEPT !.principal = Principal(request[t].session)])
          ELSE Answer(t, Status(r))
  /\ UNCHANGED mail

Logout_Quiet(t) ==
  /\ Working(t, "log_out", 1)
  /\ \E r \in Answers : Asks(t, SessionQuery(t, "logout"), r) /\ Answer(t, "ok")
  /\ UNCHANGED mail

\* A session that is over already is no error.
Logout(t) ==
  /\ Working(t, "log_out", 1)
  /\ \E r \in Answers :
       /\ Asks(t, SessionQuery(t, "logout"), r)
       /\ Answer(t, IF r = "invalid" THEN "ok" ELSE r)
  /\ UNCHANGED mail

-----------------------------------------------------------------------------
(* Codes by mail *)

Issue(t) ==
  [op |-> "issue", email |-> request[t].email, challenge |-> New[t], now |-> memo[t].now]

\* The answer is the same whether a code was issued or not; the code is sent
\* when the answer may be on its way.
RequestEmailChallenge(t) ==
  LET q == request[t]
      Limit(d, v) == ConsumeRateLimit(t, <<d, v>>, "neutral")
  IN  \/ Working(t, "request_code", 1) /\ Limit("challenge-email", q.email)
      \/ Working(t, "request_code", 2) /\ Limit("challenge-fingerprint", q.client)
      \/ Working(t, "request_code", 3) /\ Limit("challenge-network", None)
      \/ /\ Working(t, "request_code", 4) /\ ~memo[t].allowed
         /\ Answer(t, "ok") /\ UNCHANGED <<stores, mail, clock, faults>>
      \/ /\ Working(t, "request_code", 4) /\ memo[t].allowed
         /\ \E r \in Answers :
              /\ Asks(t, Issue(t), r)
              /\ Answer(t, IF r = "neutral" THEN "ok" ELSE r)
              /\ delivery' = [delivery EXCEPT ![New[t]] = IF r = "ok" THEN "sending" ELSE @]
         /\ UNCHANGED mailed

VerifyEmailChallenge(t) ==
  LET q == request[t]
      Limit(d, v) == ConsumeRateLimit(t, <<d, v>>, "limited")
  IN  \/ Working(t, "verify_code", 1) /\ Limit("verify-challenge", q.challenge)
      \/ Working(t, "verify_code", 2) /\ Limit("verify-network", None)
      \/ /\ Working(t, "verify_code", 3)
         /\ AnswersWith(t, [op |-> "consume", challenge |-> q.challenge, right |-> q.right,
                            fresh |-> New[t], now |-> memo[t].now])

\* The delivery of a code: it arrives, or it is given up, by an error or after
\* the timeout, and then it may still arrive.
Deliver(c) ==
  /\ delivery[c] = "sending"
  /\ delivery' = [delivery EXCEPT ![c] = "sent"]
  /\ mailed' = mailed \cup {c}
  /\ UNCHANGED <<stores, calls, clock, faults>>

GiveUp(c) ==
  /\ delivery[c] = "sending" /\ Fault
  /\ delivery' = [delivery EXCEPT ![c] = "failing"]
  /\ UNCHANGED <<stores, calls, clock, mailed>>

ArriveLate(c) ==
  /\ delivery[c] \in {"failing", "given_up", "lost"} /\ c \notin mailed
  /\ mailed' = mailed \cup {c}
  /\ UNCHANGED <<stores, calls, clock, faults, delivery>>

InvalidateUndelivered_Not(c) ==
  /\ delivery[c] = "failing"
  /\ delivery' = [delivery EXCEPT ![c] = "given_up"]
  /\ UNCHANGED <<stores, calls, clock, faults, mailed>>

\* The code is made useless, unless that fails, too.
InvalidateUndelivered(c) ==
  /\ delivery[c] = "failing"
  /\ \E r \in {"ok", "unavailable"} :
       /\ Ask([op |-> "invalidate", challenge |-> c], r)
       /\ delivery' = [delivery EXCEPT ![c] = IF r = "ok" THEN "given_up" ELSE "lost"]
  /\ UNCHANGED <<windows, passed, ceremonies, artifacts, calls, clock, mailed>>

-----------------------------------------------------------------------------
(* Passkeys.  What goes wrong in a ceremony is answered with 401 only. *)

PasskeyStatus(r) == IF r \in {"ok", "unavailable"} THEN r ELSE "unauthenticated"

\* What a ceremony remembers of who began it.
Ceremony(t, kind, account, session) ==
  [id |-> New[t], kind |-> kind, client |-> request[t].client, account |-> account,
   session |-> session, until |-> clock + CeremonyLifetime]

\* What the authenticator made of the challenge: its key, its origin or the
\* verification of its user may be wrong.
VerifyAuthentication(t) == request[t].genuine
VerifyRegistration(t) == request[t].genuine

\* RedisPasskeyCeremonyStore.put and .take: what is taken is gone.
Put(t, c) ==
  /\ \/ ceremonies' = ceremonies \cup {c} /\ Answer(t, "ok") /\ UNCHANGED faults
     \/ ceremonies' \in {ceremonies, ceremonies \cup {c}} /\ Answer(t, "unavailable") /\ Fault
  /\ UNCHANGED <<tables, windows, passed, artifacts, mail, clock>>

Take_Leaves(c) == ceremonies
Take(c) == {x \in ceremonies : x.id # c}

Found(t) == {c \in ceremonies : c.id = request[t].ceremony /\ clock < c.until}

TakeCeremony(t, accepted, m) ==
  /\ \/ /\ ceremonies' = Take(request[t].ceremony) /\ UNCHANGED faults
        /\ IF accepted THEN GoOn(t, m) ELSE Answer(t, "unauthenticated")
     \/ /\ ceremonies' \in {ceremonies, Take(request[t].ceremony)}
        /\ Fault /\ Answer(t, "unavailable")
  /\ UNCHANGED <<tables, windows, passed, artifacts, mail, clock>>

BeginAuthentication(t) ==
  LET q == request[t]
      Limit(d, v) == ConsumeRateLimit(t, <<d, v>>, "unauthenticated")
  IN  \/ Working(t, "begin_login", 1) /\ Limit("passkey-begin-fingerprint", q.client)
      \/ Working(t, "begin_login", 2) /\ Limit("passkey-begin-network", None)
      \/ /\ Working(t, "begin_login", 3)
         /\ Put(t, Ceremony(t, "authentication", None, None))

\* The count that the authenticator shows is compared with the one read before.
FinishAuthentication(t) ==
  LET q == request[t]
      Limit(d, v) == ConsumeRateLimit(t, <<d, v>>, "unauthenticated")
  IN  \/ Working(t, "finish_login", 1) /\ Limit("passkey-finish-fingerprint", q.client)
      \/ Working(t, "finish_login", 2) /\ Limit("passkey-finish-network", None)
      \/ /\ Working(t, "finish_login", 3)
         /\ TakeCeremony(t, \E c \in Found(t) : c.kind = "authentication" /\ c.client = q.client,
                         [memo[t] EXCEPT !.now = clock])
      \/ /\ Working(t, "finish_login", 4)
         /\ \E r \in Answers :
              /\ Asks(t, [op |-> "read", passkey |-> q.passkey, now |-> memo[t].now], r)
              /\ IF r = "ok" /\ VerifyAuthentication(t)
                 THEN GoOn(t, [memo[t] EXCEPT !.count = passkeys[q.passkey].count])
                 ELSE Answer(t, IF r = "ok" THEN "unauthenticated" ELSE PasskeyStatus(r))
         /\ UNCHANGED mail
      \/ /\ Working(t, "finish_login", 5)
         /\ \E r \in Answers :
              /\ Asks(t, [op |-> "login", passkey |-> q.passkey, expected |-> memo[t].count,
                          observed |-> q.count, fresh |-> New[t], now |-> memo[t].now], r)
              /\ Answer(t, PasskeyStatus(r))
         /\ UNCHANGED mail

\* validateSession, and the account it is of
Validates(t) ==
  /\ \E r \in Answers :
       /\ Asks(t, SessionQuery(t, "validate"), r)
       /\ IF r = "ok" THEN GoOn(t, [memo[t] EXCEPT !.account = sessions[request[t].session].account])
                      ELSE Answer(t, PasskeyStatus(r))
  /\ UNCHANGED mail

BeginRegistration(t) ==
  LET q == request[t]
  IN  \/ /\ Working(t, "begin_passkey", 1)
         /\ ConsumeRateLimit(t, <<"registration-begin-session", q.session>>, "unauthenticated")
      \/ Working(t, "begin_passkey", 2) /\ Validates(t)
      \/ /\ Working(t, "begin_passkey", 3)
         /\ \E r \in Answers :
              /\ Asks(t, [op |-> "find", account |-> memo[t].account], r)
              /\ IF r = "ok" /\ Active(memo[t].account) THEN GoOn(t, memo[t])
                 ELSE Answer(t, IF r = "ok" THEN "unauthenticated" ELSE PasskeyStatus(r))
         /\ UNCHANGED mail
      \/ /\ Working(t, "begin_passkey", 4)
         /\ Put(t, Ceremony(t, "registration", memo[t].account, q.session))

\* A registration is finished by the client and in the session that began it.
BegunHere(t, c) ==
  /\ c.kind = "registration" /\ c.client = request[t].client
  /\ c.session = request[t].session /\ c.account = memo[t].account

FinishRegistration(t) ==
  LET q == request[t]
  IN  \/ /\ Working(t, "finish_passkey", 1)
         /\ ConsumeRateLimit(t, <<"registration-finish-session", q.session>>, "unauthenticated")
      \/ Working(t, "finish_passkey", 2) /\ Validates(t)
      \/ /\ Working(t, "finish_passkey", 3)
         /\ TakeCeremony(t, VerifyRegistration(t) /\ \E c \in Found(t) : BegunHere(t, c), memo[t])
      \/ /\ Working(t, "finish_passkey", 4)
         /\ \E r \in Answers :
              /\ Asks(t, [op |-> "register", session |-> q.session, passkey |-> New[t],
                          count |-> q.count, now |-> memo[t].now], r)
              /\ Answer(t, PasskeyStatus(r))
         /\ UNCHANGED mail

-----------------------------------------------------------------------------
(* The OIDC provider: the library oidc-provider over the storage adapter of  *)
(* the service.  An authorization is named by the call that began it, which  *)
(* stands for its state, its nonce and its PKCE verifier.                    *)

\* PostgresOidcProviderAdapter
FindArtifact(model, id) == {x \in artifacts : x.model = model /\ x.id = id /\ clock < x.until}

ConsumableArtifact(x) == ~x.used

ConsumeArtifact(id, done) ==
  LET found == {x \in FindArtifact("code", id) : ConsumableArtifact(x)}
  IN  /\ done = (found # {})
      /\ artifacts' = (artifacts \ found) \cup {[x EXCEPT !.used = TRUE] : x \in found}

RevokeByGrantId(grant) == {x \in artifacts : x.grant # grant}

Upsert(model, t, authorization, grant) ==
  artifacts \cup
    {[model |-> model, id |-> New[t], account |-> memo[t].account,
      authorization |-> authorization, grant |-> grant, used |-> FALSE,
      until |-> clock + AuthorizationLifetime]}

\* findAccount: the provider knows active accounts only.
FindAccount(a) == {a} \cap {b \in DOMAIN accounts : Active(b)}

StoresOnly(t) == UNCHANGED <<tables, windows, passed, ceremonies, mail, clock>>
ProviderFails(t) ==
  Fault /\ Answer(t, "unavailable") /\ UNCHANGED artifacts /\ StoresOnly(t)

\* completeOidcInteraction, and the provider that goes on from there to the
\* redirect with the code.
CompleteOidcInteraction(t) ==
  LET q == request[t]
      known == FindAccount(memo[t].account) # {}
  IN  \/ /\ Working(t, "interact", 1)
         /\ \E r \in Answers :
              /\ Asks(t, SessionQuery(t, "authenticate"), r)
              /\ IF r = "ok" THEN GoOn(t, [memo[t] EXCEPT !.account = sessions[q.session].account])
                             ELSE Answer(t, Status(r))
         /\ UNCHANGED mail
      \/ /\ Working(t, "interact", 2)
         /\ \/ /\ artifacts' = IF known THEN Upsert("code", t, q.authorization, New[t]) ELSE artifacts
               /\ Answer(t, IF known THEN "ok" ELSE "unavailable")
               /\ UNCHANGED faults /\ StoresOnly(t)
            \/ ProviderFails(t)

\* The token endpoint.  A code that comes again takes back what it gave.
ExchangeCode(t) ==
  LET q == request[t]
      found == FindArtifact("code", q.code)
      fits == \E x \in found : x.authorization = q.authorization
      again == \E x \in found : x.used
      known == FindAccount(memo[t].account) # {}
  IN  \/ /\ Working(t, "callback", 2) /\ fits /\ ~again
         /\ \E x \in found : GoOn(t, [memo[t] EXCEPT !.account = x.account])
         /\ UNCHANGED <<artifacts, faults>> /\ StoresOnly(t)
      \/ /\ Working(t, "callback", 2) /\ ~(fits /\ ~again)
         /\ artifacts' = IF fits /\ again THEN RevokeByGrantId(q.code) ELSE artifacts
         /\ Answer(t, "unavailable") /\ UNCHANGED faults /\ StoresOnly(t)
      \/ /\ Working(t, "callback", 3)
         /\ \/ ConsumeArtifact(q.code, TRUE) /\ GoOn(t, memo[t])
            \/ ConsumeArtifact(q.code, FALSE) /\ Answer(t, "unavailable")
         /\ UNCHANGED faults /\ StoresOnly(t)
      \/ /\ Working(t, "callback", 4)
         /\ artifacts' = IF known THEN Upsert("token", t, q.authorization, q.code) ELSE artifacts
         /\ IF known THEN GoOn(t, memo[t]) ELSE Answer(t, "unavailable")
         /\ UNCHANGED faults /\ StoresOnly(t)
      \/ request[t].op = "callback" /\ reply[t] = "none" /\ at[t] \in 2 .. 4 /\ ProviderFails(t)

\* resolveOidcApplicationIdentity
ResolveOidcApplicationIdentity(t) ==
  /\ Working(t, "callback", 6)
  /\ IF FindArtifact("token", New[t]) # {} THEN GoOn(t, [memo[t] EXCEPT !.now = clock])
                                           ELSE Answer(t, "unavailable")
  /\ UNCHANGED <<artifacts, faults>> /\ StoresOnly(t)

OidcSession(t) ==
  [op |-> "exchange", account |-> memo[t].account, token |-> New[t], fresh |-> New[t],
   now |-> memo[t].now]

\* The back end of the web application answers with 503 whatever goes wrong.
CreateApplicationSession(t) ==
  /\ Working(t, "callback", 7)
  /\ \E r \in Answers :
       /\ Asks(t, OidcSession(t), r)
       /\ Answer(t, IF r = "ok" THEN "ok" ELSE "unavailable")
  /\ UNCHANGED mail

-----------------------------------------------------------------------------
(* Administration *)

\* administrativeContext
AdministrativeContext(t) == [request[t].change EXCEPT !.now = memo[t].now]

\* One operation of the repository in the name of the session that asks
AsAdministrator(t, op) ==
  /\ Working(t, "administer", 2) /\ request[t].change.op = op
  /\ AnswersWith(t, AdministrativeContext(t))

CreateAccount(t) == AsAdministrator(t, "create")
UpdateAccount(t) == AsAdministrator(t, "update")
SetAccountStatus(t) == AsAdministrator(t, "status")
SetDomainStatus(t) == AsAdministrator(t, "domain")
GrantFunctionalGrant(t) == AsAdministrator(t, "grant")
RevokeFunctionalGrant(t) == AsAdministrator(t, "ungrant")
RevokeSession(t) == AsAdministrator(t, "revoke")
RevokeAllSessions(t) == AsAdministrator(t, "revoke_all")
SecurityResetAuthAccess(t) == AsAdministrator(t, "reset")

-----------------------------------------------------------------------------
(* The process stops: every call goes without an answer, and the codes that *)
(* are being sent are forgotten.                                            *)
Stop ==
  /\ Fault /\ up' = FALSE
  /\ reply' = [t \in Calls |-> IF request[t].op # "none" /\ reply[t] = "none" THEN "lost" ELSE reply[t]]
  /\ delivery' = [c \in Challenges |-> IF delivery[c] \in {"sending", "failing"} THEN "lost" ELSE delivery[c]]
  /\ UNCHANGED <<stores, request, at, memo, mailed, clock>>

Bootstrapping == [op |-> "bootstrap", email |-> BootstrapEmail]

\* createDurableAuthRuntime, which makes the first administrator every time: a
\* service for which that fails does not start.
Bootstrap ==
  \E r \in Answers :
    /\ Ask(Bootstrapping, r)
    /\ up' = (r = "ok")

\* createAuthRuntime needs Redis and the keys of the provider, too.
Start ==
  /\ ~up /\ Bootstrap
  /\ UNCHANGED <<windows, passed, ceremonies, artifacts, mail, calls, clock>>

\* Time passes, though not while a call is late at its limiter.
Tick ==
  /\ clock < MaxTime
  /\ \A t \in Calls :
       reply[t] = "none" /\ at[t] \in 1 .. LimitsOf(request[t].op) => clock < memo[t].now + MaxDelay
  /\ clock' = clock + 1
  /\ UNCHANGED <<stores, mail, calls, faults, up>>

\* The routes of the service, by controller
AuthSessionController(t) ==
  GetSession(t) \/ Logout(t) \/ RequestEmailChallenge(t) \/ VerifyEmailChallenge(t)
PasskeyController(t) ==
  \/ BeginAuthentication(t) \/ FinishAuthentication(t)
  \/ BeginRegistration(t) \/ FinishRegistration(t)
OidcInteractionController(t) ==
  \/ CompleteOidcInteraction(t)
  \/ ResolveOidcApplicationIdentity(t) \/ CreateApplicationSession(t)
ChangeAccount(t) ==
  CreateAccount(t) \/ UpdateAccount(t) \/ SetAccountStatus(t) \/ SetDomainStatus(t)
ChangeGrants(t) == GrantFunctionalGrant(t) \/ RevokeFunctionalGrant(t)
EndAccess(t) == RevokeSession(t) \/ RevokeAllSessions(t) \/ SecurityResetAuthAccess(t)

Handle(t) ==
  \/ AuthSessionController(t) \/ PasskeyController(t)
  \/ OidcInteractionController(t) \/ ExchangeCode(t)
  \/ ChangeAccount(t) \/ ChangeGrants(t) \/ EndAccess(t)

Delivering(c) == Deliver(c) \/ GiveUp(c) \/ InvalidateUndelivered(c)

=============================================================================
