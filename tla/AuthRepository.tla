--------------------------- MODULE AuthRepository ---------------------------
(***************************************************************************)
(* What the auth service asks of its store (the port AuthRepository), and  *)
(* what LocalAuthRepository does by running one operation after another:   *)
(* accounts, mailed challenges, application sessions and passkeys, and     *)
(* every operation on them as one step.                                    *)
(*                                                                         *)
(* An operation is an action whose last parameter is its answer.  Times    *)
(* are the `now` of the caller, which need not be the same for everybody.  *)
(* Fresh ids and tokens are random in the code and never collide here.     *)
(***************************************************************************)
EXTENDS Naturals, FiniteSets

CONSTANTS
  Accounts, Emails, Challenges, Sessions, Passkeys, Tokens,
  Owner,              \* the account with isServerOwner
  MaxAttempts, Cooldown, CodeLifetime, IdleLifetime, AbsoluteLifetime

ASSUME PolicyAssumption ==
  /\ Owner \in Accounts
  /\ MaxAttempts \in Nat \ {0}
  /\ {Cooldown, CodeLifetime, IdleLifetime, AbsoluteLifetime} \subseteq Nat \ {0}
  /\ IdleLifetime <= AbsoluteLifetime

VARIABLES
  accounts,    \* rows of the stored accounts
  challenges,  \* rows of the stored challenges
  sessions,    \* rows of the stored sessions
  passkeys     \* rows of the stored passkeys

tables == <<accounts, challenges, sessions, passkeys>>

Admin == "platform_administrator"
Grants == {Admin, "chronicler"}
Domains == {"incubator_participant", "disciple"}

(***************************************************************************)
(* Answers: done, a neutral or negative result, a passkey or a count that  *)
(* another call changed, and the four errors of the port.                  *)
(***************************************************************************)
Answers == {"ok", "neutral", "invalid", "refused", "conflict", "missing", "unavailable"}

AccountRow ==
  [status : {"active", "deactivated"}, email : Emails, grants : SUBSET Grants,
   domain : Domains, version : Nat]
ChallengeRow ==
  [account : Accounts, issued : Nat, expires : Nat, attempts : Nat,
   state : {"open", "used", "invalidated"}]
\* What a session was given for: a challenge, a provider token or a passkey.
Proofs ==
  [kind : {"challenge"}, of : Challenges] \cup [kind : {"token"}, of : Tokens]
    \cup [kind : {"passkey"}, of : Passkeys]
SessionRow ==
  [account : Accounts, proof : Proofs, issued : Nat, idle : Nat, absolute : Nat,
   revoked : BOOLEAN]
PasskeyRow == [account : Accounts, created : Nat, count : Nat, revoked : BOOLEAN]

Least(m, n) == IF m < n THEN m ELSE n
Greatest(m, n) == IF m < n THEN n ELSE m

\* The table f with row r stored under key k.
Stored(f, k, r) == [x \in DOMAIN f \cup {k} |-> IF x = k THEN r ELSE f[x]]

Active(a) == a \in DOMAIN accounts /\ accounts[a].status = "active"
IsAdministrator(a) == Active(a) /\ Admin \in accounts[a].grants

Open(c) == c \in DOMAIN challenges /\ challenges[c].state = "open"
OpenOf(a) == {c \in DOMAIN challenges : Open(c) /\ challenges[c].account = a}
Kept(s) == s \in DOMAIN sessions /\ ~sessions[s].revoked
KeptOf(a) == {s \in DOMAIN sessions : Kept(s) /\ sessions[s].account = a}
Usable(p) == p \in DOMAIN passkeys /\ ~passkeys[p].revoked
UsableOf(a) == {p \in DOMAIN passkeys : Usable(p) /\ passkeys[p].account = a}

Capability ==
  {"canManageAccounts", "canManageDomainStatus", "canManageFunctionalGrants",
   "canManagePlatformAdministrators"}

\* What an account may administer: sessionPrincipal.
Capabilities(a) ==
  (IF Admin \notin accounts[a].grants THEN {}
   ELSE {"canManageAccounts", "canManageDomainStatus", "canManageFunctionalGrants"})
    \cup (IF a = Owner THEN {"canManagePlatformAdministrators"} ELSE {})

Expired(s, now) == now >= sessions[s].idle \/ now >= sessions[s].absolute

\* A session that validates at `now`.
Live(s, now) ==
  /\ Kept(s)
  /\ now >= sessions[s].issued
  /\ ~Expired(s, now)
  /\ Active(sessions[s].account)

Administers(s, now) == Live(s, now) /\ IsAdministrator(sessions[s].account)

NewSession(a, proof, now) ==
  [account |-> a, proof |-> proof, issued |-> now,
   idle |-> Least(now + AbsoluteLifetime, now + IdleLifetime),
   absolute |-> now + AbsoluteLifetime, revoked |-> FALSE]

\* The sessions after activity of s at `now`.
Touched(s, now) ==
  [sessions EXCEPT ![s].idle = Least(sessions[s].absolute, now + IdleLifetime)]

Revoked(rows, S) == [x \in DOMAIN rows |-> [rows[x] EXCEPT !.revoked = @ \/ x \in S]]
Invalidated(C) ==
  [c \in DOMAIN challenges |->
     IF c \in C /\ Open(c) THEN [challenges[c] EXCEPT !.state = "invalidated"]
                           ELSE challenges[c]]

-----------------------------------------------------------------------------
(* Sessions *)

AuthenticateSession(s, now, r) ==
  \/ /\ r = "invalid" /\ ~Kept(s)
     /\ UNCHANGED tables
  \/ /\ r = "invalid" /\ Kept(s)
     /\ ~Active(sessions[s].account) \/ Expired(s, now)
     /\ sessions' = Revoked(sessions, {s})
     /\ UNCHANGED <<accounts, challenges, passkeys>>
  \/ /\ r = "ok" /\ Kept(s)
     /\ Active(sessions[s].account) /\ ~Expired(s, now)
     /\ sessions' = Touched(s, now)
     /\ UNCHANGED <<accounts, challenges, passkeys>>

ValidateSession(s, now, r) ==
  /\ r = IF Live(s, now) THEN "ok" ELSE "invalid"
  /\ UNCHANGED tables

FindAccountById(a, r) ==
  /\ r = IF a \in DOMAIN accounts THEN "ok" ELSE "missing"
  /\ UNCHANGED tables

RevokeSessionByVerifier(s, r) ==
  /\ r = IF Kept(s) THEN "ok" ELSE "invalid"
  /\ sessions' = Revoked(sessions, {s})
  /\ UNCHANGED <<accounts, challenges, passkeys>>

-----------------------------------------------------------------------------
(* Challenges *)

\* The account that a mail address belongs to, as a set of at most one.
Recipient(e) == {a \in DOMAIN accounts : accounts[a].email = e}

InCooldown(a, now) ==
  \E c \in DOMAIN challenges :
    challenges[c].account = a /\ now < challenges[c].issued + Cooldown

\* A neutral answer promises nothing: PostgreSQL also gives it when the mail
\* address passes from one account to another during the call.
IssueEmailChallenge(e, c, now, r) ==
  \/ r = "neutral" /\ UNCHANGED tables
  \/ /\ r = "ok"
     /\ \E a \in Recipient(e) :
          /\ Active(a) /\ ~InCooldown(a, now)
          /\ challenges' = Stored(Invalidated(OpenOf(a)), c,
               [account |-> a, issued |-> now, expires |-> now + CodeLifetime,
                attempts |-> 0, state |-> "open"])
     /\ UNCHANGED <<accounts, sessions, passkeys>>

InvalidateChallenge(c, r) ==
  /\ r = "ok"
  /\ challenges' = Invalidated({c})
  /\ UNCHANGED <<accounts, sessions, passkeys>>

Consumable(c, now) ==
  Open(c) /\ now < challenges[c].expires /\ challenges[c].attempts < MaxAttempts

ConsumeChallengeAndCreateSession(c, right, s, now, r) ==
  \/ /\ r = "invalid" /\ ~Consumable(c, now)
     /\ UNCHANGED tables
  \/ /\ r = "invalid" /\ Consumable(c, now) /\ ~right
     /\ challenges' = [challenges EXCEPT ![c].attempts = @ + 1]
     /\ UNCHANGED <<accounts, sessions, passkeys>>
  \/ /\ r = "invalid" /\ Consumable(c, now) /\ right
     /\ ~Active(challenges[c].account)
     /\ challenges' = Invalidated({c})
     /\ UNCHANGED <<accounts, sessions, passkeys>>
  \/ /\ r = "ok" /\ Consumable(c, now) /\ right
     /\ Active(challenges[c].account)
     /\ challenges' = [challenges EXCEPT ![c].state = "used"]
     /\ sessions' = Stored(sessions, s,
          NewSession(challenges[c].account, [kind |-> "challenge", of |-> c], now))
     /\ UNCHANGED <<accounts, passkeys>>

-----------------------------------------------------------------------------
(* Sessions for provider tokens *)

Exchanged(k) == \E s \in DOMAIN sessions : sessions[s].proof = [kind |-> "token", of |-> k]

CreateOidcSession(a, k, s, now, r) ==
  \/ /\ r = "invalid"
     /\ ~Active(a) \/ Exchanged(k)
     /\ UNCHANGED tables
  \/ /\ r = "ok"
     /\ Active(a) /\ ~Exchanged(k)
     /\ sessions' = Stored(sessions, s, NewSession(a, [kind |-> "token", of |-> k], now))
     /\ UNCHANGED <<accounts, challenges, passkeys>>

-----------------------------------------------------------------------------
(* Passkeys *)

\* What a read of a passkey may return: a usable passkey of an active account.
Readable(p, now) ==
  Usable(p) /\ now >= passkeys[p].created /\ Active(passkeys[p].account)

ReadPasskeyByCredentialId(p, now, r) ==
  /\ r = IF Readable(p, now) THEN "ok" ELSE "invalid"
  /\ UNCHANGED tables

RegisterPasskey(s, p, count, now, r) ==
  \/ /\ r = "refused" /\ ~Live(s, now)
     /\ UNCHANGED tables
  \/ /\ r = "ok" /\ Live(s, now)
     /\ passkeys' = Stored(passkeys, p,
          [account |-> sessions[s].account, created |-> now, count |-> count,
           revoked |-> FALSE])
     /\ UNCHANGED <<accounts, challenges, sessions>>

\* The in-memory store does not compare `now` with the creation of the passkey.
CompletePasskeyLogin(p, expected, observed, s, now, r) ==
  \/ /\ r = "invalid"
     /\ ~Usable(p) \/ ~Active(passkeys[p].account) \/ now < passkeys[p].created
     /\ UNCHANGED tables
  \/ /\ r = "conflict"
     /\ Usable(p) /\ Active(passkeys[p].account) /\ passkeys[p].count # expected
     /\ UNCHANGED tables
  \/ /\ r = "ok"
     /\ Usable(p) /\ Active(passkeys[p].account) /\ passkeys[p].count = expected
     /\ passkeys' = [passkeys EXCEPT ![p].count = Greatest(@, observed)]
     /\ sessions' = Stored(sessions, s,
          NewSession(passkeys[p].account, [kind |-> "passkey", of |-> p], now))
     /\ UNCHANGED <<accounts, challenges>>

-----------------------------------------------------------------------------
(* The first administrator is made when the service is set up, and the same *)
(* call can be repeated.                                                    *)
BootstrapAdministrator(e, r) ==
  \/ /\ r = "ok" /\ Owner \notin DOMAIN accounts /\ Recipient(e) = {}
     /\ accounts' = Stored(accounts, Owner,
          [status |-> "active", email |-> e, grants |-> {Admin},
           domain |-> "incubator_participant", version |-> 1])
     /\ UNCHANGED <<challenges, sessions, passkeys>>
  \/ /\ r = "ok" /\ Owner \in Recipient(e)
     /\ UNCHANGED tables
  \/ /\ r = "conflict" /\ Recipient(e) # {Owner}
     /\ Owner \in DOMAIN accounts \/ Recipient(e) # {}
     /\ UNCHANGED tables

-----------------------------------------------------------------------------
(* Administration.  The session of the administrator counts as active by it *)
(* in the in-memory store; PostgreSQL counts some of the operations only.   *)

Activity(s, now) == {sessions, Touched(s, now)}

RequireAdministrator(s, now, r) ==
  r = "refused" /\ ~Administers(s, now) /\ UNCHANGED tables

\* An operation of an administrator that finds no account, or one in the way.
Fails(s, now) ==
  /\ Administers(s, now)
  /\ sessions' \in Activity(s, now)
  /\ UNCHANGED <<accounts, challenges, passkeys>>

RequireAccount(s, a, now, r) == r = "missing" /\ a \notin DOMAIN accounts /\ Fails(s, now)

AdminSecurityResetAuthAccess(s, a, now, r) ==
  \/ RequireAdministrator(s, now, r)
  \/ RequireAccount(s, a, now, r)
  \/ /\ r = "ok" /\ Administers(s, now) /\ a \in DOMAIN accounts
     /\ challenges' = Invalidated(OpenOf(a))
     /\ \E rows \in Activity(s, now) : sessions' = Revoked(rows, KeptOf(a))
     /\ passkeys' = Revoked(passkeys, UsableOf(a))
     /\ UNCHANGED accounts

CreateAccountAsAdministrator(s, a, e, now, r) ==
  \/ RequireAdministrator(s, now, r)
  \/ /\ r = "conflict" /\ (a \in DOMAIN accounts \/ Recipient(e) # {})
     /\ Fails(s, now)
  \/ /\ r = "ok" /\ Administers(s, now)
     /\ a \notin DOMAIN accounts /\ Recipient(e) = {}
     /\ accounts' = Stored(accounts, a,
          [status |-> "active", email |-> e, grants |-> {},
           domain |-> "incubator_participant", version |-> 1])
     /\ sessions' \in Activity(s, now)
     /\ UNCHANGED <<challenges, passkeys>>

UpdateAccountAsAdministrator(s, a, e, now, r) ==
  \/ RequireAdministrator(s, now, r)
  \/ RequireAccount(s, a, now, r)
  \/ r = "conflict" /\ Recipient(e) \ {a} # {} /\ Fails(s, now)
  \/ /\ r = "ok" /\ Administers(s, now)
     /\ a \in DOMAIN accounts /\ Recipient(e) \subseteq {a}
     /\ accounts' = [accounts EXCEPT ![a].email = e]
     /\ sessions' \in Activity(s, now)
     /\ UNCHANGED <<challenges, passkeys>>

SetAccountStatusAsAdministrator(s, a, status, now, r) ==
  \/ RequireAdministrator(s, now, r)
  \/ RequireAccount(s, a, now, r)
  \/ /\ r = "ok" /\ Administers(s, now) /\ a \in DOMAIN accounts
     /\ accounts' = [accounts EXCEPT ![a].status = status]
     /\ LET ended == status = "deactivated"
        IN  /\ challenges' = Invalidated(IF ended THEN OpenOf(a) ELSE {})
            /\ \E rows \in Activity(s, now) :
                 sessions' = Revoked(rows, IF ended THEN KeptOf(a) ELSE {})
            /\ passkeys' = Revoked(passkeys, IF ended THEN UsableOf(a) ELSE {})

\* The version is what the caller read, plus one.  An implementation may
\* refuse a change that was decided on another version, or that changes
\* nothing; PostgreSQL does, the in-memory store does not look.
ChangesAuthorization(s, a, grants, domain, now) ==
  /\ Administers(s, now) /\ a \in DOMAIN accounts
  /\ \E version \in {accounts[a].version, accounts[a].version + 1} :
       accounts' = [accounts EXCEPT ![a] =
         [@ EXCEPT !.grants = grants, !.domain = domain, !.version = version]]
  /\ sessions' \in Activity(s, now)
  /\ UNCHANGED <<challenges, passkeys>>

RefusesChange(s, now, r) == r \in {"conflict", "missing", "unavailable"} /\ Fails(s, now)

OwnersOnly(s, g, now, r) ==
  r = "refused" /\ g = Admin /\ sessions[s].account # Owner /\ Fails(s, now)

MayManage(s, g) == g = Admin => sessions[s].account = Owner

GrantFunctionalGrantAsAdministrator(s, a, g, now, r) ==
  \/ RequireAdministrator(s, now, r)
  \/ OwnersOnly(s, g, now, r)
  \/ RefusesChange(s, now, r)
  \/ /\ r = "ok" /\ MayManage(s, g)
     /\ ChangesAuthorization(s, a, accounts[a].grants \cup {g}, accounts[a].domain, now)

RevokeFunctionalGrantAsAdministrator(s, a, g, now, r) ==
  \/ RequireAdministrator(s, now, r)
  \/ OwnersOnly(s, g, now, r)
  \/ RefusesChange(s, now, r)
  \/ /\ r = "ok" /\ MayManage(s, g) /\ ~(g = Admin /\ a = Owner)
     /\ ChangesAuthorization(s, a, accounts[a].grants \ {g}, accounts[a].domain, now)

SetDomainStatusAsAdministrator(s, a, domain, now, r) ==
  \/ RequireAdministrator(s, now, r)
  \/ RefusesChange(s, now, r)
  \/ /\ r = "ok"
     /\ ChangesAuthorization(s, a, accounts[a].grants, domain, now)

RevokeAllSessionsAsAdministrator(s, a, now, r) ==
  \/ RequireAdministrator(s, now, r)
  \/ RequireAccount(s, a, now, r)
  \/ /\ r = "ok" /\ Administers(s, now) /\ a \in DOMAIN accounts
     /\ \E rows \in Activity(s, now) : sessions' = Revoked(rows, KeptOf(a))
     /\ UNCHANGED <<accounts, challenges, passkeys>>

RevokeSessionAsAdministrator(s, a, victim, now, r) ==
  \/ RequireAdministrator(s, now, r)
  \/ RequireAccount(s, a, now, r)
  \/ /\ Administers(s, now) /\ a \in DOMAIN accounts
     /\ r = IF victim \in KeptOf(a) THEN "ok" ELSE "invalid"
     /\ \E rows \in Activity(s, now) : sessions' = Revoked(rows, {victim} \cap KeptOf(a))
     /\ UNCHANGED <<accounts, challenges, passkeys>>

-----------------------------------------------------------------------------
(* Every operation as a request, and a call of it as one step. *)

SessionRequests ==
  [op : {"authenticate", "validate", "logout"}, session : Sessions, now : Nat]
ChallengeRequests ==
  [op : {"issue"}, email : Emails, challenge : Challenges, now : Nat]
    \cup [op : {"invalidate"}, challenge : Challenges]
    \cup [op : {"consume"}, challenge : Challenges, right : BOOLEAN, fresh : Sessions,
          now : Nat]
TokenRequests ==
  [op : {"exchange"}, account : Accounts, token : Tokens, fresh : Sessions, now : Nat]
PasskeyRequests ==
  [op : {"read"}, passkey : Passkeys, now : Nat]
    \cup [op : {"register"}, session : Sessions, passkey : Passkeys, count : Nat, now : Nat]
    \cup [op : {"login"}, passkey : Passkeys, expected : Nat, observed : Nat,
          fresh : Sessions, now : Nat]
AdminRequests ==
  LET Of(ops) == [op : ops, session : Sessions, account : Accounts, now : Nat]
  IN  Of({"reset", "revoke_all"})
        \cup [op : {"revoke"}, session : Sessions, account : Accounts, victim : Sessions,
              now : Nat]
        \cup [op : {"create", "update"}, session : Sessions, account : Accounts,
              email : Emails, now : Nat]
        \cup [op : {"status"}, session : Sessions, account : Accounts,
              status : {"active", "deactivated"}, now : Nat]
        \cup [op : {"grant", "ungrant"}, session : Sessions, account : Accounts,
              grant : Grants, version : Nat, now : Nat]
        \cup [op : {"domain"}, session : Sessions, account : Accounts, domain : Domains,
              version : Nat, now : Nat]
Requests ==
  [op : {"bootstrap"}, email : Emails] \cup [op : {"find"}, account : Accounts]
    \cup SessionRequests \cup ChallengeRequests \cup TokenRequests
    \cup PasskeyRequests \cup AdminRequests

Perform(q, r) ==
  \/ q.op = "authenticate" /\ AuthenticateSession(q.session, q.now, r)
  \/ q.op = "validate" /\ ValidateSession(q.session, q.now, r)
  \/ q.op = "find" /\ FindAccountById(q.account, r)
  \/ q.op = "read" /\ ReadPasskeyByCredentialId(q.passkey, q.now, r)
  \/ q.op = "logout" /\ RevokeSessionByVerifier(q.session, r)
  \/ q.op = "issue" /\ IssueEmailChallenge(q.email, q.challenge, q.now, r)
  \/ q.op = "invalidate" /\ InvalidateChallenge(q.challenge, r)
  \/ q.op = "consume"
       /\ ConsumeChallengeAndCreateSession(q.challenge, q.right, q.fresh, q.now, r)
  \/ q.op = "exchange" /\ CreateOidcSession(q.account, q.token, q.fresh, q.now, r)
  \/ q.op = "register" /\ RegisterPasskey(q.session, q.passkey, q.count, q.now, r)
  \/ q.op = "login"
       /\ CompletePasskeyLogin(q.passkey, q.expected, q.observed, q.fresh, q.now, r)
  \/ q.op = "bootstrap" /\ BootstrapAdministrator(q.email, r)
  \/ q.op = "reset" /\ AdminSecurityResetAuthAccess(q.session, q.account, q.now, r)
  \/ q.op = "create"
       /\ CreateAccountAsAdministrator(q.session, q.account, q.email, q.now, r)
  \/ q.op = "update"
       /\ UpdateAccountAsAdministrator(q.session, q.account, q.email, q.now, r)
  \/ q.op = "status"
       /\ SetAccountStatusAsAdministrator(q.session, q.account, q.status, q.now, r)
  \/ q.op = "grant"
       /\ GrantFunctionalGrantAsAdministrator(q.session, q.account, q.grant, q.now, r)
  \/ q.op = "ungrant"
       /\ RevokeFunctionalGrantAsAdministrator(q.session, q.account, q.grant, q.now, r)
  \/ q.op = "domain"
       /\ SetDomainStatusAsAdministrator(q.session, q.account, q.domain, q.now, r)
  \/ q.op = "revoke_all" /\ RevokeAllSessionsAsAdministrator(q.session, q.account, q.now, r)
  \/ q.op = "revoke"
       /\ RevokeSessionAsAdministrator(q.session, q.account, q.victim, q.now, r)

TablesOK ==
  /\ DOMAIN accounts \subseteq Accounts /\ accounts \in [DOMAIN accounts -> AccountRow]
  /\ DOMAIN challenges \subseteq Challenges
  /\ challenges \in [DOMAIN challenges -> ChallengeRow]
  /\ DOMAIN sessions \subseteq Sessions /\ sessions \in [DOMAIN sessions -> SessionRow]
  /\ DOMAIN passkeys \subseteq Passkeys /\ passkeys \in [DOMAIN passkeys -> PasskeyRow]

(* An account has one code at most that can still be used, by whatever calls at *)
(* once it was asked for: guesses of an account are guesses of one code.        *)
OneOpenCode ==
  \A c, d \in DOMAIN challenges :
    Open(c) /\ Open(d) /\ challenges[c].account = challenges[d].account => c = d

(***************************************************************************)
(* What no step takes back: a row is never deleted nor given to another    *)
(* account, a code that is used or invalidated and a session or a passkey  *)
(* that is revoked stay as they are, a session changes in nothing but its  *)
(* idle end, and guesses, sign counts and versions never fall.             *)
(***************************************************************************)
AccountsLast ==
  \A a \in DOMAIN accounts :
    a \in DOMAIN accounts' /\ accounts[a].version <= accounts'[a].version
ChallengesLast ==
  \A c \in DOMAIN challenges :
    /\ c \in DOMAIN challenges' /\ challenges[c].attempts <= challenges'[c].attempts
    /\ challenges'[c] =
         [challenges[c] EXCEPT !.attempts = challenges'[c].attempts, !.state = challenges'[c].state]
    /\ ~Open(c) => challenges'[c] = challenges[c]
SessionsLast ==
  \A s \in DOMAIN sessions :
    /\ s \in DOMAIN sessions'
    /\ sessions'[s] =
         [sessions[s] EXCEPT !.idle = sessions'[s].idle, !.revoked = sessions'[s].revoked]
    /\ sessions[s].revoked => sessions'[s] = sessions[s]
PasskeysLast ==
  \A p \in DOMAIN passkeys :
    /\ p \in DOMAIN passkeys' /\ passkeys[p].count <= passkeys'[p].count
    /\ passkeys'[p] =
         [passkeys[p] EXCEPT !.count = passkeys'[p].count, !.revoked = passkeys'[p].revoked]
    /\ passkeys[p].revoked => passkeys'[p] = passkeys[p]
KeepsHistory == AccountsLast /\ ChallengesLast /\ SessionsLast /\ PasskeysLast

=============================================================================
