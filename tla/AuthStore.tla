------------------------------ MODULE AuthStore ------------------------------
(***************************************************************************)
(* The store of the auth service in PostgreSQL: calls of                   *)
(* PostgresAuthRepository, each of them one SQL function in a transaction  *)
(* of its own at READ COMMITTED, running at the same time.                 *)
(*                                                                         *)
(* A function is a sequence of statements (Plan).  A statement selects     *)
(* rows as committed when it starts (Select), locks them one by one (Lock),*)
(* and looks again at what it has locked (Check).  What a call has written *)
(* is seen by nobody before its Commit.  An account stands for the rows of *)
(* accounts and account_auth_profiles, which are always locked together;   *)
(* a row "email" for the unique index on mail addresses; a row "owner" for *)
(* the advisory lock of the bootstrap.                                     *)
(*                                                                         *)
(* The checks of parameters that the service never violates, the audit     *)
(* events, starter chats and memberships are left out.                     *)
(* Definitions named X_<change> are mutants: X with one plausible mistake. *)
(***************************************************************************)
EXTENDS AuthRepository, Sequences

CONSTANTS
  Calls,      \* calls that run at the same time
  Situations  \* what they may start with: the tables and the request of each call

VARIABLES
  request,  \* the request of each call
  at,       \* the statement of its plan a call is at
  stage,    \* "ready" to select, "locking", "ending" (about to commit), or "done"
  rows,     \* rows the statement has yet to lock
  held,     \* rows the call has locked
  verdict,  \* how the call ends
  answer    \* what the caller is told, or "none"

control == <<at, stage, rows, held, verdict, answer>>
vars == <<tables, request, control>>

Row ==
  ({"account", "domain", "grant"} \X Accounts) \cup ({"session"} \X Sessions)
    \cup ({"challenge"} \X Challenges) \cup ({"passkey"} \X Passkeys)
    \cup ({"email"} \X Emails) \cup {<<"owner", Owner>>}

\* How a call ends; those of Writing commit something.
Writing == {"ok", "wrong", "void", "expired", "absent"}
Verdicts == Answers \cup Writing \cup {"on", "nothing", "failed"}
Told_Raw(v) == v
Told(v) ==
  CASE v \in {"wrong", "void", "expired", "absent"} -> "invalid"
    [] v = "nothing" -> "ok"
    [] OTHER -> v

AdminOps == {"reset", "create", "update", "status", "grant", "ungrant", "domain",
             "revoke_all", "revoke"}

-----------------------------------------------------------------------------
(* The statements of each function. *)
Plan(q) ==
  CASE q.op = "bootstrap" -> <<"owner", "emails">>
    [] q.op = "authenticate" -> <<"session", "holder">>
    [] q.op = "logout" -> <<"own_session">>
    [] q.op = "issue" -> <<"recipient", "open">>
    [] q.op = "invalidate" -> <<"own_challenge">>
    [] q.op = "consume" -> <<"challenge", "candidate">>
    [] q.op = "exchange" -> <<"bearer">>
    [] q.op = "register" -> <<"registrant">>
    [] q.op = "login" -> <<"credential">>
    [] q.op = "reset" -> <<"administrator", "target", "passkeys", "challenges", "sessions">>
    [] q.op = "create" -> <<"activity", "administrator", "emails">>
    [] q.op = "update" -> <<"administrator", "target", "emails">>
    [] q.op = "status" ->
         IF q.status = "active" THEN <<"administrator", "target">>
         ELSE <<"administrator", "target", "challenges", "sessions", "passkeys">>
    [] q.op = "grant" -> <<"administrator", "domain", "target">>
    [] q.op = "ungrant" -> <<"administrator", "domain", "grant">>
    [] q.op = "domain" -> <<"administrator", "domain">>
    [] q.op = "revoke_all" -> <<"activity", "administrator", "target", "sessions">>
    [] q.op = "revoke" -> <<"activity", "administrator", "target", "victim">>
    [] OTHER -> <<>>

Statement(t) == Plan(request[t])[at[t]]

HeldOf(t, kind) == {x[2] : x \in {y \in held[t] : y[1] = kind}}

ActiveRecipient(e) == {a \in Recipient(e) : Active(a)}
Taken(q) ==
  Recipient(q.email) \ (IF q.op = "update" THEN {q.account} ELSE {}) # {}

\* What a statement asks of the rows: once when it selects them ...
Sees(k, t) ==
  LET q == request[t]
  IN  CASE k = "session" -> q.session \in DOMAIN sessions
        [] k = "own_session" -> Kept(q.session)
        [] k = "recipient" -> ActiveRecipient(q.email) # {}
        [] k = "own_challenge" -> Open(q.challenge)
        [] k = "challenge" -> q.challenge \in DOMAIN challenges
        [] k = "bearer" -> Active(q.account)
        [] k = "registrant" -> Live(q.session, q.now)
        [] k = "credential" -> q.passkey \in DOMAIN passkeys
        [] k = "administrator" -> Administers(q.session, q.now)
        [] k \in {"target", "domain"} -> q.account \in DOMAIN accounts
        [] OTHER -> TRUE

\* ... and once more when they are locked.
Passes(k, t) ==
  LET q == request[t]
  IN  CASE k = "session" -> Kept(q.session)
        [] k = "holder" ->
             Active(sessions[q.session].account) /\ ~Expired(q.session, q.now)
        [] k = "recipient" -> HeldOf(t, "account") \subseteq ActiveRecipient(q.email)
        [] k = "challenge" -> Consumable(q.challenge, q.now)
        [] k = "candidate" -> Active(challenges[q.challenge].account)
        [] k = "credential" -> Readable(q.passkey, q.now)
        [] OTHER -> Sees(k, t)

\* How a call ends when a statement finds nothing.
Miss(k) ==
  CASE k \in {"session", "own_session", "challenge", "bearer", "credential"} -> "invalid"
    [] k = "holder" -> "expired"
    [] k = "candidate" -> "void"
    [] k = "recipient" -> "neutral"
    [] k = "own_challenge" -> "nothing"
    [] k \in {"registrant", "administrator"} -> "refused"
    [] OTHER -> "missing"

\* Another login of the passkey was completed since its count was read.
Overtaken_Lower(q) == passkeys[q.passkey].count < q.expected
Overtaken(q) == passkeys[q.passkey].count # q.expected

\* The change was decided on another version of the account than it finds.
Outdated_Older(q) == q.version < accounts[q.account].version
Outdated(q) == q.version # accounts[q.account].version + 1

\* Who is an administrator is for the owner to say.
NeedsOwner_Granting(q) == q.op = "grant" /\ q.grant = Admin
NeedsOwner(q) == q.op \in {"grant", "ungrant"} /\ q.grant = Admin

\* What a function decides on what a statement found: go on, or how it ends.
Ruling(k, t) ==
  LET q == request[t]
  IN  CASE k = "owner" /\ Owner \in DOMAIN accounts ->
             IF accounts[Owner].email = q.email THEN "nothing" ELSE "conflict"
        [] k = "challenge" /\ ~q.right -> "wrong"
        [] k = "recipient" /\ (\E a \in HeldOf(t, "account") : InCooldown(a, q.now)) -> "neutral"
        [] k = "bearer" /\ Exchanged(q.token) -> "invalid"
        [] k = "credential" /\ Overtaken(q) -> "conflict"
        [] k = "administrator" /\ NeedsOwner(q) ->
             IF sessions[q.session].account # Owner THEN "refused"
             ELSE IF q.op = "ungrant" /\ q.account = Owner THEN "unavailable" ELSE "on"
        [] k = "domain" ->
             IF Outdated(q)
                  \/ (q.op = "grant" /\ q.grant \in accounts[q.account].grants)
             THEN "conflict"
             ELSE IF q.op = "ungrant" /\ q.grant \notin accounts[q.account].grants
             THEN "missing" ELSE "on"
        [] k = "emails" /\ Taken(q) -> "conflict"
        [] k = "victim" /\ HeldOf(t, "session") \cap KeptOf(q.account) \cap {q.victim} = {} -> "absent"
        [] OTHER -> "on"

ChallengeOf_Unlocked(q) == {}
ChallengeOf(q) == {<<"challenge", q.challenge>>}

AccountOf_TokenUnlocked(q) == IF q.op = "exchange" THEN {} ELSE {<<"account", q.account>>}
AccountOf(q) == {<<"account", q.account>>}

HolderOf_SessionUnlocked(s) == {<<"account", sessions[s].account>>}
HolderOf(s) == {<<"session", s>>, <<"account", sessions[s].account>>}

\* The rows a statement locks.
Selected(k, t) ==
  LET q == request[t]
  IN  CASE k = "owner" -> {<<"owner", Owner>>}
        [] k = "emails" ->
             IF q.op # "update" THEN {<<"email", q.email>>}
             ELSE {"email"} \X ({q.email, accounts[q.account].email} \
                                  ({q.email} \cap {accounts[q.account].email}))
        [] k \in {"session", "own_session"} -> {<<"session", q.session>>}
        [] k = "holder" -> {<<"account", sessions[q.session].account>>}
        [] k = "recipient" -> {"account"} \X ActiveRecipient(q.email)
        [] k = "open" -> {"challenge"} \X UNION {OpenOf(a) : a \in HeldOf(t, "account")}
        [] k \in {"challenge", "own_challenge"} -> ChallengeOf(q)
        [] k = "candidate" -> {<<"account", challenges[q.challenge].account>>}
        [] k \in {"bearer", "target"} -> AccountOf(q)
        [] k = "registrant" -> HolderOf(q.session)
        [] k = "credential" ->
             {<<"passkey", q.passkey>>, <<"account", passkeys[q.passkey].account>>}
        [] k = "activity" ->
             IF Kept(q.session) THEN HolderOf(q.session)
             ELSE {"session"} \X ({q.session} \cap DOMAIN sessions)
        [] k = "administrator" ->
             HolderOf(q.session) \cup {<<"grant", sessions[q.session].account>>}
        [] k = "domain" -> {<<"domain", q.account>>}
        [] k = "grant" -> IF q.grant = Admin THEN {<<"grant", q.account>>} ELSE {}
        [] k = "challenges" -> {"challenge"} \X OpenOf(q.account)
        [] k = "sessions" -> {"session"} \X KeptOf(q.account)
        [] k = "passkeys" -> {"passkey"} \X UsableOf(q.account)
        [] k = "victim" -> {"session"} \X (KeptOf(q.account) \cap {q.victim})

\* One statement locks an account after the row that names it, and the grant last.
Rank(x) == CASE x[1] = "account" -> 1 [] x[1] = "grant" -> 2 [] OTHER -> 0

-----------------------------------------------------------------------------
(* What each function has written when it commits.  A statement writes to the *)
(* rows it found, which are the rows its call holds.                          *)
AuthenticateSessionWrites(q) ==
  /\ sessions' = Touched(q.session, q.now)
  /\ UNCHANGED <<accounts, challenges, passkeys>>

RevokeSessionByVerifierWrites(q) ==
  /\ sessions' = Revoked(sessions, {q.session})
  /\ UNCHANGED <<accounts, challenges, passkeys>>

IssueEmailChallengeWrites_OpenLeft(t, q) ==
  /\ \E a \in HeldOf(t, "account") :
       challenges' = Stored(challenges, q.challenge,
         [account |-> a, issued |-> q.now, expires |-> q.now + CodeLifetime,
          attempts |-> 0, state |-> "open"])
  /\ UNCHANGED <<accounts, sessions, passkeys>>

IssueEmailChallengeWrites(t, q) ==
  /\ \E a \in HeldOf(t, "account") :
       challenges' = Stored(Invalidated(HeldOf(t, "challenge")), q.challenge,
         [account |-> a, issued |-> q.now, expires |-> q.now + CodeLifetime,
          attempts |-> 0, state |-> "open"])
  /\ UNCHANGED <<accounts, sessions, passkeys>>

InvalidateChallengeWrites(q) ==
  /\ challenges' = Invalidated({q.challenge})
  /\ UNCHANGED <<accounts, sessions, passkeys>>

ConsumeChallengeAndCreateSessionWrites(q) ==
  /\ challenges' = [challenges EXCEPT ![q.challenge].state = "used"]
  /\ sessions' = Stored(sessions, q.fresh,
       NewSession(challenges[q.challenge].account,
                  [kind |-> "challenge", of |-> q.challenge], q.now))
  /\ UNCHANGED <<accounts, passkeys>>

CreateOidcSessionWrites(q) ==
  /\ sessions' = Stored(sessions, q.fresh,
       NewSession(q.account, [kind |-> "token", of |-> q.token], q.now))
  /\ UNCHANGED <<accounts, challenges, passkeys>>

RegisterPasskeyWrites(q) ==
  /\ passkeys' = Stored(passkeys, q.passkey,
       [account |-> sessions[q.session].account, created |-> q.now, count |-> q.count,
        revoked |-> FALSE])
  /\ UNCHANGED <<accounts, challenges, sessions>>

CompletePasskeyLoginWrites(q) ==
  /\ passkeys' = [passkeys EXCEPT ![q.passkey].count = Greatest(q.expected, q.observed)]
  /\ sessions' = Stored(sessions, q.fresh,
       NewSession(passkeys[q.passkey].account, [kind |-> "passkey", of |-> q.passkey], q.now))
  /\ UNCHANGED <<accounts, challenges>>

NewAccount(e, grants) ==
  [status |-> "active", email |-> e, grants |-> grants,
   domain |-> "incubator_participant", version |-> 1]

BootstrapAdministratorWrites(q) ==
  /\ accounts' = Stored(accounts, Owner, NewAccount(q.email, {Admin}))
  /\ UNCHANGED <<challenges, sessions, passkeys>>

CreateAccountAsAdministratorWrites(q) ==
  /\ accounts' = Stored(accounts, q.account, NewAccount(q.email, {}))
  /\ sessions' = Touched(q.session, q.now)
  /\ UNCHANGED <<challenges, passkeys>>

UpdateAccountAsAdministratorWrites(q) ==
  /\ accounts' = [accounts EXCEPT ![q.account].email = q.email]
  /\ UNCHANGED <<challenges, sessions, passkeys>>

\* Rows of the target account that the call holds, of its own session not.
HeldBy(t, q) == HeldOf(t, "session") \cap KeptOf(q.account)

SetAccountStatusAsAdministratorWrites(t, q) ==
  /\ accounts' = [accounts EXCEPT ![q.account].status = q.status]
  /\ challenges' = Invalidated(HeldOf(t, "challenge"))
  /\ sessions' = Revoked(sessions, IF q.status = "active" THEN {} ELSE HeldBy(t, q))
  /\ passkeys' = Revoked(passkeys, HeldOf(t, "passkey"))

AdminSecurityResetAuthAccessWrites(t, q) ==
  /\ challenges' = Invalidated(HeldOf(t, "challenge"))
  /\ sessions' = Revoked(sessions, HeldBy(t, q))
  /\ passkeys' = Revoked(passkeys, HeldOf(t, "passkey"))
  /\ UNCHANGED accounts

\* mutate_functional_grant and admin_set_domain_status: the version is the caller's.
AuthorizationMutation(q, grants, domain) ==
  /\ accounts' = [accounts EXCEPT ![q.account] =
       [@ EXCEPT !.grants = grants, !.domain = domain, !.version = q.version]]
  /\ UNCHANGED <<challenges, sessions, passkeys>>

GrantFunctionalGrantAsAdministratorWrites(q) ==
  AuthorizationMutation(q, accounts[q.account].grants \cup {q.grant}, accounts[q.account].domain)

RevokeFunctionalGrantAsAdministratorWrites(q) ==
  AuthorizationMutation(q, accounts[q.account].grants \ {q.grant}, accounts[q.account].domain)

SetDomainStatusAsAdministratorWrites(q) ==
  AuthorizationMutation(q, accounts[q.account].grants, q.domain)

RevokeAllSessionsAsAdministratorWrites(t, q) ==
  /\ sessions' = Revoked(Touched(q.session, q.now), HeldBy(t, q))
  /\ UNCHANGED <<accounts, challenges, passkeys>>

RevokeSessionAsAdministratorWrites(q) ==
  /\ sessions' = Revoked(Touched(q.session, q.now), {q.victim})
  /\ UNCHANGED <<accounts, challenges, passkeys>>

Writes(t, q) ==
  \/ q.op = "authenticate" /\ AuthenticateSessionWrites(q)
  \/ q.op = "logout" /\ RevokeSessionByVerifierWrites(q)
  \/ q.op = "issue" /\ IssueEmailChallengeWrites(t, q)
  \/ q.op = "invalidate" /\ InvalidateChallengeWrites(q)
  \/ q.op = "consume" /\ ConsumeChallengeAndCreateSessionWrites(q)
  \/ q.op = "exchange" /\ CreateOidcSessionWrites(q)
  \/ q.op = "register" /\ RegisterPasskeyWrites(q)
  \/ q.op = "login" /\ CompletePasskeyLoginWrites(q)
  \/ q.op = "bootstrap" /\ BootstrapAdministratorWrites(q)
  \/ q.op = "create" /\ CreateAccountAsAdministratorWrites(q)
  \/ q.op = "update" /\ UpdateAccountAsAdministratorWrites(q)
  \/ q.op = "status" /\ SetAccountStatusAsAdministratorWrites(t, q)
  \/ q.op = "reset" /\ AdminSecurityResetAuthAccessWrites(t, q)
  \/ q.op = "grant" /\ GrantFunctionalGrantAsAdministratorWrites(q)
  \/ q.op = "ungrant" /\ RevokeFunctionalGrantAsAdministratorWrites(q)
  \/ q.op = "domain" /\ SetDomainStatusAsAdministratorWrites(q)
  \/ q.op = "revoke_all" /\ RevokeAllSessionsAsAdministratorWrites(t, q)
  \/ q.op = "revoke" /\ RevokeSessionAsAdministratorWrites(q)

\* Endings that write although the caller is told that nothing was found.
WritesThough(q, v) ==
  \/ /\ v \in {"wrong", "void"}
     /\ challenges' = IF v = "wrong" THEN [challenges EXCEPT ![q.challenge].attempts = @ + 1]
                       ELSE Invalidated({q.challenge})
     /\ UNCHANGED <<accounts, sessions, passkeys>>
  \/ /\ v = "expired"
     /\ sessions' = Revoked(sessions, {q.session})
     /\ UNCHANGED <<accounts, challenges, passkeys>>
  \/ /\ v = "absent"
     /\ sessions' = Touched(q.session, q.now)
     /\ UNCHANGED <<accounts, challenges, passkeys>>

-----------------------------------------------------------------------------
(* A call that writes nothing is over at once and lets its locks go. *)
Ends(t, v) ==
  /\ stage' = [stage EXCEPT ![t] = "done"]
  /\ rows' = [rows EXCEPT ![t] = {}]
  /\ held' = [held EXCEPT ![t] = {}]
  /\ verdict' = [verdict EXCEPT ![t] = v]
  /\ answer' = [answer EXCEPT ![t] = Told(v)]

\* Queries that lock nothing.
ReadOps == {"validate", "find", "read"}

ValidateSessionFinds(q) == Live(q.session, q.now)
FindAccountByIdFinds(q) == q.account \in DOMAIN accounts
ReadPasskeyByCredentialIdFinds(q) == Readable(q.passkey, q.now)

Query(t) ==
  /\ stage[t] = "ready" /\ request[t].op \in ReadOps
  /\ LET q == request[t]
         found == CASE q.op = "validate" -> ValidateSessionFinds(q)
                    [] q.op = "find" -> FindAccountByIdFinds(q)
                    [] q.op = "read" -> ReadPasskeyByCredentialIdFinds(q)
     IN  Ends(t, IF found THEN "ok" ELSE IF q.op = "find" THEN "missing" ELSE "invalid")
  /\ UNCHANGED <<tables, request, at>>

Select(t) ==
  /\ stage[t] = "ready" /\ request[t].op \notin ReadOps
  /\ LET k == Statement(t)
     IN  IF Sees(k, t)
         THEN /\ stage' = [stage EXCEPT ![t] = "locking"]
              /\ rows' = [rows EXCEPT ![t] = Selected(k, t)]
              /\ UNCHANGED <<held, verdict, answer>>
         ELSE Ends(t, Miss(k))
  /\ UNCHANGED <<tables, request, at>>

Free(x, t) == \A u \in Calls \ {t} : x \notin held[u]
Following(t) == {x \in rows[t] : \A y \in rows[t] : Rank(x) <= Rank(y)}

Lock(t, x) ==
  /\ stage[t] = "locking" /\ x \in Following(t) /\ Free(x, t)
  /\ held' = [held EXCEPT ![t] = @ \cup {x}]
  /\ rows' = [rows EXCEPT ![t] = @ \ {x}]
  /\ UNCHANGED <<tables, request, at, stage, verdict, answer>>

Check(t) ==
  /\ stage[t] = "locking" /\ rows[t] = {}
  /\ LET k == Statement(t)
         v == IF Passes(k, t) THEN Ruling(k, t) ELSE Miss(k)
         more == v = "on" /\ at[t] < Len(Plan(request[t]))
     IN  IF v \in Writing \cup {"on"}
         THEN /\ stage' = [stage EXCEPT ![t] = IF more THEN "ready" ELSE "ending"]
              /\ at' = [at EXCEPT ![t] = IF more THEN @ + 1 ELSE @]
              /\ verdict' = [verdict EXCEPT ![t] = IF v = "on" /\ ~more THEN "ok" ELSE v]
              /\ UNCHANGED <<rows, held, answer>>
         ELSE Ends(t, v) /\ UNCHANGED at
  /\ UNCHANGED <<tables, request>>

\* The reply to a commit can be lost with its connection.
Commit(t) ==
  /\ stage[t] = "ending"
  /\ IF verdict[t] = "ok" THEN Writes(t, request[t]) ELSE WritesThough(request[t], verdict[t])
  /\ stage' = [stage EXCEPT ![t] = "done"]
  /\ held' = [held EXCEPT ![t] = {}]
  /\ \E r \in {Told(verdict[t]), "unavailable"} : answer' = [answer EXCEPT ![t] = r]
  /\ UNCHANGED <<request, at, rows, verdict>>

Fail_LocksStay(t) ==
  /\ stage[t] # "done"
  /\ stage' = [stage EXCEPT ![t] = "done"]
  /\ rows' = [rows EXCEPT ![t] = {}]
  /\ verdict' = [verdict EXCEPT ![t] = "failed"]
  /\ answer' = [answer EXCEPT ![t] = "unavailable"]
  /\ UNCHANGED <<tables, request, at, held>>

\* A statement fails, or the connection or the process of the caller is lost.
Fail(t) ==
  /\ stage[t] # "done"
  /\ stage' = [stage EXCEPT ![t] = "done"]
  /\ rows' = [rows EXCEPT ![t] = {}]
  /\ held' = [held EXCEPT ![t] = {}]
  /\ verdict' = [verdict EXCEPT ![t] = "failed"]
  /\ answer' = [answer EXCEPT ![t] = "unavailable"]
  /\ UNCHANGED <<tables, request, at>>

\* t waits for a row that u holds.
WaitsFor(t, u) ==
  /\ stage[t] = "locking" /\ rows[t] # {}
  /\ \A x \in Following(t) : ~Free(x, t)
  /\ u # t /\ Following(t) \cap held[u] # {}

\* PostgreSQL gives one of the calls up that wait for each other (40P01).
Deadlock(t) ==
  /\ \E S \in SUBSET Calls : t \in S /\ \A u \in S : \E v \in S : WaitsFor(u, v)
  /\ Fail(t)

-----------------------------------------------------------------------------
(* What a call makes anew.  Ids are random: no call is given one in use, nor two *)
(* calls the same.  A provider token is a token of one account.                  *)
New(q) ==
  CASE q.op \in {"consume", "exchange", "login"} -> {<<"session", q.fresh>>}
    [] q.op = "issue" -> {<<"challenge", q.challenge>>}
    [] q.op = "register" -> {<<"passkey", q.passkey>>}
    [] q.op = "create" -> {<<"account", q.account>>}
    [] OTHER -> {}

Stores ==
  ({"account"} \X (DOMAIN accounts \cup {Owner})) \cup ({"session"} \X DOMAIN sessions)
    \cup ({"challenge"} \X DOMAIN challenges) \cup ({"passkey"} \X DOMAIN passkeys)

FreshIds ==
  \A t \in Calls :
    /\ New(request[t]) \cap Stores = {}
    /\ \A u \in Calls \ {t} :
         /\ New(request[t]) \cap New(request[u]) = {}
         /\ {request[t].op, request[u].op} = {"exchange"} /\ request[t].token = request[u].token
              => request[t].account = request[u].account

(* What an account that is deactivated leaves behind: no code that can be     *)
(* used, no session and no passkey, whatever else runs while it is            *)
(* deactivated.                                                               *)
DeactivatedHasNoAccess ==
  \A a \in DOMAIN accounts :
    accounts[a].status = "deactivated" =>
      OpenOf(a) = {} /\ KeptOf(a) = {} /\ UsableOf(a) = {}

(* A mailed code and a provider token give one session each, and a code that  *)
(* gave one is used up; two calls with one of them run against each other.    *)
OneSessionPerProof ==
  \A s \in DOMAIN sessions :
    LET proof == sessions[s].proof
    IN  /\ proof.kind = "challenge" =>
             proof.of \in DOMAIN challenges /\ challenges[proof.of].state = "used"
        /\ proof.kind # "passkey" =>
             \A r \in DOMAIN sessions : sessions[r].proof = proof => r = s

(* The unique index on mail addresses.                                         *)
OneAccountPerEmail ==
  \A a, b \in DOMAIN accounts : accounts[a].email = accounts[b].email => a = b

(* Every row is of an account: the foreign keys.                               *)
OwnersExist ==
  /\ \A c \in DOMAIN challenges : challenges[c].account \in DOMAIN accounts
  /\ \A s \in DOMAIN sessions : sessions[s].account \in DOMAIN accounts
  /\ \A p \in DOMAIN passkeys : passkeys[p].account \in DOMAIN accounts

(* A code is guessed at most MaxAttempts times, by however many calls at once. *)
GuessesAreLimited ==
  \A c \in DOMAIN challenges : challenges[c].attempts <= MaxAttempts

Init ==
  /\ \E s \in Situations :
       /\ accounts = s.accounts /\ challenges = s.challenges
       /\ sessions = s.sessions /\ passkeys = s.passkeys
       /\ request = s.request
  /\ request \in [Calls -> Requests] /\ FreshIds
  /\ TablesOK /\ DeactivatedHasNoAccess /\ OneSessionPerProof
  /\ OneAccountPerEmail /\ OwnersExist /\ GuessesAreLimited /\ OneOpenCode
  /\ at = [t \in Calls |-> 1]
  /\ stage = [t \in Calls |-> "ready"]
  /\ rows = [t \in Calls |-> {}] /\ held = [t \in Calls |-> {}]
  /\ verdict = [t \in Calls |-> "on"]
  /\ answer = [t \in Calls |-> "none"]

Work(t) ==
  \/ Query(t) \/ Select(t) \/ Check(t) \/ Commit(t)
  \/ \E x \in rows[t] : Lock(t, x)

Next == \E t \in Calls : Work(t) \/ Fail(t)

Spec == Init /\ [][Next]_vars

(* PostgreSQL goes on with a statement that waits for nothing, and looks for *)
(* deadlocks; which call goes on does not matter.                            *)
Progress == \E t \in Calls : Work(t) \/ Deadlock(t)
FairSpec == Spec /\ WF_vars(Progress)

-----------------------------------------------------------------------------
TypeOK ==
  /\ TablesOK
  /\ request \in [Calls -> Requests]
  /\ at \in [Calls -> 1 .. 5]
  /\ stage \in [Calls -> {"ready", "locking", "ending", "done"}]
  /\ rows \in [Calls -> SUBSET Row]
  /\ held \in [Calls -> SUBSET Row]
  /\ verdict \in [Calls -> Verdicts]
  /\ answer \in [Calls -> Answers \cup {"none"}]

(* What an administrator does takes effect only while the session it was asked *)
(* with is live and its account an active administrator, though both were      *)
(* looked at several statements before.                                        *)
ChangesAreAuthorized ==
  [][\A t \in Calls :
       request[t].op \in AdminOps /\ stage[t] = "ending" /\ tables' # tables
         /\ stage'[t] = "done" /\ verdict'[t] # "failed"
       => Administers(request[t].session, request[t].now)]_vars

(* What the store has written it keeps: no step brings back a code, a session   *)
(* or a passkey that was ended, forgets a guess or a sign count, or deletes or  *)
(* moves a row, whatever was read before and written late.                      *)
NothingComesBack == [][KeepsHistory]_vars

(* Accounts become administrators and cease to be only by a call of the owner,  *)
(* with a session that is live when the change is committed; the owner never    *)
(* ceases to be one.                                                            *)
AdministratorsChange(a) ==
  (Admin \in accounts[a].grants) # (Admin \in accounts'[a].grants)
OwnersCall(t, a) ==
  LET q == request[t]
  IN  /\ q.op \in {"grant", "ungrant"} /\ q.grant = Admin /\ q.account = a
      /\ answer[t] = "none" /\ answer'[t] # "none"
      /\ Administers(q.session, q.now) /\ sessions[q.session].account = Owner
      /\ q.op = "ungrant" => a # Owner
OwnerDecides ==
  [][\A a \in DOMAIN accounts :
       AdministratorsChange(a) => \E t \in Calls : OwnersCall(t, a)]_vars

(* No change of grants or of a domain is lost: each adds one to the version it  *)
(* was decided on, so that of two administrators who decided on the same        *)
(* version one is refused.                                                      *)
RightsChange(a) ==
  accounts[a].grants # accounts'[a].grants \/ accounts[a].domain # accounts'[a].domain
NoUpdateIsLost ==
  [][\A a \in DOMAIN accounts :
       RightsChange(a) => accounts'[a].version = accounts[a].version + 1]_vars

(* Every call is answered, though calls lock the same rows in different orders. *)
CallsEnd == <>(\A t \in Calls : answer[t] # "none")

(***************************************************************************)
(* What the port promises: every call is one step, or fails with or        *)
(* without its effect.                                                     *)
(***************************************************************************)
RepositoryCall(t) ==
  /\ answer[t] = "none"
  /\ \E r \in Answers :
       /\ answer' = [answer EXCEPT ![t] = r]
       /\ \/ Perform(request[t], r)
          \/ r = "unavailable" /\ UNCHANGED tables
          \/ r = "unavailable" /\ \E lost \in Answers : Perform(request[t], lost)
  /\ UNCHANGED request

RepositorySpec ==
  /\ answer = [t \in Calls |-> "none"]
  /\ [][\E t \in Calls : RepositoryCall(t)]_<<tables, request, answer>>
=============================================================================
