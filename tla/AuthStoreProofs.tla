--------------------------- MODULE AuthStoreProofs ---------------------------
(***************************************************************************)
(* Proofs about AuthStore, for any calls, accounts, times and lifetimes.   *)
(*                                                                         *)
(* The argument has two halves.  A statement that a call has begun holds   *)
(* or waits for the rows it selected (Selected), and one that it has       *)
(* checked still finds what it found (Known): the invariant IInv.  A       *)
(* commit changes a row only under its lock, and adds rows only for an     *)
(* account that it has locked (Effect); as no two calls hold one row, the  *)
(* commit of one call leaves alone what another has begun (Same).          *)
(*                                                                         *)
(* What a call still knows at its end is what the operation of the port    *)
(* asks for in one step, so its end is that step (RepositorySpec).         *)
(***************************************************************************)
EXTENDS AuthStore, AuthRepositoryProofs

\* Statements a call has begun, and those it has checked.
Begun(k, t) ==
  \E i \in 1 .. Len(Plan(request[t])) :
    Plan(request[t])[i] = k /\ (i < at[t] \/ (i = at[t] /\ stage[t] \in {"locking", "ending"}))
Passed(k, t) ==
  \E i \in 1 .. Len(Plan(request[t])) :
    Plan(request[t])[i] = k /\ (i < at[t] \/ (i = at[t] /\ stage[t] = "ending"))

\* Rows that a call holds or waits for.
Wanted(t) == held[t] \cup rows[t]

-----------------------------------------------------------------------------
(* The invariant *)

Exclusive == \A t, u \in Calls : t # u => held[t] \cap held[u] = {}

FreshInv ==
  /\ \A t \in Calls : stage[t] # "done" => New(request[t]) \cap Stores = {}
  /\ \A t, u \in Calls :
       t # u =>
         /\ New(request[t]) \cap New(request[u]) = {}
         /\ request[t].op = "exchange" /\ request[u].op = "exchange"
              /\ request[t].token = request[u].token
              => request[t].account = request[u].account

\* Where the control of a call can be.
ControlOK(t) ==
  /\ stage[t] # "done" <=> answer[t] = "none"
  /\ stage[t] = "done" => held[t] = {}
  /\ rows[t] # {} => stage[t] = "locking"
  /\ stage[t] \in {"ready", "locking"} => verdict[t] = "on"
  /\ stage[t] \in {"locking", "ending"} \/ at[t] # 1 => request[t].op \notin ReadOps
  /\ request[t].op \notin ReadOps => at[t] \in 1 .. Len(Plan(request[t]))
  /\ stage[t] = "ending" =>
       \/ verdict[t] = "ok" /\ at[t] = Len(Plan(request[t]))
       \/ verdict[t] = "wrong" /\ request[t].op = "consume" /\ at[t] = 1
       \/ verdict[t] = "void" /\ request[t].op = "consume" /\ at[t] = 2
       \/ verdict[t] = "expired" /\ request[t].op = "authenticate" /\ at[t] = 2
       \/ verdict[t] = "absent" /\ request[t].op = "revoke" /\ at[t] = 4

\* What stays of the rows that a begun statement has seen.
Seen(k, t) ==
  LET q == request[t]
  IN  /\ k \in {"session", "own_session", "registrant", "administrator"} =>
           q.session \in DOMAIN sessions
      /\ k \in {"registrant", "administrator"} =>
           sessions[q.session].account \in DOMAIN accounts
      /\ k \in {"own_challenge", "challenge"} => q.challenge \in DOMAIN challenges
      /\ k = "credential" => q.passkey \in DOMAIN passkeys
      /\ k \in {"bearer", "target", "domain"} => q.account \in DOMAIN accounts

\* The rows of a begun statement are locked or waited for.
Covers(k, t) ==
  k \notin {"recipient", "activity"} => Selected(k, t) \subseteq Wanted(t)

\* What a checked statement has found still holds.
Known(k, t) ==
  LET q == request[t]
  IN  /\ k \notin {"recipient", "activity"} => Selected(k, t) \subseteq held[t]
      /\ k \in {"session", "own_session"} => Kept(q.session)
      /\ k = "holder" =>
           (verdict[t] = "expired"
              <=> ~Active(sessions[q.session].account) \/ Expired(q.session, q.now))
      /\ k = "recipient" =>
           /\ HeldOf(t, "account") # {}
           /\ \A a \in HeldOf(t, "account") : a \in ActiveRecipient(q.email) /\ ~InCooldown(a, q.now)
      /\ k = "challenge" =>
           Consumable(q.challenge, q.now) /\ (verdict[t] = "wrong" <=> ~q.right)
      /\ k = "candidate" => (verdict[t] = "void" <=> ~Active(challenges[q.challenge].account))
      /\ k = "bearer" => Active(q.account) /\ ~Exchanged(q.token)
      /\ k = "registrant" => Live(q.session, q.now)
      /\ k = "credential" => Readable(q.passkey, q.now) /\ ~Overtaken(q)
      /\ k = "administrator" =>
           /\ Administers(q.session, q.now)
           /\ q.op \in {"grant", "ungrant"} => MayManage(q.session, q.grant)
           /\ q.op = "ungrant" => ~(q.grant = Admin /\ q.account = Owner)
      /\ k = "domain" => q.version = accounts[q.account].version + 1
      /\ k = "emails" => ~Taken(q)
      /\ k = "owner" => Owner \notin DOMAIN accounts
      /\ k = "victim" => (verdict[t] = "absent" <=> q.victim \notin KeptOf(q.account))

\* The codes and passkeys a call locks are those of the account it is about.
OwnRows(t) ==
  LET q == request[t]
  IN  /\ q.op \in {"status", "reset"} =>
           \A x \in Wanted(t) :
             /\ x[1] = "challenge" =>
                  x[2] \in DOMAIN challenges /\ challenges[x[2]].account = q.account
             /\ x[1] = "passkey" =>
                  x[2] \in DOMAIN passkeys /\ passkeys[x[2]].account = q.account
             /\ x[1] \in {"challenge", "passkey"} /\ q.op = "status" => q.status # "active"
      /\ q.op = "issue" =>
           /\ Begun("recipient", t) => \E a \in Accounts : <<"account", a>> \in Wanted(t)
           /\ Begun("open", t) => \A x \in rows[t] : x[1] = "challenge"
           /\ \A x \in Wanted(t) :
                x[1] = "challenge" =>
                  /\ x[2] \in DOMAIN challenges
                  /\ <<"account", challenges[x[2]].account>> \in held[t]

CallOK(t) ==
  stage[t] # "done" =>
    /\ \A k : Begun(k, t) => Seen(k, t) /\ Covers(k, t)
    /\ \A k : Passed(k, t) => Known(k, t)
    /\ OwnRows(t)

IInv ==
  /\ TypeOK /\ Exclusive /\ FreshInv
  /\ \A t \in Calls : ControlOK(t) /\ CallOK(t)
  /\ DeactivatedHasNoAccess /\ OneSessionPerProof /\ GuessesAreLimited
  /\ OneAccountPerEmail /\ OwnersExist

-----------------------------------------------------------------------------
(* What a commit of u does to each table. *)

ActiveAfter(a) == a \in DOMAIN accounts' /\ accounts'[a].status = "active"

EffectOnAccounts(u) ==
  /\ DOMAIN accounts' \subseteq Accounts /\ accounts' \in [DOMAIN accounts' -> AccountRow]
  /\ DOMAIN accounts \subseteq DOMAIN accounts'
  /\ \A a \in DOMAIN accounts :
       /\ accounts'[a].status # accounts[a].status => <<"account", a>> \in held[u]
       /\ accounts'[a].email # accounts[a].email =>
            <<"account", a>> \in held[u] /\ <<"email", accounts'[a].email>> \in held[u]
       /\ Admin \in accounts[a].grants \ accounts'[a].grants => <<"grant", a>> \in held[u]
       /\ accounts'[a].version # accounts[a].version => <<"domain", a>> \in held[u]
  /\ \A a \in DOMAIN accounts' \ DOMAIN accounts :
       /\ accounts'[a].status = "active"
       /\ <<"email", accounts'[a].email>> \in held[u]
       /\ IF a = Owner THEN <<"owner", Owner>> \in held[u]
                       ELSE <<"account", a>> \in New(request[u])
  /\ OneAccountPerEmail'

EffectOnChallenges(u) ==
  /\ DOMAIN challenges' \subseteq Challenges
  /\ challenges' \in [DOMAIN challenges' -> ChallengeRow]
  /\ DOMAIN challenges \subseteq DOMAIN challenges'
  /\ \A c \in DOMAIN challenges :
       /\ challenges'[c].account = challenges[c].account
       /\ challenges'[c].issued = challenges[c].issued
       /\ challenges'[c] # challenges[c] => <<"challenge", c>> \in held[u]
       /\ challenges[c].state # "open" => challenges'[c].state = challenges[c].state
  /\ \A c \in DOMAIN challenges' \ DOMAIN challenges :
       /\ <<"challenge", c>> \in New(request[u])
       /\ <<"account", challenges'[c].account>> \in held[u] /\ ActiveAfter(challenges'[c].account)
  /\ GuessesAreLimited'

EffectOnSessions(u) ==
  /\ DOMAIN sessions' \subseteq Sessions /\ sessions' \in [DOMAIN sessions' -> SessionRow]
  /\ DOMAIN sessions \subseteq DOMAIN sessions'
  /\ \A s \in DOMAIN sessions :
       /\ sessions'[s].account = sessions[s].account
       /\ sessions'[s].proof = sessions[s].proof
       /\ sessions'[s] # sessions[s] => <<"session", s>> \in held[u]
       /\ sessions[s].revoked => sessions'[s].revoked
  /\ \A s \in DOMAIN sessions' \ DOMAIN sessions :
       LET proof == sessions'[s].proof
       IN  /\ <<"session", s>> \in New(request[u])
           /\ <<"account", sessions'[s].account>> \in held[u] /\ ActiveAfter(sessions'[s].account)
           /\ proof.kind = "challenge" =>
                /\ proof.of \in DOMAIN challenges /\ challenges[proof.of].state = "open"
                /\ challenges'[proof.of].state = "used"
           /\ proof.kind = "token" =>
                /\ request[u].op = "exchange" /\ request[u].token = proof.of
                /\ <<"account", request[u].account>> \in held[u] /\ ~Exchanged(proof.of)

EffectOnPasskeys(u) ==
  /\ DOMAIN passkeys' \subseteq Passkeys /\ passkeys' \in [DOMAIN passkeys' -> PasskeyRow]
  /\ DOMAIN passkeys \subseteq DOMAIN passkeys'
  /\ \A p \in DOMAIN passkeys :
       /\ passkeys'[p].account = passkeys[p].account
       /\ passkeys'[p] # passkeys[p] => <<"passkey", p>> \in held[u]
       /\ passkeys[p].revoked => passkeys'[p].revoked
  /\ \A p \in DOMAIN passkeys' \ DOMAIN passkeys :
       /\ <<"passkey", p>> \in New(request[u])
       /\ <<"account", passkeys'[p].account>> \in held[u] /\ ActiveAfter(passkeys'[p].account)

\* An account that u deactivates has nothing left.
Deactivation ==
  \A a \in DOMAIN accounts :
    accounts[a].status = "active" /\ accounts'[a].status = "deactivated" =>
      (OpenOf(a) = {} /\ KeptOf(a) = {} /\ UsableOf(a) = {})'

Effect(u) ==
  /\ EffectOnAccounts(u) /\ EffectOnChallenges(u)
  /\ EffectOnSessions(u) /\ EffectOnPasskeys(u) /\ Deactivation

\* What a commit of another call leaves alone for t.
Same(t) ==
  /\ \A a \in DOMAIN accounts :
       /\ <<"account", a>> \in held[t] =>
            accounts'[a].status = accounts[a].status /\ accounts'[a].email = accounts[a].email
       /\ <<"grant", a>> \in held[t] =>
            (Admin \in accounts[a].grants => Admin \in accounts'[a].grants)
       /\ <<"domain", a>> \in held[t] => accounts'[a].version = accounts[a].version
  /\ \A e \in Emails :
       <<"email", e>> \in held[t] =>
         \A a \in DOMAIN accounts' :
           accounts'[a].email = e => a \in DOMAIN accounts /\ accounts[a].email = e
  /\ <<"owner", Owner>> \in held[t] => (Owner \in DOMAIN accounts' <=> Owner \in DOMAIN accounts)
  /\ \A s \in DOMAIN sessions : <<"session", s>> \in held[t] => sessions'[s] = sessions[s]
  /\ \A c \in DOMAIN challenges :
       <<"challenge", c>> \in held[t] => challenges'[c] = challenges[c]
  /\ \A p \in DOMAIN passkeys : <<"passkey", p>> \in held[t] => passkeys'[p] = passkeys[p]
  /\ \A a \in Accounts :
       <<"account", a>> \in held[t] =>
         /\ \A c \in DOMAIN challenges' \ DOMAIN challenges : challenges'[c].account # a
         /\ \A s \in DOMAIN sessions' \ DOMAIN sessions : sessions'[s].account # a
         /\ \A p \in DOMAIN passkeys' \ DOMAIN passkeys : passkeys'[p].account # a
  /\ request[t].op = "exchange" /\ <<"account", request[t].account>> \in held[t] =>
       (Exchanged(request[t].token)' => Exchanged(request[t].token))

\* What no commit undoes.
Grown ==
  /\ DOMAIN accounts \subseteq DOMAIN accounts' /\ DOMAIN challenges \subseteq DOMAIN challenges'
  /\ DOMAIN sessions \subseteq DOMAIN sessions' /\ DOMAIN passkeys \subseteq DOMAIN passkeys'
  /\ \A c \in DOMAIN challenges :
       /\ challenges'[c].account = challenges[c].account
       /\ challenges'[c].issued = challenges[c].issued
       /\ challenges[c].state # "open" => challenges'[c].state # "open"
  /\ \A s \in DOMAIN sessions :
       /\ sessions'[s].account = sessions[s].account
       /\ sessions[s].revoked => sessions'[s].revoked
  /\ \A p \in DOMAIN passkeys :
       /\ passkeys'[p].account = passkeys[p].account
       /\ passkeys[p].revoked => passkeys'[p].revoked

-----------------------------------------------------------------------------
(* Requests, plans and rows *)

LEMMA RequestTypes ==
  ASSUME NEW q \in Requests
  PROVE  /\ q.op \in {"authenticate", "validate", "logout", "register"} \cup AdminOps =>
              q.session \in Sessions
         /\ q.op \in {"issue", "invalidate", "consume"} => q.challenge \in Challenges
         /\ q.op \in {"read", "register", "login"} => q.passkey \in Passkeys
         /\ q.op \in {"find", "exchange"} \cup AdminOps => q.account \in Accounts
         /\ q.op \in {"bootstrap", "issue", "create", "update"} => q.email \in Emails
         /\ q.op \in {"consume", "exchange", "login"} => q.fresh \in Sessions
         /\ q.op \notin {"bootstrap", "find", "invalidate"} => q.now \in Nat
         /\ q.op = "exchange" => q.token \in Tokens
         /\ q.op = "consume" => q.right \in BOOLEAN
         /\ q.op = "register" => q.count \in Nat
         /\ q.op = "login" => q.expected \in Nat /\ q.observed \in Nat
         /\ q.op = "revoke" => q.victim \in Sessions
         /\ q.op = "status" => q.status \in {"active", "deactivated"}
         /\ q.op \in {"grant", "ungrant"} => q.grant \in Grants
         /\ q.op = "domain" => q.domain \in Domains
         /\ q.op \in {"grant", "ungrant", "domain"} => q.version \in Nat
         /\ q.op \in ReadOps \cup AdminOps \cup
              {"bootstrap", "authenticate", "logout", "issue", "invalidate", "consume",
               "exchange", "register", "login"}
<1>1. CASE q \in SessionRequests
  BY <1>1 DEF SessionRequests, AdminOps, ReadOps
<1>2. CASE q \in ChallengeRequests
  BY <1>2 DEF ChallengeRequests, AdminOps, ReadOps
<1>3. CASE q \in TokenRequests
  BY <1>3 DEF TokenRequests, AdminOps, ReadOps
<1>4. CASE q \in PasskeyRequests
  BY <1>4 DEF PasskeyRequests, AdminOps, ReadOps
<1>5. CASE q \in AdminRequests
  BY <1>5 DEF AdminRequests, AdminOps, ReadOps
<1>6. CASE q \in [op : {"bootstrap"}, email : Emails] \cup [op : {"find"}, account : Accounts]
  BY <1>6 DEF AdminOps, ReadOps
<1> QED
  BY <1>1, <1>2, <1>3, <1>4, <1>5, <1>6 DEF Requests

LEMMA PlanLength ==
  ASSUME NEW q \in Requests
  PROVE  Len(Plan(q)) \in 0 .. 5 /\ (q.op \notin ReadOps => Len(Plan(q)) > 0)
<1>1. CASE q.op = "bootstrap"
  <2>1. Plan(q) = <<"owner", "emails">>
    BY <1>1 DEF Plan
  <2> QED
    BY <1>1, <2>1 DEF ReadOps
<1>2. CASE q.op = "authenticate"
  <2>1. Plan(q) = <<"session", "holder">>
    BY <1>2 DEF Plan
  <2> QED
    BY <1>2, <2>1 DEF ReadOps
<1>3. CASE q.op = "logout"
  <2>1. Plan(q) = <<"own_session">>
    BY <1>3 DEF Plan
  <2> QED
    BY <1>3, <2>1 DEF ReadOps
<1>4. CASE q.op = "issue"
  <2>1. Plan(q) = <<"recipient", "open">>
    BY <1>4 DEF Plan
  <2> QED
    BY <1>4, <2>1 DEF ReadOps
<1>5. CASE q.op = "invalidate"
  <2>1. Plan(q) = <<"own_challenge">>
    BY <1>5 DEF Plan
  <2> QED
    BY <1>5, <2>1 DEF ReadOps
<1>6. CASE q.op = "consume"
  <2>1. Plan(q) = <<"challenge", "candidate">>
    BY <1>6 DEF Plan
  <2> QED
    BY <1>6, <2>1 DEF ReadOps
<1>7. CASE q.op = "exchange"
  <2>1. Plan(q) = <<"bearer">>
    BY <1>7 DEF Plan
  <2> QED
    BY <1>7, <2>1 DEF ReadOps
<1>8. CASE q.op = "register"
  <2>1. Plan(q) = <<"registrant">>
    BY <1>8 DEF Plan
  <2> QED
    BY <1>8, <2>1 DEF ReadOps
<1>9. CASE q.op = "login"
  <2>1. Plan(q) = <<"credential">>
    BY <1>9 DEF Plan
  <2> QED
    BY <1>9, <2>1 DEF ReadOps
<1>10. CASE q.op = "reset"
  <2>1. Plan(q) = <<"administrator", "target", "passkeys", "challenges", "sessions">>
    BY <1>10 DEF Plan
  <2> QED
    BY <1>10, <2>1 DEF ReadOps
<1>11. CASE q.op = "create"
  <2>1. Plan(q) = <<"activity", "administrator", "emails">>
    BY <1>11 DEF Plan
  <2> QED
    BY <1>11, <2>1 DEF ReadOps
<1>12. CASE q.op = "update"
  <2>1. Plan(q) = <<"administrator", "target", "emails">>
    BY <1>12 DEF Plan
  <2> QED
    BY <1>12, <2>1 DEF ReadOps
<1>13. CASE q.op = "grant"
  <2>1. Plan(q) = <<"administrator", "domain", "target">>
    BY <1>13 DEF Plan
  <2> QED
    BY <1>13, <2>1 DEF ReadOps
<1>14. CASE q.op = "ungrant"
  <2>1. Plan(q) = <<"administrator", "domain", "grant">>
    BY <1>14 DEF Plan
  <2> QED
    BY <1>14, <2>1 DEF ReadOps
<1>15. CASE q.op = "domain"
  <2>1. Plan(q) = <<"administrator", "domain">>
    BY <1>15 DEF Plan
  <2> QED
    BY <1>15, <2>1 DEF ReadOps
<1>16. CASE q.op = "revoke_all"
  <2>1. Plan(q) = <<"activity", "administrator", "target", "sessions">>
    BY <1>16 DEF Plan
  <2> QED
    BY <1>16, <2>1 DEF ReadOps
<1>17. CASE q.op = "revoke"
  <2>1. Plan(q) = <<"activity", "administrator", "target", "victim">>
    BY <1>17 DEF Plan
  <2> QED
    BY <1>17, <2>1 DEF ReadOps
<1>18. CASE q.op = "status" /\ q.status = "active"
  <2>1. Plan(q) = <<"administrator", "target">>
    BY <1>18 DEF Plan
  <2> QED
    BY <1>18, <2>1 DEF ReadOps
<1>19. CASE q.op = "status" /\ q.status # "active"
  <2>1. Plan(q) = <<"administrator", "target", "challenges", "sessions", "passkeys">>
    BY <1>19 DEF Plan
  <2> QED
    BY <1>19, <2>1 DEF ReadOps
<1>20. CASE q.op \in ReadOps
  <2>1. Plan(q) = <<>>
    BY <1>20 DEF Plan, ReadOps
  <2> QED
    BY <1>20, <2>1 DEF ReadOps
<1> QED
  BY <1>1, <1>2, <1>3, <1>4, <1>5, <1>6, <1>7, <1>8, <1>9, <1>10, <1>11, <1>12, <1>13, <1>14, <1>15, <1>16, <1>17, <1>18, <1>19, <1>20, RequestTypes DEF AdminOps

\* Statements a call has come to, and what their place in a plan says.
Reached(k, t) ==
  \E i \in 1 .. Len(Plan(request[t])) : Plan(request[t])[i] = k /\ i <= at[t]

Prior(k, t) ==
  LET op == request[t].op
  IN  /\ k = "session" => op = "authenticate"
      /\ k = "holder" => op = "authenticate" /\ Passed("session", t)
      /\ k = "own_session" => op = "logout"
      /\ k = "recipient" => op = "issue"
      /\ k = "open" => op = "issue" /\ Passed("recipient", t)
      /\ k = "own_challenge" => op = "invalidate"
      /\ k = "challenge" => op = "consume"
      /\ k = "candidate" => op = "consume" /\ Passed("challenge", t)
      /\ k = "bearer" => op = "exchange"
      /\ k = "registrant" => op = "register"
      /\ k = "credential" => op = "login"
      /\ k = "owner" => op = "bootstrap"
      /\ k = "emails" => op \in {"bootstrap", "create", "update"}
      /\ k = "emails" /\ op = "bootstrap" => Passed("owner", t)
      /\ k = "emails" /\ op = "update" => Passed("target", t)
      /\ k \in {"activity", "administrator", "target", "domain", "grant"} => op \in AdminOps
      /\ k = "emails" /\ op # "bootstrap" => op \in AdminOps /\ Passed("administrator", t)
      /\ k \in {"target", "domain", "grant"} => Passed("administrator", t)
      /\ k = "target" => op \notin {"create", "ungrant", "domain"}
      /\ k = "domain" => op \in {"grant", "ungrant", "domain"}
      /\ k = "grant" => op = "ungrant" /\ Passed("domain", t)
      /\ k \in {"challenges", "passkeys"} => op \in {"status", "reset"}
      /\ k \in {"challenges", "passkeys"} /\ op = "status" => request[t].status # "active"
      /\ k = "sessions" => op \in {"status", "reset", "revoke_all"}
      /\ k = "victim" => op = "revoke"
      /\ k \in {"challenges", "sessions", "passkeys", "victim"} =>
           Passed("administrator", t) /\ Passed("target", t)
      /\ k \in {"owner", "emails", "session", "holder", "own_session", "recipient", "open",
                "own_challenge", "challenge", "candidate", "bearer", "registrant",
                "credential", "activity", "administrator", "target", "domain", "grant",
                "challenges", "sessions", "passkeys", "victim"}

LEMMA Reached1 ==
  ASSUME NEW t \in Calls, NEW k, Reached(k, t), at[t] \in 1 .. 5,
         NEW a, Plan(request[t]) = <<a>>
  PROVE  k = a
  BY DEF Reached

LEMMA Reached2 ==
  ASSUME NEW t \in Calls, NEW k, Reached(k, t), at[t] \in 1 .. 5,
         NEW a, NEW b, Plan(request[t]) = <<a, b>>
  PROVE  \/ k = a
         \/ k = b /\ Passed(a, t)
<1>1. PICK i \in 1 .. 2 : <<a, b>>[i] = k /\ i <= at[t]
  BY DEF Reached
<1>2. i > 1 => Passed(a, t)
  BY <1>1 DEF Passed
<1>3. (i = 1 /\ k = a) \/ (i = 2 /\ k = b)
  BY <1>1
<1> QED
  BY <1>2, <1>3

LEMMA Reached3 ==
  ASSUME NEW t \in Calls, NEW k, Reached(k, t), at[t] \in 1 .. 5,
         NEW a, NEW b, NEW c, Plan(request[t]) = <<a, b, c>>
  PROVE  \/ k = a
         \/ k = b /\ Passed(a, t)
         \/ k = c /\ Passed(a, t) /\ Passed(b, t)
<1>1. PICK i \in 1 .. 3 : <<a, b, c>>[i] = k /\ i <= at[t]
  BY DEF Reached
<1>2. i > 1 => Passed(a, t)
  BY <1>1 DEF Passed
<1>3. i > 2 => Passed(b, t)
  BY <1>1 DEF Passed
<1>4. (i = 1 /\ k = a) \/ (i = 2 /\ k = b) \/ (i = 3 /\ k = c)
  BY <1>1
<1> QED
  BY <1>2, <1>3, <1>4

LEMMA Reached4 ==
  ASSUME NEW t \in Calls, NEW k, Reached(k, t), at[t] \in 1 .. 5,
         NEW a, NEW b, NEW c, NEW d, Plan(request[t]) = <<a, b, c, d>>
  PROVE  \/ k = a
         \/ k = b /\ Passed(a, t)
         \/ k = c /\ Passed(a, t) /\ Passed(b, t)
         \/ k = d /\ Passed(a, t) /\ Passed(b, t) /\ Passed(c, t)
<1>1. PICK i \in 1 .. 4 : <<a, b, c, d>>[i] = k /\ i <= at[t]
  BY DEF Reached
<1>2. i > 1 => Passed(a, t)
  BY <1>1 DEF Passed
<1>3. i > 2 => Passed(b, t)
  BY <1>1 DEF Passed
<1>4. i > 3 => Passed(c, t)
  BY <1>1 DEF Passed
<1>5. (i = 1 /\ k = a) \/ (i = 2 /\ k = b) \/ (i = 3 /\ k = c) \/ (i = 4 /\ k = d)
  BY <1>1
<1> QED
  BY <1>2, <1>3, <1>4, <1>5

LEMMA Reached5 ==
  ASSUME NEW t \in Calls, NEW k, Reached(k, t), at[t] \in 1 .. 5,
         NEW a, NEW b, NEW c, NEW d, NEW e, Plan(request[t]) = <<a, b, c, d, e>>
  PROVE  \/ k = a
         \/ k = b /\ Passed(a, t)
         \/ k = c /\ Passed(a, t) /\ Passed(b, t)
         \/ k = d /\ Passed(a, t) /\ Passed(b, t) /\ Passed(c, t)
         \/ k = e /\ Passed(a, t) /\ Passed(b, t) /\ Passed(c, t) /\ Passed(d, t)
<1>1. PICK i \in 1 .. 5 : <<a, b, c, d, e>>[i] = k /\ i <= at[t]
  BY DEF Reached
<1>2. i > 1 => Passed(a, t)
  BY <1>1 DEF Passed
<1>3. i > 2 => Passed(b, t)
  BY <1>1 DEF Passed
<1>4. i > 3 => Passed(c, t)
  BY <1>1 DEF Passed
<1>5. i > 4 => Passed(d, t)
  BY <1>1 DEF Passed
<1>6. (i = 1 /\ k = a) \/ (i = 2 /\ k = b) \/ (i = 3 /\ k = c) \/ (i = 4 /\ k = d) \/ (i = 5 /\ k = e)
  BY <1>1
<1> QED
  BY <1>2, <1>3, <1>4, <1>5, <1>6

LEMMA Order ==
  ASSUME NEW t \in Calls, request[t] \in Requests, at[t] \in 1 .. 5, NEW k, Reached(k, t)
  PROVE  Prior(k, t)
<1>1. CASE request[t].op = "bootstrap"
  <2>1. Plan(request[t]) = <<"owner", "emails">>
    BY <1>1 DEF Plan
  <2>2. k = "owner" \/ (k = "emails" /\ Passed("owner", t))
    BY <2>1, Reached2
  <2> QED
    BY <1>1, <2>2 DEF AdminOps, Prior
<1>2. CASE request[t].op = "authenticate"
  <2>1. Plan(request[t]) = <<"session", "holder">>
    BY <1>2 DEF Plan
  <2>2. k = "session" \/ (k = "holder" /\ Passed("session", t))
    BY <2>1, Reached2
  <2> QED
    BY <1>2, <2>2 DEF AdminOps, Prior
<1>3. CASE request[t].op = "logout"
  <2>1. Plan(request[t]) = <<"own_session">>
    BY <1>3 DEF Plan
  <2>2. k = "own_session"
    BY <2>1, Reached1
  <2> QED
    BY <1>3, <2>2 DEF AdminOps, Prior
<1>4. CASE request[t].op = "issue"
  <2>1. Plan(request[t]) = <<"recipient", "open">>
    BY <1>4 DEF Plan
  <2>2. k = "recipient" \/ (k = "open" /\ Passed("recipient", t))
    BY <2>1, Reached2
  <2> QED
    BY <1>4, <2>2 DEF AdminOps, Prior
<1>5. CASE request[t].op = "invalidate"
  <2>1. Plan(request[t]) = <<"own_challenge">>
    BY <1>5 DEF Plan
  <2>2. k = "own_challenge"
    BY <2>1, Reached1
  <2> QED
    BY <1>5, <2>2 DEF AdminOps, Prior
<1>6. CASE request[t].op = "consume"
  <2>1. Plan(request[t]) = <<"challenge", "candidate">>
    BY <1>6 DEF Plan
  <2>2. k = "challenge" \/ (k = "candidate" /\ Passed("challenge", t))
    BY <2>1, Reached2
  <2> QED
    BY <1>6, <2>2 DEF AdminOps, Prior
<1>7. CASE request[t].op = "exchange"
  <2>1. Plan(request[t]) = <<"bearer">>
    BY <1>7 DEF Plan
  <2>2. k = "bearer"
    BY <2>1, Reached1
  <2> QED
    BY <1>7, <2>2 DEF AdminOps, Prior
<1>8. CASE request[t].op = "register"
  <2>1. Plan(request[t]) = <<"registrant">>
    BY <1>8 DEF Plan
  <2>2. k = "registrant"
    BY <2>1, Reached1
  <2> QED
    BY <1>8, <2>2 DEF AdminOps, Prior
<1>9. CASE request[t].op = "login"
  <2>1. Plan(request[t]) = <<"credential">>
    BY <1>9 DEF Plan
  <2>2. k = "credential"
    BY <2>1, Reached1
  <2> QED
    BY <1>9, <2>2 DEF AdminOps, Prior
<1>10. CASE request[t].op = "reset"
  <2>1. Plan(request[t]) = <<"administrator", "target", "passkeys", "challenges", "sessions">>
    BY <1>10 DEF Plan
  <2>2. k = "administrator" \/ (k = "target" /\ Passed("administrator", t)) \/ (k = "passkeys" /\ Passed("administrator", t) /\ Passed("target", t)) \/ (k = "challenges" /\ Passed("administrator", t) /\ Passed("target", t) /\ Passed("passkeys", t)) \/ (k = "sessions" /\ Passed("administrator", t) /\ Passed("target", t) /\ Passed("passkeys", t) /\ Passed("challenges", t))
    BY <2>1, Reached5
  <2> QED
    BY <1>10, <2>2 DEF AdminOps, Prior
<1>11. CASE request[t].op = "create"
  <2>1. Plan(request[t]) = <<"activity", "administrator", "emails">>
    BY <1>11 DEF Plan
  <2>2. k = "activity" \/ (k = "administrator" /\ Passed("activity", t)) \/ (k = "emails" /\ Passed("activity", t) /\ Passed("administrator", t))
    BY <2>1, Reached3
  <2> QED
    BY <1>11, <2>2 DEF AdminOps, Prior
<1>12. CASE request[t].op = "update"
  <2>1. Plan(request[t]) = <<"administrator", "target", "emails">>
    BY <1>12 DEF Plan
  <2>2. k = "administrator" \/ (k = "target" /\ Passed("administrator", t)) \/ (k = "emails" /\ Passed("administrator", t) /\ Passed("target", t))
    BY <2>1, Reached3
  <2> QED
    BY <1>12, <2>2 DEF AdminOps, Prior
<1>13. CASE request[t].op = "grant"
  <2>1. Plan(request[t]) = <<"administrator", "domain", "target">>
    BY <1>13 DEF Plan
  <2>2. k = "administrator" \/ (k = "domain" /\ Passed("administrator", t)) \/ (k = "target" /\ Passed("administrator", t) /\ Passed("domain", t))
    BY <2>1, Reached3
  <2> QED
    BY <1>13, <2>2 DEF AdminOps, Prior
<1>14. CASE request[t].op = "ungrant"
  <2>1. Plan(request[t]) = <<"administrator", "domain", "grant">>
    BY <1>14 DEF Plan
  <2>2. k = "administrator" \/ (k = "domain" /\ Passed("administrator", t)) \/ (k = "grant" /\ Passed("administrator", t) /\ Passed("domain", t))
    BY <2>1, Reached3
  <2> QED
    BY <1>14, <2>2 DEF AdminOps, Prior
<1>15. CASE request[t].op = "domain"
  <2>1. Plan(request[t]) = <<"administrator", "domain">>
    BY <1>15 DEF Plan
  <2>2. k = "administrator" \/ (k = "domain" /\ Passed("administrator", t))
    BY <2>1, Reached2
  <2> QED
    BY <1>15, <2>2 DEF AdminOps, Prior
<1>16. CASE request[t].op = "revoke_all"
  <2>1. Plan(request[t]) = <<"activity", "administrator", "target", "sessions">>
    BY <1>16 DEF Plan
  <2>2. k = "activity" \/ (k = "administrator" /\ Passed("activity", t)) \/ (k = "target" /\ Passed("activity", t) /\ Passed("administrator", t)) \/ (k = "sessions" /\ Passed("activity", t) /\ Passed("administrator", t) /\ Passed("target", t))
    BY <2>1, Reached4
  <2> QED
    BY <1>16, <2>2 DEF AdminOps, Prior
<1>17. CASE request[t].op = "revoke"
  <2>1. Plan(request[t]) = <<"activity", "administrator", "target", "victim">>
    BY <1>17 DEF Plan
  <2>2. k = "activity" \/ (k = "administrator" /\ Passed("activity", t)) \/ (k = "target" /\ Passed("activity", t) /\ Passed("administrator", t)) \/ (k = "victim" /\ Passed("activity", t) /\ Passed("administrator", t) /\ Passed("target", t))
    BY <2>1, Reached4
  <2> QED
    BY <1>17, <2>2 DEF AdminOps, Prior
<1>18. CASE request[t].op = "status" /\ request[t].status = "active"
  <2>1. Plan(request[t]) = <<"administrator", "target">>
    BY <1>18 DEF Plan
  <2>2. k = "administrator" \/ (k = "target" /\ Passed("administrator", t))
    BY <2>1, Reached2
  <2> QED
    BY <1>18, <2>2 DEF AdminOps, Prior
<1>19. CASE request[t].op = "status" /\ request[t].status # "active"
  <2>1. Plan(request[t]) = <<"administrator", "target", "challenges", "sessions", "passkeys">>
    BY <1>19 DEF Plan
  <2>2. k = "administrator" \/ (k = "target" /\ Passed("administrator", t)) \/ (k = "challenges" /\ Passed("administrator", t) /\ Passed("target", t)) \/ (k = "sessions" /\ Passed("administrator", t) /\ Passed("target", t) /\ Passed("challenges", t)) \/ (k = "passkeys" /\ Passed("administrator", t) /\ Passed("target", t) /\ Passed("challenges", t) /\ Passed("sessions", t))
    BY <2>1, Reached5
  <2> QED
    BY <1>19, <2>2 DEF AdminOps, Prior
<1>20. CASE request[t].op \in ReadOps
  <2>1. Plan(request[t]) = <<>>
    BY <1>20 DEF Plan, ReadOps
  <2> QED
    BY <1>20, <2>1 DEF Reached
<1> QED
  BY <1>1, <1>2, <1>3, <1>4, <1>5, <1>6, <1>7, <1>8, <1>9, <1>10, <1>11, <1>12, <1>13, <1>14, <1>15, <1>16, <1>17, <1>18, <1>19, <1>20, RequestTypes DEF AdminOps

LEMMA Reaching ==
  ASSUME NEW t \in Calls, TypeOK, ControlOK(t), NEW k
  PROVE  /\ Begun(k, t) => Reached(k, t)
         /\ Passed(k, t) => Begun(k, t)
         /\ request[t].op \notin ReadOps /\ k = Statement(t) => Reached(k, t)
         /\ stage[t] \in {"locking", "ending"} /\ k = Statement(t) => Begun(k, t)
<1>1. at[t] \in 1 .. 5
  BY DEF TypeOK
<1>2. Len(Plan(request[t])) \in 0 .. 5
  BY PlanLength DEF TypeOK
<1> QED
  BY <1>1, <1>2 DEF Begun, Passed, Reached, Statement, ControlOK

LEMMA RowOf ==
  /\ \A a \in Accounts :
       <<"account", a>> \in Row /\ <<"domain", a>> \in Row /\ <<"grant", a>> \in Row
  /\ \A s \in Sessions : <<"session", s>> \in Row
  /\ \A c \in Challenges : <<"challenge", c>> \in Row
  /\ \A p \in Passkeys : <<"passkey", p>> \in Row
  /\ \A e \in Emails : <<"email", e>> \in Row
  /\ <<"owner", Owner>> \in Row
  BY DEF Row

LEMMA RowShape ==
  ASSUME NEW x \in Row
  PROVE  /\ x = <<x[1], x[2]>>
         /\ x[1] \in {"account", "domain", "grant"} => x[2] \in Accounts
         /\ x[1] = "session" => x[2] \in Sessions
         /\ x[1] = "challenge" => x[2] \in Challenges
         /\ x[1] = "passkey" => x[2] \in Passkeys
         /\ x[1] = "email" => x[2] \in Emails
         /\ x[1] = "owner" => x[2] = Owner
  BY DEF Row

LEMMA HeldOfType ==
  ASSUME NEW t \in Calls, held \in [Calls -> SUBSET Row], NEW kind, NEW x
  PROVE  x \in HeldOf(t, kind) <=> <<kind, x>> \in held[t]
  BY RowShape DEF HeldOf

LEMMA SelectedRows ==
  ASSUME NEW t \in Calls
  PROVE  /\ Selected("owner", t) = {<<"owner", Owner>>}
         /\ Selected("emails", t) =
              IF request[t].op # "update" THEN {<<"email", request[t].email>>}
               ELSE {"email"} \X ({request[t].email, accounts[request[t].account].email} \
                      ({request[t].email} \cap {accounts[request[t].account].email}))
         /\ Selected("session", t) = {<<"session", request[t].session>>}
         /\ Selected("own_session", t) = {<<"session", request[t].session>>}
         /\ Selected("holder", t) =
              {<<"account", sessions[request[t].session].account>>}
         /\ Selected("open", t) =
              {"challenge"} \X UNION {OpenOf(a) : a \in HeldOf(t, "account")}
         /\ Selected("challenge", t) = {<<"challenge", request[t].challenge>>}
         /\ Selected("own_challenge", t) = {<<"challenge", request[t].challenge>>}
         /\ Selected("candidate", t) =
              {<<"account", challenges[request[t].challenge].account>>}
         /\ Selected("bearer", t) = {<<"account", request[t].account>>}
         /\ Selected("target", t) = {<<"account", request[t].account>>}
         /\ Selected("registrant", t) =
              {<<"session", request[t].session>>,
                <<"account", sessions[request[t].session].account>>}
         /\ Selected("credential", t) =
              {<<"passkey", request[t].passkey>>,
                <<"account", passkeys[request[t].passkey].account>>}
         /\ Selected("administrator", t) =
              {<<"session", request[t].session>>,
                <<"account", sessions[request[t].session].account>>,
                <<"grant", sessions[request[t].session].account>>}
         /\ Selected("domain", t) = {<<"domain", request[t].account>>}
         /\ Selected("grant", t) =
              IF request[t].grant = Admin THEN {<<"grant", request[t].account>>} ELSE {}
         /\ Selected("challenges", t) = {"challenge"} \X OpenOf(request[t].account)
         /\ Selected("sessions", t) = {"session"} \X KeptOf(request[t].account)
         /\ Selected("passkeys", t) = {"passkey"} \X UsableOf(request[t].account)
         /\ Selected("victim", t) =
              {"session"} \X (KeptOf(request[t].account) \cap {request[t].victim})
<1>1. Selected("owner", t) = {<<"owner", Owner>>}
  BY DEF Selected, ChallengeOf, AccountOf, HolderOf
<1>2. Selected("emails", t) =
         IF request[t].op # "update" THEN {<<"email", request[t].email>>}
               ELSE {"email"} \X ({request[t].email, accounts[request[t].account].email} \
                      ({request[t].email} \cap {accounts[request[t].account].email}))
  BY DEF Selected, ChallengeOf, AccountOf, HolderOf
<1>3. Selected("session", t) = {<<"session", request[t].session>>}
  BY DEF Selected, ChallengeOf, AccountOf, HolderOf
<1>4. Selected("own_session", t) = {<<"session", request[t].session>>}
  BY DEF Selected, ChallengeOf, AccountOf, HolderOf
<1>5. Selected("holder", t) =
         {<<"account", sessions[request[t].session].account>>}
  BY DEF Selected, ChallengeOf, AccountOf, HolderOf
<1>6. Selected("open", t) =
         {"challenge"} \X UNION {OpenOf(a) : a \in HeldOf(t, "account")}
  BY DEF Selected, ChallengeOf, AccountOf, HolderOf
<1>7. Selected("challenge", t) = {<<"challenge", request[t].challenge>>}
  BY DEF Selected, ChallengeOf, AccountOf, HolderOf
<1>8. Selected("own_challenge", t) = {<<"challenge", request[t].challenge>>}
  BY DEF Selected, ChallengeOf, AccountOf, HolderOf
<1>9. Selected("candidate", t) =
         {<<"account", challenges[request[t].challenge].account>>}
  BY DEF Selected, ChallengeOf, AccountOf, HolderOf
<1>10. Selected("bearer", t) = {<<"account", request[t].account>>}
  BY DEF Selected, ChallengeOf, AccountOf, HolderOf
<1>11. Selected("target", t) = {<<"account", request[t].account>>}
  BY DEF Selected, ChallengeOf, AccountOf, HolderOf
<1>12. Selected("registrant", t) =
         {<<"session", request[t].session>>,
                <<"account", sessions[request[t].session].account>>}
  BY DEF Selected, ChallengeOf, AccountOf, HolderOf
<1>13. Selected("credential", t) =
         {<<"passkey", request[t].passkey>>,
                <<"account", passkeys[request[t].passkey].account>>}
  BY DEF Selected, ChallengeOf, AccountOf, HolderOf
<1>14. Selected("administrator", t) =
         {<<"session", request[t].session>>,
                <<"account", sessions[request[t].session].account>>,
                <<"grant", sessions[request[t].session].account>>}
  BY DEF Selected, ChallengeOf, AccountOf, HolderOf
<1>15. Selected("domain", t) = {<<"domain", request[t].account>>}
  BY DEF Selected, ChallengeOf, AccountOf, HolderOf
<1>16. Selected("grant", t) =
         IF request[t].grant = Admin THEN {<<"grant", request[t].account>>} ELSE {}
  BY DEF Selected, ChallengeOf, AccountOf, HolderOf
<1>17. Selected("challenges", t) = {"challenge"} \X OpenOf(request[t].account)
  BY DEF Selected, ChallengeOf, AccountOf, HolderOf
<1>18. Selected("sessions", t) = {"session"} \X KeptOf(request[t].account)
  BY DEF Selected, ChallengeOf, AccountOf, HolderOf
<1>19. Selected("passkeys", t) = {"passkey"} \X UsableOf(request[t].account)
  BY DEF Selected, ChallengeOf, AccountOf, HolderOf
<1>20. Selected("victim", t) =
         {"session"} \X (KeptOf(request[t].account) \cap {request[t].victim})
  BY DEF Selected, ChallengeOf, AccountOf, HolderOf
<1> QED
  BY <1>1, <1>2, <1>3, <1>4, <1>5, <1>6, <1>7, <1>8, <1>9, <1>10, <1>11, <1>12, <1>13, <1>14, <1>15, <1>16, <1>17, <1>18, <1>19, <1>20

LEMMA SelectedType ==
  ASSUME TablesOK, NEW t \in Calls, request[t] \in Requests, held \in [Calls -> SUBSET Row],
         NEW k, Prior(k, t), Seen(k, t), \A j : Passed(j, t) => Seen(j, t)
  PROVE  Selected(k, t) \subseteq Row
<1> DEFINE q == request[t]
<1> USE TableTypes, RequestTypes
<1>1. CASE k = "owner"
  <2>1. Selected(k, t) = {<<"owner", Owner>>}
    BY <1>1 DEF Selected
  <2> QED
    BY <2>1, RowOf
<1>2. CASE k = "emails"
  <2>1. Selected(k, t) = IF q.op # "update" THEN {<<"email", q.email>>}
             ELSE {"email"} \X ({q.email, accounts[q.account].email} \
                                  ({q.email} \cap {accounts[q.account].email}))
    BY <1>2 DEF Selected
  <2>2. q.email \in Emails
    BY <1>2 DEF Prior
  <2>3. q.op = "update" => accounts[q.account].email \in Emails
    BY <1>2 DEF Prior, Seen
  <2> QED
    BY <2>1, <2>2, <2>3, RowOf
<1>3. CASE k \in {"session", "own_session"}
  <2>1. Selected(k, t) = {<<"session", q.session>>}
    BY <1>3 DEF Selected
  <2> QED
    BY <1>3, <2>1, RowOf DEF Seen
<1>4. CASE k = "holder"
  <2>1. Selected(k, t) = {<<"account", sessions[q.session].account>>}
    BY <1>4 DEF Selected
  <2> QED
    BY <1>4, <2>1, RowOf DEF Seen, Prior
<1>5. CASE k = "recipient"
  <2>1. Selected(k, t) = {"account"} \X ActiveRecipient(q.email)
    BY <1>5 DEF Selected
  <2>2. ASSUME NEW x \in Selected(k, t)
        PROVE  x \in Row
    <3>1. PICK a \in ActiveRecipient(q.email) : x = <<"account", a>>
      BY <2>1, <2>2
    <3> QED
      BY <3>1, RowOf DEF ActiveRecipient, Recipient
  <2> QED
    BY <2>2
<1>6. CASE k = "open"
  <2>1. Selected(k, t) = {"challenge"} \X UNION {OpenOf(a) : a \in HeldOf(t, "account")}
    BY <1>6 DEF Selected
  <2> QED
    BY <2>1, RowOf DEF OpenOf
<1>7. CASE k \in {"challenge", "own_challenge"}
  <2>1. Selected(k, t) = {<<"challenge", q.challenge>>}
    BY <1>7 DEF Selected, ChallengeOf
  <2> QED
    BY <1>7, <2>1, RowOf DEF Seen
<1>8. CASE k = "candidate"
  <2>1. Selected(k, t) = {<<"account", challenges[q.challenge].account>>}
    BY <1>8 DEF Selected
  <2> QED
    BY <1>8, <2>1, RowOf DEF Seen, Prior
<1>9. CASE k \in {"bearer", "target"}
  <2>1. Selected(k, t) = {<<"account", q.account>>}
    BY <1>9 DEF Selected, AccountOf
  <2> QED
    BY <1>9, <2>1, RowOf DEF Seen
<1>10. CASE k = "registrant"
  <2>1. Selected(k, t) = {<<"session", q.session>>, <<"account", sessions[q.session].account>>}
    BY <1>10 DEF Selected, HolderOf
  <2> QED
    BY <1>10, <2>1, RowOf DEF Seen
<1>11. CASE k = "credential"
  <2>1. Selected(k, t) =
          {<<"passkey", q.passkey>>, <<"account", passkeys[q.passkey].account>>}
    BY <1>11 DEF Selected
  <2> QED
    BY <1>11, <2>1, RowOf DEF Seen
<1>12. CASE k = "activity"
  <2>1. Selected(k, t) = IF Kept(q.session)
          THEN {<<"session", q.session>>, <<"account", sessions[q.session].account>>}
          ELSE {"session"} \X ({q.session} \cap DOMAIN sessions)
    BY <1>12 DEF Selected, HolderOf
  <2>2. CASE Kept(q.session)
    BY <2>1, <2>2, RowOf DEF Kept
  <2>3. CASE ~Kept(q.session)
    BY <2>1, <2>3, RowOf
  <2> QED
    BY <2>2, <2>3
<1>13. CASE k = "administrator"
  <2>1. Selected(k, t) = {<<"session", q.session>>, <<"account", sessions[q.session].account>>,
                          <<"grant", sessions[q.session].account>>}
    BY <1>13 DEF Selected, HolderOf
  <2> QED
    BY <1>13, <2>1, RowOf DEF Seen
<1>14. CASE k = "domain"
  <2>1. Selected(k, t) = {<<"domain", q.account>>}
    BY <1>14 DEF Selected
  <2> QED
    BY <1>14, <2>1, RowOf DEF Seen
<1>15. CASE k = "grant"
  <2>1. Selected(k, t) = IF q.grant = Admin THEN {<<"grant", q.account>>} ELSE {}
    BY <1>15 DEF Selected
  <2>2. q.account \in Accounts
    BY <1>15 DEF Prior, AdminOps
  <2> QED
    BY <2>1, <2>2, RowOf
<1>16. CASE k \in {"challenges", "sessions", "passkeys"}
  <2>1. /\ k = "challenges" => Selected(k, t) = {"challenge"} \X OpenOf(q.account)
        /\ k = "sessions" => Selected(k, t) = {"session"} \X KeptOf(q.account)
        /\ k = "passkeys" => Selected(k, t) = {"passkey"} \X UsableOf(q.account)
    BY <1>16 DEF Selected
  <2> QED
    BY <1>16, <2>1, RowOf DEF OpenOf, KeptOf, UsableOf
<1>17. CASE k = "victim"
  <2>1. Selected(k, t) = {"session"} \X (KeptOf(q.account) \cap {q.victim})
    BY <1>17 DEF Selected
  <2> QED
    BY <2>1, RowOf DEF KeptOf
<1> QED
  BY <1>1, <1>2, <1>3, <1>4, <1>5, <1>6, <1>7, <1>8, <1>9, <1>10, <1>11, <1>12, <1>13,
     <1>14, <1>15, <1>16, <1>17 DEF Prior

-----------------------------------------------------------------------------
(* The operators that change a table *)

LEMMA NewAccountRow ==
  ASSUME NEW e \in Emails, NEW g \in SUBSET Grants
  PROVE  /\ NewAccount(e, g) \in AccountRow
         /\ NewAccount(e, g).status = "active" /\ NewAccount(e, g).email = e
  BY DEF NewAccount, AccountRow, Domains

-----------------------------------------------------------------------------
(* What a change of a table may be *)

LEMMA KeepsAccounts ==
  ASSUME IInv, NEW u \in Calls, accounts' = accounts
  PROVE  EffectOnAccounts(u) /\ Deactivation
<1>1. Deactivation
  BY DEF Deactivation
<1>2. TablesOK /\ OneAccountPerEmail
  BY DEF IInv, TypeOK
<1> QED
  BY <1>1, <1>2 DEF TablesOK, EffectOnAccounts, OneAccountPerEmail

LEMMA KeepsChallenges ==
  ASSUME IInv, NEW u \in Calls, challenges' = challenges
  PROVE  EffectOnChallenges(u)
<1>1. TablesOK /\ GuessesAreLimited
  BY DEF IInv, TypeOK
<1> QED
  BY <1>1 DEF TablesOK, EffectOnChallenges, GuessesAreLimited

LEMMA KeepsSessions ==
  ASSUME IInv, NEW u \in Calls, sessions' = sessions
  PROVE  EffectOnSessions(u)
  BY DEF IInv, TypeOK, TablesOK, EffectOnSessions

LEMMA KeepsPasskeys ==
  ASSUME IInv, NEW u \in Calls, passkeys' = passkeys
  PROVE  EffectOnPasskeys(u)
  BY DEF IInv, TypeOK, TablesOK, EffectOnPasskeys

LEMMA InvalidatesChallenges ==
  ASSUME IInv, NEW u \in Calls, NEW C, challenges' = Invalidated(C),
         \A c \in C : Open(c) => <<"challenge", c>> \in held[u]
  PROVE  EffectOnChallenges(u)
<1>1. TablesOK /\ GuessesAreLimited
  BY DEF IInv, TypeOK
<1>2. DOMAIN challenges' = DOMAIN challenges /\ challenges' \in [DOMAIN challenges -> ChallengeRow]
  BY <1>1, InvalidatedChallenges
<1>3. \A c \in DOMAIN challenges :
        /\ challenges'[c].account = challenges[c].account
        /\ challenges'[c].issued = challenges[c].issued
        /\ challenges'[c].attempts = challenges[c].attempts
        /\ challenges'[c] # challenges[c] => <<"challenge", c>> \in held[u]
        /\ challenges[c].state # "open" => challenges'[c].state = challenges[c].state
  BY <1>1, InvalidatedChallenges DEF Open
<1>4. GuessesAreLimited'
  BY <1>1, <1>2, <1>3 DEF GuessesAreLimited
<1> QED
  BY <1>1, <1>2, <1>3, <1>4 DEF TablesOK, EffectOnChallenges

LEMMA RevokesSessions ==
  ASSUME IInv, NEW u \in Calls, NEW R, NEW S,
         R = sessions
           \/ \E s \in DOMAIN sessions, now \in Nat :
                R = Touched(s, now) /\ <<"session", s>> \in held[u],
         \A s \in S : Kept(s) => <<"session", s>> \in held[u],
         sessions' = Revoked(R, S) \/ (sessions' = R /\ S = {})
  PROVE  EffectOnSessions(u)
<1>1. TablesOK
  BY DEF IInv, TypeOK
<1>2. /\ DOMAIN R = DOMAIN sessions /\ R \in [DOMAIN sessions -> SessionRow]
      /\ \A x \in DOMAIN sessions :
           /\ R[x].account = sessions[x].account /\ R[x].proof = sessions[x].proof
           /\ R[x].revoked = sessions[x].revoked
           /\ R[x] # sessions[x] => <<"session", x>> \in held[u]
  <2>1. CASE R = sessions
    BY <1>1, <2>1 DEF TablesOK
  <2>2. CASE \E s \in DOMAIN sessions, now \in Nat :
               R = Touched(s, now) /\ <<"session", s>> \in held[u]
    <3>1. PICK s \in DOMAIN sessions, now \in Nat :
            R = Touched(s, now) /\ <<"session", s>> \in held[u]
      BY <2>2
    <3>2. DOMAIN R = DOMAIN sessions /\ R \in [DOMAIN sessions -> SessionRow]
      BY <1>1, <3>1, TouchedSessions
    <3>3. ASSUME NEW x \in DOMAIN sessions
          PROVE  /\ R[x].account = sessions[x].account /\ R[x].proof = sessions[x].proof
                 /\ R[x].revoked = sessions[x].revoked
                 /\ R[x] # sessions[x] => <<"session", x>> \in held[u]
      BY <1>1, <3>1, TouchedSessions
    <3> QED
      BY <3>2, <3>3
  <2> QED
    BY <2>1, <2>2
<1>3. \A x \in DOMAIN R : R[x] \in SessionRow
  BY <1>2
<1>4. DOMAIN sessions' = DOMAIN sessions /\ sessions' \in [DOMAIN sessions -> SessionRow]
  BY <1>2, <1>3, RevokedSession
<1>5. ASSUME NEW x \in DOMAIN sessions
      PROVE  /\ sessions'[x].account = sessions[x].account
             /\ sessions'[x].proof = sessions[x].proof
             /\ sessions'[x] # sessions[x] => <<"session", x>> \in held[u]
             /\ sessions[x].revoked => sessions'[x].revoked
  <2>1. CASE sessions' = R
    BY <1>2, <2>1
  <2>2. CASE sessions' = Revoked(R, S)
    <3>1. /\ sessions'[x].account = R[x].account /\ sessions'[x].proof = R[x].proof
          /\ x \notin S => sessions'[x] = R[x]
          /\ R[x].revoked => sessions'[x] = R[x]
      BY <1>2, <1>3, <2>2, RevokedSession
    <3> QED
      BY <1>2, <3>1 DEF Kept
  <2> QED
    BY <2>1, <2>2
<1> QED
  BY <1>1, <1>4, <1>5 DEF TablesOK, EffectOnSessions

LEMMA TouchesSession ==
  ASSUME IInv, NEW u \in Calls, NEW s \in DOMAIN sessions, NEW now \in Nat,
         sessions' = Touched(s, now), <<"session", s>> \in held[u]
  PROVE  EffectOnSessions(u)
<1>1. PICK R, S : R = Touched(s, now) /\ S = {}
  OBVIOUS
<1>2. \/ R = sessions
      \/ \E x \in DOMAIN sessions, n \in Nat : R = Touched(x, n) /\ <<"session", x>> \in held[u]
  BY <1>1
<1>3. \A x \in S : Kept(x) => <<"session", x>> \in held[u]
  BY <1>1
<1>4. sessions' = Revoked(R, S) \/ (sessions' = R /\ S = {})
  BY <1>1
<1> QED
  BY <1>2, <1>3, <1>4, RevokesSessions

LEMMA RevokesPasskeys ==
  ASSUME IInv, NEW u \in Calls, NEW S, passkeys' = Revoked(passkeys, S),
         \A p \in S : Usable(p) => <<"passkey", p>> \in held[u]
  PROVE  EffectOnPasskeys(u)
<1>1. TablesOK
  BY DEF IInv, TypeOK
<1>2. DOMAIN passkeys' = DOMAIN passkeys /\ passkeys' \in [DOMAIN passkeys -> PasskeyRow]
  BY <1>1, RevokedPasskey
<1>3. \A p \in DOMAIN passkeys :
        /\ passkeys'[p].account = passkeys[p].account
        /\ passkeys'[p] # passkeys[p] => <<"passkey", p>> \in held[u]
        /\ passkeys[p].revoked => passkeys'[p].revoked
  BY <1>1, RevokedPasskey DEF Usable
<1> QED
  BY <1>1, <1>2, <1>3 DEF TablesOK, EffectOnPasskeys

LEMMA AddsSession ==
  ASSUME IInv, NEW u \in Calls, NEW s, NEW a \in Accounts, NEW proof \in Proofs, NEW now \in Nat,
         sessions' = Stored(sessions, s, NewSession(a, proof, now)),
         s \in Sessions, New(request[u]) = {<<"session", s>>}, s \notin DOMAIN sessions,
         <<"account", a>> \in held[u], Active(a), accounts' = accounts,
         proof.kind = "challenge" =>
           /\ proof.of \in DOMAIN challenges /\ challenges[proof.of].state = "open"
           /\ challenges'[proof.of].state = "used",
         proof.kind = "token" =>
           /\ request[u].op = "exchange" /\ request[u].token = proof.of
           /\ <<"account", request[u].account>> \in held[u] /\ ~Exchanged(proof.of)
  PROVE  EffectOnSessions(u)
<1>1. TablesOK
  BY DEF IInv, TypeOK
<1> DEFINE row == NewSession(a, proof, now)
<1>2. row \in SessionRow /\ row.account = a /\ row.proof = proof
  BY NewSessionRow
<1>3. /\ DOMAIN sessions' = DOMAIN sessions \cup {s}
      /\ sessions'[s] = row
      /\ \A x \in DOMAIN sessions : sessions'[x] = sessions[x]
      /\ sessions' = [x \in DOMAIN sessions' |-> sessions'[x]]
  <2>1. sessions' = Stored(sessions, s, row)
    OBVIOUS
  <2> HIDE DEF row
  <2> QED
    BY <2>1 DEF Stored
<1>4. \A x \in DOMAIN sessions' : sessions'[x] \in SessionRow
  BY <1>1, <1>2, <1>3, TableTypes
<1>5. DOMAIN sessions' \subseteq Sessions /\ sessions' \in [DOMAIN sessions' -> SessionRow]
  BY <1>1, <1>3, <1>4 DEF TablesOK
<1>6. ASSUME NEW x \in DOMAIN sessions' \ DOMAIN sessions
      PROVE  LET p == sessions'[x].proof
             IN  /\ <<"session", x>> \in New(request[u])
                 /\ <<"account", sessions'[x].account>> \in held[u]
                 /\ ActiveAfter(sessions'[x].account)
                 /\ p.kind = "challenge" =>
                      /\ p.of \in DOMAIN challenges /\ challenges[p.of].state = "open"
                      /\ challenges'[p.of].state = "used"
                 /\ p.kind = "token" =>
                      /\ request[u].op = "exchange" /\ request[u].token = p.of
                      /\ <<"account", request[u].account>> \in held[u] /\ ~Exchanged(p.of)
  <2>1. x = s /\ sessions'[x].account = a /\ sessions'[x].proof = proof
    BY <1>2, <1>3
  <2> QED
    BY <2>1 DEF ActiveAfter, Active
<1> QED
  BY <1>3, <1>5, <1>6 DEF EffectOnSessions

LEMMA AddsChallenge ==
  ASSUME IInv, NEW u \in Calls, NEW c \in Challenges, NEW a \in Accounts, NEW now \in Nat, NEW C,
         challenges' = Stored(Invalidated(C), c,
           [account |-> a, issued |-> now, expires |-> now + CodeLifetime,
            attempts |-> 0, state |-> "open"]),
         \A x \in C : Open(x) => <<"challenge", x>> \in held[u],
         <<"challenge", c>> \in New(request[u]), c \notin DOMAIN challenges,
         <<"account", a>> \in held[u], Active(a), accounts' = accounts
  PROVE  EffectOnChallenges(u)
<1>1. TablesOK /\ GuessesAreLimited
  BY DEF IInv, TypeOK
<1> DEFINE row == [account |-> a, issued |-> now, expires |-> now + CodeLifetime,
                   attempts |-> 0, state |-> "open"]
<1>2. row \in ChallengeRow /\ row.account = a /\ row.attempts = 0
  BY PolicyAssumption DEF ChallengeRow
<1>3. /\ DOMAIN challenges' = DOMAIN challenges \cup {c}
      /\ challenges'[c] = row
      /\ \A x \in DOMAIN challenges : challenges'[x] = Invalidated(C)[x]
      /\ challenges' = [x \in DOMAIN challenges' |-> challenges'[x]]
  <2> DEFINE D == Invalidated(C)
  <2>1. DOMAIN D = DOMAIN challenges
    BY <1>1, InvalidatedChallenges
  <2>2. challenges' = Stored(D, c, row)
    OBVIOUS
  <2> HIDE DEF row, D
  <2>3. /\ DOMAIN challenges' = DOMAIN challenges \cup {c}
        /\ challenges'[c] = row
        /\ \A x \in DOMAIN challenges : challenges'[x] = D[x]
        /\ challenges' = [x \in DOMAIN challenges' |-> challenges'[x]]
    BY <2>1, <2>2 DEF Stored
  <2> QED
    BY <2>3 DEF D
<1>4. \A x \in DOMAIN challenges :
        /\ challenges'[x] \in ChallengeRow
        /\ challenges'[x].account = challenges[x].account
        /\ challenges'[x].issued = challenges[x].issued
        /\ challenges'[x].attempts = challenges[x].attempts
        /\ challenges'[x] # challenges[x] => <<"challenge", x>> \in held[u]
        /\ challenges[x].state # "open" => challenges'[x].state = challenges[x].state
  <2> TAKE x \in DOMAIN challenges
  <2>1. challenges'[x] = Invalidated(C)[x]
    BY <1>3
  <2>2. Invalidated(C)[x] \in ChallengeRow
    BY <1>1, InvalidatedChallenges
  <2>3. /\ Invalidated(C)[x].account = challenges[x].account
        /\ Invalidated(C)[x].issued = challenges[x].issued
        /\ Invalidated(C)[x].attempts = challenges[x].attempts
        /\ x \notin C => Invalidated(C)[x] = challenges[x]
        /\ challenges[x].state # "open" => Invalidated(C)[x] = challenges[x]
    BY <1>1, InvalidatedChallenges
  <2> QED
    BY <2>1, <2>2, <2>3 DEF Open
<1>5. DOMAIN challenges' \subseteq Challenges /\ challenges' \in [DOMAIN challenges' -> ChallengeRow]
  BY <1>1, <1>2, <1>3, <1>4 DEF TablesOK
<1>6. \A x \in DOMAIN challenges' \ DOMAIN challenges :
        /\ <<"challenge", x>> \in New(request[u])
        /\ <<"account", challenges'[x].account>> \in held[u]
        /\ ActiveAfter(challenges'[x].account)
  BY <1>2, <1>3 DEF ActiveAfter, Active
<1>7. GuessesAreLimited'
  <2>1. \A x \in DOMAIN challenges : challenges'[x].attempts <= MaxAttempts
    BY <1>1, <1>4 DEF GuessesAreLimited
  <2>2. challenges'[c].attempts <= MaxAttempts
    BY <1>2, <1>3, PolicyAssumption
  <2> QED
    BY <1>3, <2>1, <2>2 DEF GuessesAreLimited
<1> QED
  BY <1>3, <1>4, <1>5, <1>6, <1>7 DEF EffectOnChallenges

LEMMA AddsPasskey ==
  ASSUME IInv, NEW u \in Calls, NEW p \in Passkeys, NEW row \in PasskeyRow,
         passkeys' = Stored(passkeys, p, row),
         <<"passkey", p>> \in New(request[u]), p \notin DOMAIN passkeys,
         <<"account", row.account>> \in held[u], Active(row.account), accounts' = accounts
  PROVE  EffectOnPasskeys(u)
<1>1. TablesOK
  BY DEF IInv, TypeOK
<1>2. /\ DOMAIN passkeys' = DOMAIN passkeys \cup {p}
      /\ passkeys'[p] = row
      /\ \A x \in DOMAIN passkeys : passkeys'[x] = passkeys[x]
      /\ passkeys' = [x \in DOMAIN passkeys' |-> passkeys'[x]]
  BY DEF Stored
<1>3. DOMAIN passkeys' \subseteq Passkeys /\ passkeys' \in [DOMAIN passkeys' -> PasskeyRow]
  BY <1>1, <1>2, TableTypes
<1> QED
  BY <1>2, <1>3 DEF EffectOnPasskeys, ActiveAfter, Active

LEMMA CountsLogin ==
  ASSUME IInv, NEW u \in Calls, NEW p \in DOMAIN passkeys, NEW n \in Nat,
         passkeys' = [passkeys EXCEPT ![p].count = n], <<"passkey", p>> \in held[u]
  PROVE  EffectOnPasskeys(u)
<1>1. TablesOK
  BY DEF IInv, TypeOK
<1>2. /\ DOMAIN passkeys' = DOMAIN passkeys
      /\ passkeys'[p] = [passkeys[p] EXCEPT !.count = n]
      /\ \A x \in DOMAIN passkeys \ {p} : passkeys'[x] = passkeys[x]
      /\ passkeys' = [x \in DOMAIN passkeys |-> passkeys'[x]]
  BY DEF PasskeyRow
<1>3. /\ passkeys'[p] \in PasskeyRow /\ passkeys'[p].account = passkeys[p].account
      /\ passkeys'[p].revoked = passkeys[p].revoked
  BY <1>1, <1>2, TableTypes DEF PasskeyRow
<1>4. passkeys' \in [DOMAIN passkeys -> PasskeyRow]
  BY <1>1, <1>2, <1>3, TableTypes
<1> QED
  BY <1>1, <1>2, <1>3, <1>4 DEF EffectOnPasskeys, TablesOK

LEMMA ChangesChallenge ==
  ASSUME IInv, NEW u \in Calls, NEW c \in DOMAIN challenges,
         challenges[c].state = "open", challenges[c].attempts < MaxAttempts,
         <<"challenge", c>> \in held[u],
         \/ challenges' = [challenges EXCEPT ![c].attempts = @ + 1]
         \/ challenges' = [challenges EXCEPT ![c].state = "used"]
  PROVE  EffectOnChallenges(u)
<1>1. TablesOK /\ GuessesAreLimited
  BY DEF IInv, TypeOK
<1>2. /\ DOMAIN challenges' = DOMAIN challenges
      /\ \/ challenges'[c] = [challenges[c] EXCEPT !.attempts = challenges[c].attempts + 1]
         \/ challenges'[c] = [challenges[c] EXCEPT !.state = "used"]
      /\ \A x \in DOMAIN challenges \ {c} : challenges'[x] = challenges[x]
      /\ challenges' = [x \in DOMAIN challenges |-> challenges'[x]]
  OBVIOUS
<1>3. ASSUME NEW r \in ChallengeRow
      PROVE  /\ [r EXCEPT !.attempts = r.attempts + 1] \in ChallengeRow
             /\ [r EXCEPT !.attempts = r.attempts + 1].account = r.account
             /\ [r EXCEPT !.attempts = r.attempts + 1].issued = r.issued
             /\ [r EXCEPT !.attempts = r.attempts + 1].attempts = r.attempts + 1
             /\ [r EXCEPT !.state = "used"] \in ChallengeRow
             /\ [r EXCEPT !.state = "used"].account = r.account
             /\ [r EXCEPT !.state = "used"].issued = r.issued
             /\ [r EXCEPT !.state = "used"].attempts = r.attempts
  BY DEF ChallengeRow
<1>4. /\ challenges'[c] \in ChallengeRow
      /\ challenges'[c].account = challenges[c].account
      /\ challenges'[c].issued = challenges[c].issued
      /\ challenges'[c].attempts <= MaxAttempts
  <2>1. challenges[c] \in ChallengeRow /\ challenges[c].attempts + 1 <= MaxAttempts
    BY <1>1, TableTypes, PolicyAssumption
  <2>2. CASE challenges'[c] = [challenges[c] EXCEPT !.attempts = challenges[c].attempts + 1]
    BY <1>3, <2>1, <2>2
  <2>3. CASE challenges'[c] = [challenges[c] EXCEPT !.state = "used"]
    <3>1. challenges'[c].attempts = challenges[c].attempts
      BY <1>3, <2>1, <2>3
    <3>2. challenges[c].attempts <= MaxAttempts
      BY <1>1 DEF GuessesAreLimited
    <3> QED
      BY <1>3, <2>1, <2>3, <3>1, <3>2
  <2> QED
    BY <1>2, <2>2, <2>3
<1>5. challenges' \in [DOMAIN challenges -> ChallengeRow]
  BY <1>1, <1>2, <1>4, TableTypes
<1>6. GuessesAreLimited'
  BY <1>1, <1>2, <1>4 DEF GuessesAreLimited
<1> QED
  BY <1>1, <1>2, <1>4, <1>5, <1>6 DEF EffectOnChallenges, TablesOK

LEMMA ChangesAccount ==
  ASSUME IInv, NEW u \in Calls, NEW a \in DOMAIN accounts, NEW r \in AccountRow,
         accounts' = [accounts EXCEPT ![a] = r],
         r.status # accounts[a].status => <<"account", a>> \in held[u],
         r.email # accounts[a].email =>
           /\ <<"account", a>> \in held[u] /\ <<"email", r.email>> \in held[u]
           /\ Recipient(r.email) \subseteq {a},
         Admin \in accounts[a].grants \ r.grants => <<"grant", a>> \in held[u],
         r.version # accounts[a].version => <<"domain", a>> \in held[u]
  PROVE  EffectOnAccounts(u)
<1>1. TablesOK /\ OneAccountPerEmail
  BY DEF IInv, TypeOK
<1>2. /\ DOMAIN accounts' = DOMAIN accounts
      /\ accounts'[a] = r
      /\ \A x \in DOMAIN accounts \ {a} : accounts'[x] = accounts[x]
      /\ accounts' = [x \in DOMAIN accounts |-> accounts'[x]]
  OBVIOUS
<1>3. accounts' \in [DOMAIN accounts -> AccountRow]
  BY <1>1, <1>2, TableTypes
<1>4. OneAccountPerEmail'
  BY <1>1, <1>2 DEF OneAccountPerEmail, Recipient
<1> QED
  BY <1>1, <1>2, <1>3, <1>4 DEF EffectOnAccounts, TablesOK

LEMMA AddsAccount ==
  ASSUME IInv, NEW u \in Calls, NEW a \in Accounts, NEW r \in AccountRow, a \notin DOMAIN accounts,
         accounts' = Stored(accounts, a, r), r.status = "active",
         <<"email", r.email>> \in held[u], Recipient(r.email) = {},
         IF a = Owner THEN <<"owner", Owner>> \in held[u] ELSE <<"account", a>> \in New(request[u])
  PROVE  EffectOnAccounts(u) /\ Deactivation
<1>1. TablesOK /\ OneAccountPerEmail
  BY DEF IInv, TypeOK
<1>2. /\ DOMAIN accounts' = DOMAIN accounts \cup {a}
      /\ accounts'[a] = r
      /\ \A x \in DOMAIN accounts : accounts'[x] = accounts[x]
      /\ accounts' = [x \in DOMAIN accounts' |-> accounts'[x]]
  BY DEF Stored
<1>3. DOMAIN accounts' \subseteq Accounts /\ accounts' \in [DOMAIN accounts' -> AccountRow]
  BY <1>1, <1>2, TableTypes
<1>4. OneAccountPerEmail'
  BY <1>1, <1>2 DEF OneAccountPerEmail, Recipient
<1>5. Deactivation
  BY <1>2 DEF Deactivation
<1> QED
  BY <1>2, <1>3, <1>4, <1>5 DEF EffectOnAccounts

-----------------------------------------------------------------------------
(* What a call that commits has found *)

Found(k, t) ==
  /\ Prior(k, t) /\ Seen(k, t) /\ Known(k, t)
  /\ k \notin {"recipient", "activity"} => Selected(k, t) \subseteq held[t]

LEMMA CommitFound ==
  ASSUME IInv, NEW t \in Calls, stage[t] = "ending", NEW k, Passed(k, t)
  PROVE  Found(k, t)
<1>1. TypeOK /\ ControlOK(t) /\ CallOK(t)
  BY DEF IInv
<1>2. Begun(k, t) /\ Reached(k, t)
  BY <1>1, Reaching
<1>3. Prior(k, t)
  BY <1>1, <1>2, Order DEF TypeOK
<1>4. Seen(k, t) /\ Covers(k, t) /\ Known(k, t)
  BY <1>1, <1>2 DEF CallOK
<1>5. rows[t] = {}
  BY <1>1 DEF ControlOK
<1> QED
  BY <1>3, <1>4, <1>5 DEF Found, Covers, Wanted

LEMMA CommitPassed ==
  ASSUME IInv, NEW t \in Calls, stage[t] = "ending", verdict[t] = "ok", NEW k,
         \E i \in 1 .. Len(Plan(request[t])) : Plan(request[t])[i] = k
  PROVE  Found(k, t)
<1>1. at[t] = Len(Plan(request[t])) /\ Len(Plan(request[t])) \in 0 .. 5
  BY PlanLength DEF IInv, ControlOK, TypeOK
<1>2. Passed(k, t)
  BY <1>1 DEF Passed
<1> QED
  BY <1>2, CommitFound

LEMMA AllFound ==
  ASSUME IInv, NEW t \in Calls, stage[t] = "ending", verdict[t] = "ok"
  PROVE  /\ request[t].op = "bootstrap" =>
              Found("owner", t) /\ Found("emails", t)
         /\ request[t].op = "authenticate" =>
              Found("session", t) /\ Found("holder", t)
         /\ request[t].op = "logout" =>
              Found("own_session", t)
         /\ request[t].op = "issue" =>
              Found("recipient", t) /\ Found("open", t)
         /\ request[t].op = "invalidate" =>
              Found("own_challenge", t)
         /\ request[t].op = "consume" =>
              Found("challenge", t) /\ Found("candidate", t)
         /\ request[t].op = "exchange" =>
              Found("bearer", t)
         /\ request[t].op = "register" =>
              Found("registrant", t)
         /\ request[t].op = "login" =>
              Found("credential", t)
         /\ request[t].op = "reset" =>
              /\ Found("administrator", t) /\ Found("target", t)
              /\ Found("passkeys", t) /\ Found("challenges", t) /\ Found("sessions", t)
         /\ request[t].op = "create" =>
              /\ Found("activity", t) /\ Found("administrator", t)
              /\ Found("emails", t)
         /\ request[t].op = "update" =>
              Found("administrator", t) /\ Found("target", t) /\ Found("emails", t)
         /\ request[t].op = "grant" =>
              Found("administrator", t) /\ Found("domain", t) /\ Found("target", t)
         /\ request[t].op = "ungrant" =>
              Found("administrator", t) /\ Found("domain", t) /\ Found("grant", t)
         /\ request[t].op = "domain" =>
              Found("administrator", t) /\ Found("domain", t)
         /\ request[t].op = "revoke_all" =>
              /\ Found("activity", t) /\ Found("administrator", t)
              /\ Found("target", t) /\ Found("sessions", t)
         /\ request[t].op = "revoke" =>
              /\ Found("activity", t) /\ Found("administrator", t)
              /\ Found("target", t) /\ Found("victim", t)
         /\ request[t].op = "status" /\ request[t].status = "active" =>
              Found("administrator", t) /\ Found("target", t)
         /\ request[t].op = "status" /\ request[t].status # "active" =>
              /\ Found("administrator", t) /\ Found("target", t)
              /\ Found("challenges", t) /\ Found("sessions", t) /\ Found("passkeys", t)
<1>1. ASSUME request[t].op = "bootstrap"
      PROVE  Found("owner", t) /\ Found("emails", t)
  <2>1. Plan(request[t]) = <<"owner", "emails">>
    BY <1>1 DEF Plan
  <2>2. Len(Plan(request[t])) = 2
    BY <2>1
  <2>3. /\ Plan(request[t])[1] = "owner"
        /\ Plan(request[t])[2] = "emails"
    BY <2>1
  <2> QED
    BY <2>2, <2>3, CommitPassed
<1>2. ASSUME request[t].op = "authenticate"
      PROVE  Found("session", t) /\ Found("holder", t)
  <2>1. Plan(request[t]) = <<"session", "holder">>
    BY <1>2 DEF Plan
  <2>2. Len(Plan(request[t])) = 2
    BY <2>1
  <2>3. /\ Plan(request[t])[1] = "session"
        /\ Plan(request[t])[2] = "holder"
    BY <2>1
  <2> QED
    BY <2>2, <2>3, CommitPassed
<1>3. ASSUME request[t].op = "logout"
      PROVE  Found("own_session", t)
  <2>1. Plan(request[t]) = <<"own_session">>
    BY <1>3 DEF Plan
  <2>2. Len(Plan(request[t])) = 1
    BY <2>1
  <2>3. /\ Plan(request[t])[1] = "own_session"
    BY <2>1
  <2> QED
    BY <2>2, <2>3, CommitPassed
<1>4. ASSUME request[t].op = "issue"
      PROVE  Found("recipient", t) /\ Found("open", t)
  <2>1. Plan(request[t]) = <<"recipient", "open">>
    BY <1>4 DEF Plan
  <2>2. Len(Plan(request[t])) = 2
    BY <2>1
  <2>3. /\ Plan(request[t])[1] = "recipient"
        /\ Plan(request[t])[2] = "open"
    BY <2>1
  <2> QED
    BY <2>2, <2>3, CommitPassed
<1>5. ASSUME request[t].op = "invalidate"
      PROVE  Found("own_challenge", t)
  <2>1. Plan(request[t]) = <<"own_challenge">>
    BY <1>5 DEF Plan
  <2>2. Len(Plan(request[t])) = 1
    BY <2>1
  <2>3. /\ Plan(request[t])[1] = "own_challenge"
    BY <2>1
  <2> QED
    BY <2>2, <2>3, CommitPassed
<1>6. ASSUME request[t].op = "consume"
      PROVE  Found("challenge", t) /\ Found("candidate", t)
  <2>1. Plan(request[t]) = <<"challenge", "candidate">>
    BY <1>6 DEF Plan
  <2>2. Len(Plan(request[t])) = 2
    BY <2>1
  <2>3. /\ Plan(request[t])[1] = "challenge"
        /\ Plan(request[t])[2] = "candidate"
    BY <2>1
  <2> QED
    BY <2>2, <2>3, CommitPassed
<1>7. ASSUME request[t].op = "exchange"
      PROVE  Found("bearer", t)
  <2>1. Plan(request[t]) = <<"bearer">>
    BY <1>7 DEF Plan
  <2>2. Len(Plan(request[t])) = 1
    BY <2>1
  <2>3. /\ Plan(request[t])[1] = "bearer"
    BY <2>1
  <2> QED
    BY <2>2, <2>3, CommitPassed
<1>8. ASSUME request[t].op = "register"
      PROVE  Found("registrant", t)
  <2>1. Plan(request[t]) = <<"registrant">>
    BY <1>8 DEF Plan
  <2>2. Len(Plan(request[t])) = 1
    BY <2>1
  <2>3. /\ Plan(request[t])[1] = "registrant"
    BY <2>1
  <2> QED
    BY <2>2, <2>3, CommitPassed
<1>9. ASSUME request[t].op = "login"
      PROVE  Found("credential", t)
  <2>1. Plan(request[t]) = <<"credential">>
    BY <1>9 DEF Plan
  <2>2. Len(Plan(request[t])) = 1
    BY <2>1
  <2>3. /\ Plan(request[t])[1] = "credential"
    BY <2>1
  <2> QED
    BY <2>2, <2>3, CommitPassed
<1>10. ASSUME request[t].op = "reset"
      PROVE  /\ Found("administrator", t) /\ Found("target", t)
             /\ Found("passkeys", t) /\ Found("challenges", t) /\ Found("sessions", t)
  <2>1. Plan(request[t]) = <<"administrator", "target", "passkeys", "challenges", "sessions">>
    BY <1>10 DEF Plan
  <2>2. Len(Plan(request[t])) = 5
    BY <2>1
  <2>3. /\ Plan(request[t])[1] = "administrator"
        /\ Plan(request[t])[2] = "target"
        /\ Plan(request[t])[3] = "passkeys"
        /\ Plan(request[t])[4] = "challenges"
        /\ Plan(request[t])[5] = "sessions"
    BY <2>1
  <2> QED
    BY <2>2, <2>3, CommitPassed
<1>11. ASSUME request[t].op = "create"
      PROVE  /\ Found("activity", t) /\ Found("administrator", t)
             /\ Found("emails", t)
  <2>1. Plan(request[t]) = <<"activity", "administrator", "emails">>
    BY <1>11 DEF Plan
  <2>2. Len(Plan(request[t])) = 3
    BY <2>1
  <2>3. /\ Plan(request[t])[1] = "activity"
        /\ Plan(request[t])[2] = "administrator"
        /\ Plan(request[t])[3] = "emails"
    BY <2>1
  <2> QED
    BY <2>2, <2>3, CommitPassed
<1>12. ASSUME request[t].op = "update"
      PROVE  Found("administrator", t) /\ Found("target", t) /\ Found("emails", t)
  <2>1. Plan(request[t]) = <<"administrator", "target", "emails">>
    BY <1>12 DEF Plan
  <2>2. Len(Plan(request[t])) = 3
    BY <2>1
  <2>3. /\ Plan(request[t])[1] = "administrator"
        /\ Plan(request[t])[2] = "target"
        /\ Plan(request[t])[3] = "emails"
    BY <2>1
  <2> QED
    BY <2>2, <2>3, CommitPassed
<1>13. ASSUME request[t].op = "grant"
      PROVE  Found("administrator", t) /\ Found("domain", t) /\ Found("target", t)
  <2>1. Plan(request[t]) = <<"administrator", "domain", "target">>
    BY <1>13 DEF Plan
  <2>2. Len(Plan(request[t])) = 3
    BY <2>1
  <2>3. /\ Plan(request[t])[1] = "administrator"
        /\ Plan(request[t])[2] = "domain"
        /\ Plan(request[t])[3] = "target"
    BY <2>1
  <2> QED
    BY <2>2, <2>3, CommitPassed
<1>14. ASSUME request[t].op = "ungrant"
      PROVE  Found("administrator", t) /\ Found("domain", t) /\ Found("grant", t)
  <2>1. Plan(request[t]) = <<"administrator", "domain", "grant">>
    BY <1>14 DEF Plan
  <2>2. Len(Plan(request[t])) = 3
    BY <2>1
  <2>3. /\ Plan(request[t])[1] = "administrator"
        /\ Plan(request[t])[2] = "domain"
        /\ Plan(request[t])[3] = "grant"
    BY <2>1
  <2> QED
    BY <2>2, <2>3, CommitPassed
<1>15. ASSUME request[t].op = "domain"
      PROVE  Found("administrator", t) /\ Found("domain", t)
  <2>1. Plan(request[t]) = <<"administrator", "domain">>
    BY <1>15 DEF Plan
  <2>2. Len(Plan(request[t])) = 2
    BY <2>1
  <2>3. /\ Plan(request[t])[1] = "administrator"
        /\ Plan(request[t])[2] = "domain"
    BY <2>1
  <2> QED
    BY <2>2, <2>3, CommitPassed
<1>16. ASSUME request[t].op = "revoke_all"
      PROVE  /\ Found("activity", t) /\ Found("administrator", t)
             /\ Found("target", t) /\ Found("sessions", t)
  <2>1. Plan(request[t]) = <<"activity", "administrator", "target", "sessions">>
    BY <1>16 DEF Plan
  <2>2. Len(Plan(request[t])) = 4
    BY <2>1
  <2>3. /\ Plan(request[t])[1] = "activity"
        /\ Plan(request[t])[2] = "administrator"
        /\ Plan(request[t])[3] = "target"
        /\ Plan(request[t])[4] = "sessions"
    BY <2>1
  <2> QED
    BY <2>2, <2>3, CommitPassed
<1>17. ASSUME request[t].op = "revoke"
      PROVE  /\ Found("activity", t) /\ Found("administrator", t)
             /\ Found("target", t) /\ Found("victim", t)
  <2>1. Plan(request[t]) = <<"activity", "administrator", "target", "victim">>
    BY <1>17 DEF Plan
  <2>2. Len(Plan(request[t])) = 4
    BY <2>1
  <2>3. /\ Plan(request[t])[1] = "activity"
        /\ Plan(request[t])[2] = "administrator"
        /\ Plan(request[t])[3] = "target"
        /\ Plan(request[t])[4] = "victim"
    BY <2>1
  <2> QED
    BY <2>2, <2>3, CommitPassed
<1>18. ASSUME request[t].op = "status" /\ request[t].status = "active"
      PROVE  Found("administrator", t) /\ Found("target", t)
  <2>1. Plan(request[t]) = <<"administrator", "target">>
    BY <1>18 DEF Plan
  <2>2. Len(Plan(request[t])) = 2
    BY <2>1
  <2>3. /\ Plan(request[t])[1] = "administrator"
        /\ Plan(request[t])[2] = "target"
    BY <2>1
  <2> QED
    BY <2>2, <2>3, CommitPassed
<1>19. ASSUME request[t].op = "status" /\ request[t].status # "active"
      PROVE  /\ Found("administrator", t) /\ Found("target", t)
             /\ Found("challenges", t) /\ Found("sessions", t) /\ Found("passkeys", t)
  <2>1. Plan(request[t]) = <<"administrator", "target", "challenges", "sessions", "passkeys">>
    BY <1>19 DEF Plan
  <2>2. Len(Plan(request[t])) = 5
    BY <2>1
  <2>3. /\ Plan(request[t])[1] = "administrator"
        /\ Plan(request[t])[2] = "target"
        /\ Plan(request[t])[3] = "challenges"
        /\ Plan(request[t])[4] = "sessions"
        /\ Plan(request[t])[5] = "passkeys"
    BY <2>1
  <2> QED
    BY <2>2, <2>3, CommitPassed
<1> QED
  BY <1>1, <1>2, <1>3, <1>4, <1>5, <1>6, <1>7, <1>8, <1>9, <1>10, <1>11, <1>12, <1>13, <1>14, <1>15, <1>16, <1>17, <1>18, <1>19

-----------------------------------------------------------------------------
(* What each function does to the tables when it commits *)

LEMMA NewRows ==
  ASSUME IInv, NEW t \in Calls, stage[t] # "done"
  PROVE  /\ request[t].op \in {"consume", "exchange", "login"} =>
              /\ New(request[t]) = {<<"session", request[t].fresh>>}
              /\ request[t].fresh \in Sessions /\ request[t].fresh \notin DOMAIN sessions
         /\ request[t].op = "issue" =>
              /\ New(request[t]) = {<<"challenge", request[t].challenge>>}
              /\ request[t].challenge \in Challenges
              /\ request[t].challenge \notin DOMAIN challenges
         /\ request[t].op = "register" =>
              /\ New(request[t]) = {<<"passkey", request[t].passkey>>}
              /\ request[t].passkey \in Passkeys /\ request[t].passkey \notin DOMAIN passkeys
         /\ request[t].op = "create" =>
              /\ New(request[t]) = {<<"account", request[t].account>>}
              /\ request[t].account \in Accounts \ {Owner}
              /\ request[t].account \notin DOMAIN accounts
<1>1. request[t] \in Requests /\ New(request[t]) \cap Stores = {}
  BY DEF IInv, TypeOK, FreshInv
<1>2. /\ request[t].op \in {"consume", "exchange", "login"} =>
           New(request[t]) = {<<"session", request[t].fresh>>}
      /\ request[t].op = "issue" => New(request[t]) = {<<"challenge", request[t].challenge>>}
      /\ request[t].op = "register" => New(request[t]) = {<<"passkey", request[t].passkey>>}
      /\ request[t].op = "create" => New(request[t]) = {<<"account", request[t].account>>}
  BY DEF New
<1>3. /\ \A s : <<"session", s>> \notin Stores => s \notin DOMAIN sessions
      /\ \A c : <<"challenge", c>> \notin Stores => c \notin DOMAIN challenges
      /\ \A p : <<"passkey", p>> \notin Stores => p \notin DOMAIN passkeys
      /\ \A a : <<"account", a>> \notin Stores => a \notin DOMAIN accounts \cup {Owner}
  BY DEF Stores
<1> QED
  BY <1>1, <1>2, <1>3, RequestTypes DEF AdminOps

LEMMA ConsumeEffect ==
  ASSUME IInv, NEW u \in Calls, stage[u] = "ending", verdict[u] = "ok",
         request[u].op = "consume", ConsumeChallengeAndCreateSessionWrites(request[u])
  PROVE  Effect(u)
<1> DEFINE q == request[u]
           a == challenges[q.challenge].account
<1>1. TablesOK /\ q \in Requests
  BY DEF IInv, TypeOK
<1>2. Found("challenge", u) /\ Found("candidate", u)
  BY AllFound
<1>3. /\ q.challenge \in DOMAIN challenges /\ <<"challenge", q.challenge>> \in held[u]
      /\ challenges[q.challenge].state = "open" /\ challenges[q.challenge].attempts < MaxAttempts
  BY <1>2, SelectedRows DEF Found, Seen, Known, Consumable, Open
<1>4. a \in Accounts /\ <<"account", a>> \in held[u] /\ Active(a)
  BY <1>1, <1>2, <1>3, SelectedRows, TableTypes DEF Found, Known
<1>5. /\ q.fresh \in Sessions /\ q.now \in Nat
      /\ New(q) = {<<"session", q.fresh>>} /\ q.fresh \notin DOMAIN sessions
  BY <1>1, NewRows, RequestTypes
<1>6. [kind |-> "challenge", of |-> q.challenge] \in Proofs
  BY <1>1, <1>3, TableTypes DEF Proofs
<1>7. EffectOnChallenges(u) /\ challenges'[q.challenge].state = "used"
  <2>1. challenges' = [challenges EXCEPT ![q.challenge].state = "used"]
    BY DEF ConsumeChallengeAndCreateSessionWrites
  <2>2. challenges[q.challenge] \in ChallengeRow
    BY <1>1, <1>3, TableTypes
  <2>3. challenges'[q.challenge].state = "used"
    BY <1>3, <2>1, <2>2 DEF ChallengeRow
  <2> QED
    BY <1>3, <2>1, <2>3, ChangesChallenge
<1>8. EffectOnSessions(u)
  BY <1>3, <1>4, <1>5, <1>6, <1>7, AddsSession DEF ConsumeChallengeAndCreateSessionWrites
<1>9. EffectOnAccounts(u) /\ Deactivation /\ EffectOnPasskeys(u)
  BY KeepsAccounts, KeepsPasskeys DEF ConsumeChallengeAndCreateSessionWrites
<1> QED
  BY <1>7, <1>8, <1>9 DEF Effect

LEMMA AuthenticateEffect ==
  ASSUME IInv, NEW u \in Calls, stage[u] = "ending", verdict[u] = "ok",
         request[u].op = "authenticate", AuthenticateSessionWrites(request[u])
  PROVE  Effect(u)
<1> DEFINE q == request[u]
<1>1. Found("session", u)
  BY AllFound
<1>2. q.session \in DOMAIN sessions /\ <<"session", q.session>> \in held[u] /\ q.now \in Nat
  BY <1>1, SelectedRows, RequestTypes DEF Found, Seen, IInv, TypeOK
<1>3. EffectOnSessions(u)
  BY <1>2, TouchesSession DEF AuthenticateSessionWrites
<1>4. EffectOnAccounts(u) /\ Deactivation /\ EffectOnChallenges(u) /\ EffectOnPasskeys(u)
  BY KeepsAccounts, KeepsChallenges, KeepsPasskeys DEF AuthenticateSessionWrites
<1> QED
  BY <1>3, <1>4 DEF Effect

LEMMA LogoutEffect ==
  ASSUME IInv, NEW u \in Calls, stage[u] = "ending", verdict[u] = "ok",
         request[u].op = "logout", RevokeSessionByVerifierWrites(request[u])
  PROVE  Effect(u)
<1>1. Found("own_session", u)
  BY AllFound
<1>2. <<"session", request[u].session>> \in held[u]
  BY <1>1, SelectedRows DEF Found
<1>3. EffectOnSessions(u)
  BY <1>2, RevokesSessions DEF RevokeSessionByVerifierWrites
<1>4. EffectOnAccounts(u) /\ Deactivation /\ EffectOnChallenges(u) /\ EffectOnPasskeys(u)
  BY KeepsAccounts, KeepsChallenges, KeepsPasskeys DEF RevokeSessionByVerifierWrites
<1> QED
  BY <1>3, <1>4 DEF Effect

LEMMA InvalidateEffect ==
  ASSUME IInv, NEW u \in Calls, stage[u] = "ending", verdict[u] = "ok",
         request[u].op = "invalidate", InvalidateChallengeWrites(request[u])
  PROVE  Effect(u)
<1>1. Found("own_challenge", u)
  BY AllFound
<1>2. <<"challenge", request[u].challenge>> \in held[u]
  BY <1>1, SelectedRows DEF Found
<1>3. EffectOnChallenges(u)
  BY <1>2, InvalidatesChallenges DEF InvalidateChallengeWrites
<1>4. EffectOnAccounts(u) /\ Deactivation /\ EffectOnSessions(u) /\ EffectOnPasskeys(u)
  BY KeepsAccounts, KeepsSessions, KeepsPasskeys DEF InvalidateChallengeWrites
<1> QED
  BY <1>3, <1>4 DEF Effect

LEMMA IssueEffect ==
  ASSUME IInv, NEW u \in Calls, stage[u] = "ending", verdict[u] = "ok",
         request[u].op = "issue", IssueEmailChallengeWrites(u, request[u])
  PROVE  Effect(u)
<1> DEFINE q == request[u]
<1>1. Found("recipient", u)
  BY AllFound
<1>2. held \in [Calls -> SUBSET Row] /\ q \in Requests
  BY DEF IInv, TypeOK
<1>3. PICK a \in HeldOf(u, "account") :
        challenges' = Stored(Invalidated(HeldOf(u, "challenge")), q.challenge,
          [account |-> a, issued |-> q.now, expires |-> q.now + CodeLifetime,
           attempts |-> 0, state |-> "open"])
  BY DEF IssueEmailChallengeWrites
<1>4. <<"account", a>> \in held[u] /\ a \in Accounts /\ Active(a)
  BY <1>1, <1>2, <1>3, HeldOfType, RowShape DEF Found, Known, ActiveRecipient
<1>5. \A c \in HeldOf(u, "challenge") : <<"challenge", c>> \in held[u]
  BY <1>2, HeldOfType
<1>6. /\ q.challenge \in Challenges /\ q.now \in Nat
      /\ <<"challenge", q.challenge>> \in New(q) /\ q.challenge \notin DOMAIN challenges
  BY <1>2, NewRows, RequestTypes
<1>7. UNCHANGED <<accounts, sessions, passkeys>>
  BY DEF IssueEmailChallengeWrites
<1>8. EffectOnChallenges(u)
  BY <1>3, <1>4, <1>5, <1>6, <1>7, AddsChallenge
<1>9. EffectOnAccounts(u) /\ Deactivation /\ EffectOnSessions(u) /\ EffectOnPasskeys(u)
  BY <1>7, KeepsAccounts, KeepsSessions, KeepsPasskeys
<1> QED
  BY <1>8, <1>9 DEF Effect

LEMMA ExchangeEffect ==
  ASSUME IInv, NEW u \in Calls, stage[u] = "ending", verdict[u] = "ok",
         request[u].op = "exchange", CreateOidcSessionWrites(request[u])
  PROVE  Effect(u)
<1> DEFINE q == request[u]
<1>1. Found("bearer", u)
  BY AllFound
<1>2. q \in Requests /\ q.account \in Accounts /\ q.token \in Tokens /\ q.now \in Nat
  BY RequestTypes DEF IInv, TypeOK
<1>3. <<"account", q.account>> \in held[u] /\ Active(q.account) /\ ~Exchanged(q.token)
  BY <1>1, SelectedRows DEF Found, Known
<1>4. [kind |-> "token", of |-> q.token] \in Proofs
  BY <1>2 DEF Proofs
<1>5. EffectOnSessions(u)
  BY <1>2, <1>3, <1>4, NewRows, AddsSession DEF CreateOidcSessionWrites
<1>6. EffectOnAccounts(u) /\ Deactivation /\ EffectOnChallenges(u) /\ EffectOnPasskeys(u)
  BY KeepsAccounts, KeepsChallenges, KeepsPasskeys DEF CreateOidcSessionWrites
<1> QED
  BY <1>5, <1>6 DEF Effect

LEMMA RegisterEffect ==
  ASSUME IInv, NEW u \in Calls, stage[u] = "ending", verdict[u] = "ok",
         request[u].op = "register", RegisterPasskeyWrites(request[u])
  PROVE  Effect(u)
<1> DEFINE q == request[u]
           row == [account |-> sessions[q.session].account, created |-> q.now,
                   count |-> q.count, revoked |-> FALSE]
<1>1. Found("registrant", u)
  BY AllFound
<1>2. TablesOK /\ q \in Requests /\ q.now \in Nat /\ q.count \in Nat
  BY RequestTypes DEF IInv, TypeOK
<1>3. /\ q.session \in DOMAIN sessions /\ Active(sessions[q.session].account)
      /\ <<"account", sessions[q.session].account>> \in held[u]
  BY <1>1, SelectedRows DEF Found, Known, Seen, Live
<1>4. row \in PasskeyRow /\ row.account = sessions[q.session].account
  BY <1>2, <1>3, TableTypes DEF PasskeyRow
<1>5. EffectOnPasskeys(u)
  <2>1. passkeys' = Stored(passkeys, q.passkey, row) /\ accounts' = accounts
    BY DEF RegisterPasskeyWrites
  <2>2. /\ q.passkey \in Passkeys /\ <<"passkey", q.passkey>> \in New(q)
        /\ q.passkey \notin DOMAIN passkeys
    BY NewRows
  <2> HIDE DEF row
  <2> QED
    BY <1>3, <1>4, <2>1, <2>2, AddsPasskey
<1>6. EffectOnAccounts(u) /\ Deactivation /\ EffectOnChallenges(u) /\ EffectOnSessions(u)
  BY KeepsAccounts, KeepsChallenges, KeepsSessions DEF RegisterPasskeyWrites
<1> QED
  BY <1>5, <1>6 DEF Effect

LEMMA LoginEffect ==
  ASSUME IInv, NEW u \in Calls, stage[u] = "ending", verdict[u] = "ok",
         request[u].op = "login", CompletePasskeyLoginWrites(request[u])
  PROVE  Effect(u)
<1> DEFINE q == request[u]
           a == passkeys[q.passkey].account
<1>1. Found("credential", u)
  BY AllFound
<1>2. /\ TablesOK /\ q \in Requests /\ q.now \in Nat /\ q.passkey \in Passkeys
      /\ Greatest(q.expected, q.observed) \in Nat
  BY RequestTypes DEF IInv, TypeOK, Greatest
<1>3. /\ q.passkey \in DOMAIN passkeys /\ Active(a) /\ a \in Accounts
      /\ <<"passkey", q.passkey>> \in held[u] /\ <<"account", a>> \in held[u]
  BY <1>1, <1>2, SelectedRows, TableTypes DEF Found, Known, Seen, Readable
<1>4. /\ [kind |-> "passkey", of |-> q.passkey] \in Proofs
      /\ [kind |-> "passkey", of |-> q.passkey].kind = "passkey"
  BY <1>2 DEF Proofs
<1>5. EffectOnSessions(u)
  BY <1>2, <1>3, <1>4, NewRows, AddsSession DEF CompletePasskeyLoginWrites
<1>6. EffectOnPasskeys(u)
  BY <1>2, <1>3, CountsLogin DEF CompletePasskeyLoginWrites
<1>7. EffectOnAccounts(u) /\ Deactivation /\ EffectOnChallenges(u)
  BY KeepsAccounts, KeepsChallenges DEF CompletePasskeyLoginWrites
<1> QED
  BY <1>5, <1>6, <1>7 DEF Effect

LEMMA BootstrapEffect ==
  ASSUME IInv, NEW u \in Calls, stage[u] = "ending", verdict[u] = "ok",
         request[u].op = "bootstrap", BootstrapAdministratorWrites(request[u])
  PROVE  Effect(u)
<1> DEFINE q == request[u]
           row == NewAccount(q.email, {Admin})
<1>1. Found("owner", u) /\ Found("emails", u)
  BY AllFound
<1>2. q \in Requests /\ q.email \in Emails /\ Owner \in Accounts
  BY RequestTypes, PolicyAssumption DEF IInv, TypeOK
<1>3. /\ Owner \notin DOMAIN accounts /\ Recipient(q.email) = {}
      /\ <<"owner", Owner>> \in held[u] /\ <<"email", q.email>> \in held[u]
  BY <1>1, SelectedRows DEF Found, Known, Taken
<1>4. row \in AccountRow /\ row.status = "active" /\ row.email = q.email
  BY <1>2, NewAccountRow DEF Grants
<1>5. EffectOnAccounts(u) /\ Deactivation
  <2>1. accounts' = Stored(accounts, Owner, row)
    BY DEF BootstrapAdministratorWrites
  <2> HIDE DEF row
  <2> QED
    BY <1>2, <1>3, <1>4, <2>1, AddsAccount
<1>6. EffectOnChallenges(u) /\ EffectOnSessions(u) /\ EffectOnPasskeys(u)
  BY KeepsChallenges, KeepsSessions, KeepsPasskeys DEF BootstrapAdministratorWrites
<1> QED
  BY <1>5, <1>6 DEF Effect

\* What a call of an administrator has found when it commits.
LEMMA AdministratorFound ==
  ASSUME IInv, NEW t \in Calls, stage[t] = "ending", Found("administrator", t)
  PROVE  /\ TablesOK /\ request[t] \in Requests /\ held \in [Calls -> SUBSET Row]
         /\ request[t].session \in DOMAIN sessions /\ request[t].account \in Accounts
         /\ request[t].now \in Nat /\ Administers(request[t].session, request[t].now)
         /\ <<"session", request[t].session>> \in held[t]
<1>1. request[t].op \in AdminOps /\ request[t] \in Requests /\ TypeOK
  BY DEF Found, Prior, IInv, TypeOK
<1> QED
  BY <1>1, SelectedRows, RequestTypes DEF Found, Known, Seen, TypeOK, AdminOps

LEMMA CreateEffect ==
  ASSUME IInv, NEW u \in Calls, stage[u] = "ending", verdict[u] = "ok",
         request[u].op = "create", CreateAccountAsAdministratorWrites(request[u])
  PROVE  Effect(u)
<1> DEFINE q == request[u]
           row == NewAccount(q.email, {})
<1>1. Found("administrator", u) /\ Found("emails", u)
  BY AllFound
<1>2. q \in Requests /\ q.email \in Emails
  BY RequestTypes DEF IInv, TypeOK
<1>3. Recipient(q.email) = {} /\ <<"email", q.email>> \in held[u]
  BY <1>1, SelectedRows DEF Found, Known, Taken
<1>4. row \in AccountRow /\ row.status = "active" /\ row.email = q.email
  BY <1>2, NewAccountRow
<1>5. EffectOnAccounts(u) /\ Deactivation
  <2>1. accounts' = Stored(accounts, q.account, row)
    BY DEF CreateAccountAsAdministratorWrites
  <2>2. /\ q.account \in Accounts \ {Owner} /\ <<"account", q.account>> \in New(q)
        /\ q.account \notin DOMAIN accounts
    BY NewRows
  <2> HIDE DEF row
  <2> QED
    BY <1>3, <1>4, <2>1, <2>2, AddsAccount
<1>6. EffectOnSessions(u)
  BY <1>1, AdministratorFound, TouchesSession DEF CreateAccountAsAdministratorWrites
<1>7. EffectOnChallenges(u) /\ EffectOnPasskeys(u)
  BY KeepsChallenges, KeepsPasskeys DEF CreateAccountAsAdministratorWrites
<1> QED
  BY <1>5, <1>6, <1>7 DEF Effect

LEMMA UpdateEffect ==
  ASSUME IInv, NEW u \in Calls, stage[u] = "ending", verdict[u] = "ok",
         request[u].op = "update", UpdateAccountAsAdministratorWrites(request[u])
  PROVE  Effect(u)
<1> DEFINE q == request[u]
           row == [accounts[q.account] EXCEPT !.email = q.email]
<1>1. Found("target", u) /\ Found("emails", u)
  BY AllFound
<1>2. TablesOK /\ q \in Requests /\ q.email \in Emails
  BY RequestTypes DEF IInv, TypeOK
<1>3. q.account \in DOMAIN accounts /\ <<"account", q.account>> \in held[u]
  BY <1>1, SelectedRows DEF Found, Seen
<1>4. Recipient(q.email) \subseteq {q.account}
  BY <1>1 DEF Found, Known, Taken
<1>5. q.email # accounts[q.account].email => <<"email", q.email>> \in held[u]
  BY <1>1, SelectedRows DEF Found
<1>6. /\ row \in AccountRow /\ row.status = accounts[q.account].status /\ row.email = q.email
      /\ row.grants = accounts[q.account].grants /\ row.version = accounts[q.account].version
  BY <1>2, <1>3, TableTypes DEF AccountRow
<1>7. accounts' = [accounts EXCEPT ![q.account] = row]
  BY DEF UpdateAccountAsAdministratorWrites
<1>8. EffectOnAccounts(u)
  <2> HIDE DEF row
  <2> QED
    BY <1>3, <1>4, <1>5, <1>6, <1>7, ChangesAccount
<1>9. Deactivation
  <2> HIDE DEF row
  <2> QED
    BY <1>3, <1>6, <1>7 DEF Deactivation
<1>10. EffectOnChallenges(u) /\ EffectOnSessions(u) /\ EffectOnPasskeys(u)
  BY KeepsChallenges, KeepsSessions, KeepsPasskeys DEF UpdateAccountAsAdministratorWrites
<1> QED
  BY <1>8, <1>9, <1>10 DEF Effect

LEMMA StatusEffect ==
  ASSUME IInv, NEW u \in Calls, stage[u] = "ending", verdict[u] = "ok",
         request[u].op = "status", SetAccountStatusAsAdministratorWrites(u, request[u])
  PROVE  Effect(u)
<1> DEFINE q == request[u]
           row == [accounts[q.account] EXCEPT !.status = q.status]
           C == HeldOf(u, "challenge")
           P == HeldOf(u, "passkey")
           S == IF q.status = "active" THEN {} ELSE HeldBy(u, q)
<1>1. Found("administrator", u) /\ Found("target", u)
  BY AllFound
<1>2. /\ TablesOK /\ q \in Requests /\ held \in [Calls -> SUBSET Row]
      /\ q.status \in {"active", "deactivated"}
  BY RequestTypes DEF IInv, TypeOK
<1>3. q.account \in DOMAIN accounts /\ <<"account", q.account>> \in held[u]
  BY <1>1, SelectedRows DEF Found, Seen
<1>4. /\ row \in AccountRow /\ row.status = q.status
      /\ row.email = accounts[q.account].email
      /\ row.grants = accounts[q.account].grants /\ row.version = accounts[q.account].version
  BY <1>2, <1>3, TableTypes DEF AccountRow
<1>5. /\ accounts' = [accounts EXCEPT ![q.account] = row]
      /\ challenges' = Invalidated(C) /\ sessions' = Revoked(sessions, S)
      /\ passkeys' = Revoked(passkeys, P)
  BY DEF SetAccountStatusAsAdministratorWrites
<1>6. /\ \A c \in C : <<"challenge", c>> \in held[u]
      /\ \A s \in S : <<"session", s>> \in held[u]
      /\ \A p \in P : <<"passkey", p>> \in held[u]
  BY <1>2, HeldOfType DEF HeldBy
<1>7. q.status = "deactivated" =>
         /\ OpenOf(q.account) \subseteq C /\ KeptOf(q.account) \subseteq S
         /\ UsableOf(q.account) \subseteq P
  <2>1. SUFFICES ASSUME q.status = "deactivated"
                 PROVE  /\ OpenOf(q.account) \subseteq C /\ KeptOf(q.account) \subseteq S
                        /\ UsableOf(q.account) \subseteq P
    OBVIOUS
  <2>2. Found("challenges", u) /\ Found("sessions", u) /\ Found("passkeys", u)
    BY <2>1, AllFound
  <2>3. /\ {"challenge"} \X OpenOf(q.account) \subseteq held[u]
        /\ {"session"} \X KeptOf(q.account) \subseteq held[u]
        /\ {"passkey"} \X UsableOf(q.account) \subseteq held[u]
    BY <2>2, SelectedRows DEF Found
  <2> QED
    BY <1>2, <2>1, <2>3, HeldOfType DEF HeldBy
<1> HIDE DEF row, C, P, S
<1>8. EffectOnAccounts(u)
  BY <1>3, <1>4, <1>5, ChangesAccount
<1>9. EffectOnChallenges(u) /\ EffectOnSessions(u) /\ EffectOnPasskeys(u)
  BY <1>5, <1>6, InvalidatesChallenges, RevokesSessions, RevokesPasskeys
<1>10. Deactivation
  <2> SUFFICES ASSUME NEW a \in DOMAIN accounts, accounts[a].status = "active",
                      accounts'[a].status = "deactivated"
               PROVE  (OpenOf(a) = {} /\ KeptOf(a) = {} /\ UsableOf(a) = {})'
    BY DEF Deactivation
  <2>1. a = q.account /\ q.status = "deactivated"
    BY <1>3, <1>4, <1>5
  <2>2. OpenOf(a)' = {}
    BY <1>2, <1>5, <1>7, <2>1, InvalidatedChallenges DEF OpenOf, Open
  <2>3. KeptOf(a)' = {}
    <3>1. \A s \in DOMAIN sessions : sessions[s] \in SessionRow
      BY <1>2, TableTypes
    <3>2. /\ DOMAIN sessions' = DOMAIN sessions
          /\ \A s \in DOMAIN sessions :
               /\ sessions'[s].account = sessions[s].account
               /\ s \in S => sessions'[s].revoked
               /\ sessions[s].revoked => sessions'[s] = sessions[s]
      BY <1>5, <3>1, RevokedSession
    <3> QED
      BY <1>7, <2>1, <3>2 DEF KeptOf, Kept
  <2>4. UsableOf(a)' = {}
    BY <1>2, <1>5, <1>7, <2>1, RevokedPasskey DEF UsableOf, Usable
  <2> QED
    BY <2>2, <2>3, <2>4
<1> QED
  BY <1>8, <1>9, <1>10 DEF Effect

LEMMA ResetEffect ==
  ASSUME IInv, NEW u \in Calls, stage[u] = "ending", verdict[u] = "ok",
         request[u].op = "reset", AdminSecurityResetAuthAccessWrites(u, request[u])
  PROVE  Effect(u)
<1>1. held \in [Calls -> SUBSET Row]
  BY DEF IInv, TypeOK
<1>2. /\ \A c \in HeldOf(u, "challenge") : <<"challenge", c>> \in held[u]
      /\ \A s \in HeldBy(u, request[u]) : <<"session", s>> \in held[u]
      /\ \A p \in HeldOf(u, "passkey") : <<"passkey", p>> \in held[u]
  BY <1>1, HeldOfType DEF HeldBy
<1>3. EffectOnChallenges(u) /\ EffectOnSessions(u) /\ EffectOnPasskeys(u)
  BY <1>2, InvalidatesChallenges, RevokesSessions, RevokesPasskeys
     DEF AdminSecurityResetAuthAccessWrites
<1>4. EffectOnAccounts(u) /\ Deactivation
  BY KeepsAccounts DEF AdminSecurityResetAuthAccessWrites
<1> QED
  BY <1>3, <1>4 DEF Effect

LEMMA MutationEffect ==
  ASSUME IInv, NEW u \in Calls, stage[u] = "ending", verdict[u] = "ok",
         request[u].op \in {"grant", "ungrant", "domain"},
         NEW grants \in SUBSET Grants, NEW domain \in Domains,
         Admin \in accounts[request[u].account].grants \ grants =>
           request[u].op = "ungrant" /\ request[u].grant = Admin,
         AuthorizationMutation(request[u], grants, domain)
  PROVE  Effect(u)
<1> DEFINE q == request[u]
           row == [accounts[q.account] EXCEPT !.grants = grants, !.domain = domain,
                                              !.version = q.version]
<1>1. Found("domain", u) /\ (q.op = "ungrant" => Found("grant", u))
  BY AllFound
<1>2. TablesOK /\ q \in Requests /\ q.version \in Nat
  BY RequestTypes DEF IInv, TypeOK
<1>3. q.account \in DOMAIN accounts /\ <<"domain", q.account>> \in held[u]
  BY <1>1, SelectedRows DEF Found, Seen
<1>4. /\ row \in AccountRow /\ row.status = accounts[q.account].status
      /\ row.email = accounts[q.account].email /\ row.grants = grants
  BY <1>2, <1>3, TableTypes DEF AccountRow
<1>5. Admin \in accounts[q.account].grants \ grants => <<"grant", q.account>> \in held[u]
  BY <1>1, SelectedRows DEF Found
<1>6. accounts' = [accounts EXCEPT ![q.account] = row]
  BY DEF AuthorizationMutation
<1>7. EffectOnAccounts(u) /\ Deactivation
  <2> HIDE DEF row
  <2>1. EffectOnAccounts(u)
    BY <1>3, <1>4, <1>5, <1>6, ChangesAccount
  <2>2. Deactivation
    BY <1>3, <1>4, <1>6 DEF Deactivation
  <2> QED
    BY <2>1, <2>2
<1>8. EffectOnChallenges(u) /\ EffectOnSessions(u) /\ EffectOnPasskeys(u)
  BY KeepsChallenges, KeepsSessions, KeepsPasskeys DEF AuthorizationMutation
<1> QED
  BY <1>7, <1>8 DEF Effect

LEMMA RevokeAllEffect ==
  ASSUME IInv, NEW u \in Calls, stage[u] = "ending", verdict[u] = "ok",
         request[u].op = "revoke_all", RevokeAllSessionsAsAdministratorWrites(u, request[u])
  PROVE  Effect(u)
<1> DEFINE q == request[u]
<1>1. Found("administrator", u)
  BY AllFound
<1>2. /\ q.session \in DOMAIN sessions /\ q.now \in Nat /\ <<"session", q.session>> \in held[u]
      /\ held \in [Calls -> SUBSET Row]
  BY <1>1, AdministratorFound
<1>3. \A s \in HeldBy(u, q) : Kept(s) => <<"session", s>> \in held[u]
  BY <1>2, HeldOfType DEF HeldBy
<1>4. PICK R : R = Touched(q.session, q.now)
  OBVIOUS
<1>5. \E s \in DOMAIN sessions, now \in Nat : R = Touched(s, now) /\ <<"session", s>> \in held[u]
  BY <1>2, <1>4
<1>6. EffectOnSessions(u)
  BY <1>3, <1>4, <1>5, RevokesSessions DEF RevokeAllSessionsAsAdministratorWrites
<1>7. EffectOnAccounts(u) /\ Deactivation /\ EffectOnChallenges(u) /\ EffectOnPasskeys(u)
  BY KeepsAccounts, KeepsChallenges, KeepsPasskeys DEF RevokeAllSessionsAsAdministratorWrites
<1> QED
  BY <1>6, <1>7 DEF Effect

LEMMA RevokeEffect ==
  ASSUME IInv, NEW u \in Calls, stage[u] = "ending", verdict[u] = "ok",
         request[u].op = "revoke", RevokeSessionAsAdministratorWrites(request[u])
  PROVE  Effect(u)
<1> DEFINE q == request[u]
<1>1. Found("administrator", u) /\ Found("victim", u)
  BY AllFound
<1>2. /\ q.session \in DOMAIN sessions /\ q.now \in Nat /\ <<"session", q.session>> \in held[u]
  BY <1>1, AdministratorFound
<1>3. <<"session", q.victim>> \in held[u]
  BY <1>1, SelectedRows DEF Found, Known
<1>4. PICK R : R = Touched(q.session, q.now)
  OBVIOUS
<1>5. \E s \in DOMAIN sessions, now \in Nat : R = Touched(s, now) /\ <<"session", s>> \in held[u]
  BY <1>2, <1>4
<1>6. EffectOnSessions(u)
  BY <1>3, <1>4, <1>5, RevokesSessions DEF RevokeSessionAsAdministratorWrites
<1>7. EffectOnAccounts(u) /\ Deactivation /\ EffectOnChallenges(u) /\ EffectOnPasskeys(u)
  BY KeepsAccounts, KeepsChallenges, KeepsPasskeys DEF RevokeSessionAsAdministratorWrites
<1> QED
  BY <1>6, <1>7 DEF Effect

\* The endings that write although nothing was found.
LEMMA WritesThoughEffect ==
  ASSUME IInv, NEW u \in Calls, stage[u] = "ending", verdict[u] # "ok",
         WritesThough(request[u], verdict[u])
  PROVE  Effect(u)
<1> DEFINE q == request[u]
<1>1. TablesOK /\ ControlOK(u) /\ TypeOK
  BY DEF IInv, TypeOK
<1>2. CASE verdict[u] \in {"wrong", "void"}
  <2>1. q.op = "consume" /\ at[u] \in {1, 2}
    BY <1>1, <1>2 DEF ControlOK
  <2>2. Plan(q) = <<"challenge", "candidate">>
    BY <2>1 DEF Plan
  <2>3. Passed("challenge", u)
    BY <2>1, <2>2 DEF Passed
  <2>4. Found("challenge", u)
    BY <2>3, CommitFound
  <2>5. /\ q.challenge \in DOMAIN challenges /\ <<"challenge", q.challenge>> \in held[u]
        /\ challenges[q.challenge].state = "open" /\ challenges[q.challenge].attempts < MaxAttempts
    BY <2>4, SelectedRows DEF Found, Seen, Known, Consumable, Open
  <2>6. EffectOnChallenges(u)
    <3>1. CASE verdict[u] = "wrong"
      BY <2>5, <3>1, ChangesChallenge DEF WritesThough
    <3>2. CASE verdict[u] = "void"
      BY <2>5, <3>2, InvalidatesChallenges DEF WritesThough
    <3> QED
      BY <1>2, <3>1, <3>2
  <2>7. EffectOnAccounts(u) /\ Deactivation /\ EffectOnSessions(u) /\ EffectOnPasskeys(u)
    BY <1>2, KeepsAccounts, KeepsSessions, KeepsPasskeys DEF WritesThough
  <2> QED
    BY <2>6, <2>7 DEF Effect
<1>3. CASE verdict[u] = "expired"
  <2>1. q.op = "authenticate" /\ at[u] = 2
    BY <1>1, <1>3 DEF ControlOK
  <2>2. Plan(q) = <<"session", "holder">>
    BY <2>1 DEF Plan
  <2>3. Passed("session", u)
    BY <2>1, <2>2 DEF Passed
  <2>4. Found("session", u)
    BY <2>3, CommitFound
  <2>5. <<"session", q.session>> \in held[u]
    BY <2>4, SelectedRows DEF Found
  <2>6. EffectOnSessions(u)
    BY <1>3, <2>5, RevokesSessions DEF WritesThough
  <2>7. EffectOnAccounts(u) /\ Deactivation /\ EffectOnChallenges(u) /\ EffectOnPasskeys(u)
    BY <1>3, KeepsAccounts, KeepsChallenges, KeepsPasskeys DEF WritesThough
  <2> QED
    BY <2>6, <2>7 DEF Effect
<1>4. CASE verdict[u] = "absent"
  <2>1. q.op = "revoke" /\ at[u] = 4
    BY <1>1, <1>4 DEF ControlOK
  <2>2. Plan(q) = <<"activity", "administrator", "target", "victim">>
    BY <2>1 DEF Plan
  <2>3. Passed("administrator", u)
    BY <2>1, <2>2 DEF Passed
  <2>4. Found("administrator", u)
    BY <2>3, CommitFound
  <2>5. EffectOnSessions(u)
    BY <1>4, <2>4, AdministratorFound, TouchesSession DEF WritesThough
  <2>6. EffectOnAccounts(u) /\ Deactivation /\ EffectOnChallenges(u) /\ EffectOnPasskeys(u)
    BY <1>4, KeepsAccounts, KeepsChallenges, KeepsPasskeys DEF WritesThough
  <2> QED
    BY <2>5, <2>6 DEF Effect
<1> QED
  BY <1>2, <1>3, <1>4 DEF WritesThough

LEMMA CommitEffect ==
  ASSUME IInv, NEW u \in Calls, Commit(u)
  PROVE  Effect(u)
<1> DEFINE q == request[u]
<1>1. stage[u] = "ending" /\ TablesOK /\ q \in Requests
  BY DEF Commit, IInv, TypeOK
<1>2. CASE verdict[u] # "ok"
  BY <1>1, <1>2, WritesThoughEffect DEF Commit
<1>3. CASE verdict[u] = "ok"
  <2>1. Writes(u, q)
    BY <1>3 DEF Commit
  <2>2. CASE q.op \in {"grant", "ungrant", "domain"}
    <3>1. Found("domain", u)
      BY <1>1, <1>3, <2>2, AllFound
    <3>2. /\ accounts[q.account].grants \in SUBSET Grants
          /\ accounts[q.account].domain \in Domains
      BY <1>1, <3>1, TableTypes DEF Found, Seen
    <3>3. CASE q.op = "grant"
      <4>1. q.grant \in Grants
        BY <1>1, <3>3, RequestTypes
      <4>2. AuthorizationMutation(q, accounts[q.account].grants \cup {q.grant},
                                  accounts[q.account].domain)
        BY <2>1, <3>3 DEF Writes, GrantFunctionalGrantAsAdministratorWrites
      <4> QED
        BY <1>1, <1>3, <2>2, <3>2, <4>1, <4>2, MutationEffect
    <3>4. CASE q.op = "ungrant"
      <4>1. AuthorizationMutation(q, accounts[q.account].grants \ {q.grant},
                                  accounts[q.account].domain)
        BY <2>1, <3>4 DEF Writes, RevokeFunctionalGrantAsAdministratorWrites
      <4>2. Admin \in accounts[q.account].grants \ (accounts[q.account].grants \ {q.grant})
              => q.grant = Admin
        OBVIOUS
      <4>3. accounts[q.account].grants \ {q.grant} \in SUBSET Grants
        BY <3>2
      <4> QED
        BY <1>1, <1>3, <3>2, <3>4, <4>1, <4>2, <4>3, MutationEffect
    <3>5. CASE q.op = "domain"
      <4>1. q.domain \in Domains
        BY <1>1, <3>5, RequestTypes
      <4>2. AuthorizationMutation(q, accounts[q.account].grants, q.domain)
        BY <2>1, <3>5 DEF Writes, SetDomainStatusAsAdministratorWrites
      <4> QED
        BY <1>1, <1>3, <2>2, <3>2, <4>1, <4>2, MutationEffect
    <3> QED
      BY <2>2, <3>3, <3>4, <3>5
  <2>3. CASE q.op \notin {"grant", "ungrant", "domain"}
    BY <1>1, <1>3, <2>1, <2>3, AuthenticateEffect, LogoutEffect, IssueEffect, InvalidateEffect,
       ConsumeEffect, ExchangeEffect, RegisterEffect, LoginEffect, BootstrapEffect, CreateEffect,
       UpdateEffect, StatusEffect, ResetEffect, RevokeAllEffect, RevokeEffect DEF Writes
  <2> QED
    BY <2>2, <2>3
<1> QED
  BY <1>2, <1>3

-----------------------------------------------------------------------------
(* What follows from the effect of a commit *)

LEMMA EffectGrows ==
  ASSUME NEW u \in Calls, Effect(u)
  PROVE  Grown
  BY DEF Effect, EffectOnAccounts, EffectOnChallenges, EffectOnSessions, EffectOnPasskeys, Grown

LEMMA EffectStores ==
  ASSUME NEW u \in Calls, Effect(u)
  PROVE  Stores' \subseteq Stores \cup New(request[u])
<1>1. \A a \in DOMAIN accounts' :
        a \in DOMAIN accounts \cup {Owner} \/ <<"account", a>> \in New(request[u])
  BY DEF Effect, EffectOnAccounts
<1>2. \A c \in DOMAIN challenges' :
        c \in DOMAIN challenges \/ <<"challenge", c>> \in New(request[u])
  BY DEF Effect, EffectOnChallenges
<1>3. \A s \in DOMAIN sessions' :
        s \in DOMAIN sessions \/ <<"session", s>> \in New(request[u])
  BY DEF Effect, EffectOnSessions
<1>4. \A p \in DOMAIN passkeys' :
        p \in DOMAIN passkeys \/ <<"passkey", p>> \in New(request[u])
  BY DEF Effect, EffectOnPasskeys
<1> QED
  BY <1>1, <1>2, <1>3, <1>4 DEF Stores

LEMMA ProofShape ==
  ASSUME NEW p \in Proofs
  PROVE  /\ p.kind \in {"challenge", "token", "passkey"}
         /\ p.kind = "token" => p = [kind |-> "token", of |-> p.of]
         /\ p = [kind |-> p.kind, of |-> p.of]
  BY DEF Proofs

LEMMA EffectSame ==
  ASSUME IInv, NEW u \in Calls, NEW t \in Calls \ {u}, Effect(u), UNCHANGED request
  PROVE  Same(t)
<1>1. TablesOK /\ held[t] \cap held[u] = {}
  BY DEF IInv, TypeOK, Exclusive
<1>2. /\ EffectOnAccounts(u) /\ EffectOnChallenges(u)
      /\ EffectOnSessions(u) /\ EffectOnPasskeys(u)
  BY DEF Effect
<1>3. \A a \in DOMAIN accounts :
        /\ <<"account", a>> \in held[t] =>
             accounts'[a].status = accounts[a].status /\ accounts'[a].email = accounts[a].email
        /\ <<"grant", a>> \in held[t] =>
             (Admin \in accounts[a].grants => Admin \in accounts'[a].grants)
        /\ <<"domain", a>> \in held[t] => accounts'[a].version = accounts[a].version
  BY <1>1, <1>2 DEF EffectOnAccounts
<1>4. \A e \in Emails :
        <<"email", e>> \in held[t] =>
          \A a \in DOMAIN accounts' :
            accounts'[a].email = e => a \in DOMAIN accounts /\ accounts[a].email = e
  BY <1>1, <1>2 DEF EffectOnAccounts
<1>5. <<"owner", Owner>> \in held[t] => (Owner \in DOMAIN accounts' <=> Owner \in DOMAIN accounts)
  BY <1>1, <1>2 DEF EffectOnAccounts
<1>6. /\ \A s \in DOMAIN sessions : <<"session", s>> \in held[t] => sessions'[s] = sessions[s]
      /\ \A c \in DOMAIN challenges :
           <<"challenge", c>> \in held[t] => challenges'[c] = challenges[c]
      /\ \A p \in DOMAIN passkeys : <<"passkey", p>> \in held[t] => passkeys'[p] = passkeys[p]
  BY <1>1, <1>2 DEF EffectOnSessions, EffectOnChallenges, EffectOnPasskeys
<1>7. \A a \in Accounts :
        <<"account", a>> \in held[t] =>
          /\ \A c \in DOMAIN challenges' \ DOMAIN challenges : challenges'[c].account # a
          /\ \A s \in DOMAIN sessions' \ DOMAIN sessions : sessions'[s].account # a
          /\ \A p \in DOMAIN passkeys' \ DOMAIN passkeys : passkeys'[p].account # a
  BY <1>1, <1>2 DEF EffectOnSessions, EffectOnChallenges, EffectOnPasskeys
<1>8. request[t].op = "exchange" /\ <<"account", request[t].account>> \in held[t] =>
        (Exchanged(request[t].token)' => Exchanged(request[t].token))
  <2>1. SUFFICES ASSUME request[t].op = "exchange", <<"account", request[t].account>> \in held[t],
                        Exchanged(request[t].token)'
                 PROVE  Exchanged(request[t].token)
    OBVIOUS
  <2>2. PICK s \in DOMAIN sessions' :
          sessions'[s].proof = [kind |-> "token", of |-> request[t].token]
    BY <2>1 DEF Exchanged
  <2>3. CASE s \in DOMAIN sessions
    BY <1>2, <2>2, <2>3 DEF EffectOnSessions, Exchanged
  <2>4. CASE s \notin DOMAIN sessions
    <3>1. sessions'[s].proof.kind = "token" /\ sessions'[s].proof.of = request[t].token
      BY <2>2
    <3>2. /\ request[u].op = "exchange" /\ request[u].token = request[t].token
          /\ <<"account", request[u].account>> \in held[u]
      BY <1>2, <2>4, <3>1 DEF EffectOnSessions
    <3>3. request[u].account = request[t].account
      BY <2>1, <3>2 DEF IInv, FreshInv
    <3> QED
      BY <1>1, <2>1, <3>2, <3>3
  <2> QED
    BY <2>2, <2>3, <2>4
<1> QED
  BY <1>3, <1>4, <1>5, <1>6, <1>7, <1>8 DEF Same

LEMMA EffectInvariants ==
  ASSUME IInv, NEW u \in Calls, Effect(u)
  PROVE  /\ TablesOK' /\ OneAccountPerEmail' /\ OwnersExist' /\ GuessesAreLimited'
         /\ DeactivatedHasNoAccess' /\ OneSessionPerProof'
<1>1. /\ EffectOnAccounts(u) /\ EffectOnChallenges(u)
      /\ EffectOnSessions(u) /\ EffectOnPasskeys(u) /\ Deactivation
  BY DEF Effect
<1>2. TablesOK /\ DeactivatedHasNoAccess /\ OneSessionPerProof
  BY DEF IInv, TypeOK
<1>3. TablesOK' /\ OneAccountPerEmail' /\ GuessesAreLimited'
  BY <1>1 DEF EffectOnAccounts, EffectOnChallenges, EffectOnSessions, EffectOnPasskeys, TablesOK
<1>4. DeactivatedHasNoAccess'
  <2> SUFFICES ASSUME NEW a \in DOMAIN accounts', accounts'[a].status = "deactivated"
               PROVE  (OpenOf(a) = {} /\ KeptOf(a) = {} /\ UsableOf(a) = {})'
    BY DEF DeactivatedHasNoAccess
  <2>1. a \in DOMAIN accounts
    BY <1>1 DEF EffectOnAccounts
  <2>2. CASE accounts[a].status = "active"
    BY <1>1, <2>1, <2>2 DEF Deactivation
  <2>3. CASE accounts[a].status # "active"
    <3>1. OpenOf(a) = {} /\ KeptOf(a) = {} /\ UsableOf(a) = {}
      BY <1>2, <2>1, <2>3, TableTypes DEF DeactivatedHasNoAccess
    <3>2. OpenOf(a)' = {}
      BY <1>1, <3>1 DEF EffectOnChallenges, ActiveAfter, OpenOf, Open
    <3>3. KeptOf(a)' = {}
      BY <1>1, <3>1 DEF EffectOnSessions, ActiveAfter, KeptOf, Kept
    <3>4. UsableOf(a)' = {}
      BY <1>1, <3>1 DEF EffectOnPasskeys, ActiveAfter, UsableOf, Usable
    <3> QED
      BY <3>2, <3>3, <3>4
  <2> QED
    BY <2>2, <2>3
<1>5. OneSessionPerProof'
  <2> SUFFICES ASSUME NEW s \in DOMAIN sessions'
               PROVE  /\ sessions'[s].proof.kind = "challenge" =>
                           /\ sessions'[s].proof.of \in DOMAIN challenges'
                           /\ challenges'[sessions'[s].proof.of].state = "used"
                      /\ sessions'[s].proof.kind # "passkey" =>
                           \A r \in DOMAIN sessions' :
                             sessions'[r].proof = sessions'[s].proof => r = s
    BY DEF OneSessionPerProof
  <2> DEFINE proof == sessions'[s].proof
  <2>1. ASSUME NEW x \in DOMAIN sessions
        PROVE  /\ x \in DOMAIN sessions' /\ sessions'[x].proof = sessions[x].proof
               /\ sessions[x].proof.kind = "challenge" =>
                    /\ sessions[x].proof.of \in DOMAIN challenges
                    /\ challenges[sessions[x].proof.of].state = "used"
    BY <1>1, <1>2 DEF EffectOnSessions, OneSessionPerProof
  <2>2. ASSUME NEW x \in DOMAIN sessions' \ DOMAIN sessions
        PROVE  /\ <<"session", x>> \in New(request[u])
               /\ sessions'[x].proof.kind = "challenge" =>
                    /\ sessions'[x].proof.of \in DOMAIN challenges
                    /\ challenges[sessions'[x].proof.of].state = "open"
                    /\ challenges'[sessions'[x].proof.of].state = "used"
               /\ sessions'[x].proof.kind = "token" => ~Exchanged(sessions'[x].proof.of)
    BY <1>1 DEF EffectOnSessions
  <2>3. /\ DOMAIN challenges \subseteq DOMAIN challenges'
        /\ \A c \in DOMAIN challenges :
             challenges[c].state = "used" => challenges'[c].state = "used"
    BY <1>1 DEF EffectOnChallenges
  <2>4. proof.kind = "challenge" =>
          proof.of \in DOMAIN challenges' /\ challenges'[proof.of].state = "used"
    BY <2>1, <2>2, <2>3
  <2>5. ASSUME NEW r \in DOMAIN sessions', sessions'[r].proof = proof, proof.kind # "passkey"
        PROVE  r = s
    <3>1. CASE r \in DOMAIN sessions /\ s \in DOMAIN sessions
      BY <1>2, <2>1, <2>5, <3>1 DEF OneSessionPerProof
    <3>2. ASSUME NEW x \in DOMAIN sessions, NEW y \in DOMAIN sessions' \ DOMAIN sessions,
                 sessions'[x].proof = sessions'[y].proof, sessions'[x].proof.kind # "passkey"
          PROVE  FALSE
      <4>1. sessions[x].proof = sessions'[y].proof /\ sessions[x].proof \in Proofs
        BY <1>2, <2>1, <3>2, TableTypes
      <4>2. CASE sessions[x].proof.kind = "challenge"
        BY <2>1, <2>2, <4>1, <4>2
      <4>3. CASE sessions[x].proof.kind = "token"
        BY <2>2, <4>1, <4>3, ProofShape DEF Exchanged
      <4> QED
        BY <2>1, <3>2, <4>1, <4>2, <4>3, ProofShape
    <3>3. CASE r \notin DOMAIN sessions /\ s \notin DOMAIN sessions
      <4>1. <<"session", r>> \in New(request[u]) /\ <<"session", s>> \in New(request[u])
        BY <2>2, <3>3
      <4>2. \A x, y \in New(request[u]) : x = y
        BY DEF New
      <4> QED
        BY <4>1, <4>2
    <3> QED
      BY <2>5, <3>1, <3>2, <3>3
  <2> QED
    BY <2>4, <2>5
<1>6. OwnersExist'
  <2>1. DOMAIN accounts \subseteq DOMAIN accounts' /\ OwnersExist
    BY <1>1 DEF IInv, EffectOnAccounts
  <2>2. \A c \in DOMAIN challenges' : challenges'[c].account \in DOMAIN accounts'
    BY <1>1, <2>1 DEF OwnersExist, ActiveAfter, EffectOnChallenges
  <2>3. \A s \in DOMAIN sessions' : sessions'[s].account \in DOMAIN accounts'
    BY <1>1, <2>1 DEF OwnersExist, ActiveAfter, EffectOnSessions
  <2>4. \A p \in DOMAIN passkeys' : passkeys'[p].account \in DOMAIN accounts'
    BY <1>1, <2>1 DEF OwnersExist, ActiveAfter, EffectOnPasskeys
  <2> QED
    BY <2>2, <2>3, <2>4 DEF OwnersExist
<1> QED
  BY <1>3, <1>4, <1>5, <1>6

-----------------------------------------------------------------------------
(* What another call has found is still there after a step that leaves its *)
(* rows alone.                                                             *)

\* A step that is not one of t.
Still(t) ==
  /\ request' = request /\ at'[t] = at[t] /\ stage'[t] = stage[t] /\ rows'[t] = rows[t]
  /\ held'[t] = held[t] /\ verdict'[t] = verdict[t] /\ answer'[t] = answer[t]

\* A step in which t may lock more rows, or end.
Keeps(t) ==
  /\ request' = request /\ held[t] \subseteq held'[t]
  /\ HeldOf(t, "account")' = HeldOf(t, "account")

SameVerdict(k, t) ==
  /\ k = "holder" => (verdict'[t] = "expired" <=> verdict[t] = "expired")
  /\ k = "challenge" => (verdict'[t] = "wrong" <=> verdict[t] = "wrong")
  /\ k = "candidate" => (verdict'[t] = "void" <=> verdict[t] = "void")
  /\ k = "victim" => (verdict'[t] = "absent" <=> verdict[t] = "absent")

\* No row becomes a row of an account that t holds.
NoneAdded(t) ==
  \A a \in Accounts :
    <<"account", a>> \in held[t] =>
      OpenOf(a)' \subseteq OpenOf(a) /\ KeptOf(a)' \subseteq KeptOf(a)
        /\ UsableOf(a)' \subseteq UsableOf(a)

LEMMA StillControl ==
  ASSUME NEW t \in Calls, Still(t)
  PROVE  /\ ControlOK(t)' <=> ControlOK(t)
         /\ Wanted(t)' = Wanted(t)
         /\ \A k : /\ Begun(k, t)' <=> Begun(k, t)
                   /\ Passed(k, t)' <=> Passed(k, t)
                   /\ HeldOf(t, k)' = HeldOf(t, k)
                   /\ Keeps(t) /\ SameVerdict(k, t)
<1>1. ControlOK(t)' <=> ControlOK(t)
  BY DEF Still, ControlOK
<1>2. Wanted(t)' = Wanted(t)
  BY DEF Still, Wanted
<1>3. ASSUME NEW k
      PROVE  /\ Begun(k, t)' <=> Begun(k, t)
             /\ Passed(k, t)' <=> Passed(k, t)
             /\ HeldOf(t, k)' = HeldOf(t, k)
             /\ Keeps(t) /\ SameVerdict(k, t)
  BY DEF Still, Begun, Passed, HeldOf, Keeps, SameVerdict
<1> QED
  BY <1>1, <1>2, <1>3

LEMMA GrowsAdds ==
  ASSUME TablesOK, NEW t \in Calls, Grown, Same(t)
  PROVE  NoneAdded(t)
<1> SUFFICES ASSUME NEW a \in Accounts, <<"account", a>> \in held[t]
             PROVE  OpenOf(a)' \subseteq OpenOf(a) /\ KeptOf(a)' \subseteq KeptOf(a)
                      /\ UsableOf(a)' \subseteq UsableOf(a)
  BY DEF NoneAdded
<1>1. OpenOf(a)' \subseteq OpenOf(a)
  BY DEF Grown, Same, OpenOf, Open
<1>2. KeptOf(a)' \subseteq KeptOf(a)
  BY DEF Grown, Same, KeptOf, Kept
<1>3. UsableOf(a)' \subseteq UsableOf(a)
  BY DEF Grown, Same, UsableOf, Usable
<1> QED
  BY <1>1, <1>2, <1>3

LEMMA SeenStays ==
  ASSUME NEW t \in Calls, NEW k, request' = request, Grown, Seen(k, t)
  PROVE  Seen(k, t)'
  BY DEF Seen, Grown

\* What is known of a call that has begun statement k.
LEMMA BegunFacts ==
  ASSUME TypeOK, NEW t \in Calls, ControlOK(t), CallOK(t), stage[t] # "done",
         NEW k, Begun(k, t)
  PROVE  /\ Prior(k, t) /\ Seen(k, t) /\ Covers(k, t)
         /\ \A j : Passed(j, t) => Seen(j, t) /\ Known(j, t)
<1>1. Reached(k, t)
  BY Reaching
<1>2. Prior(k, t)
  BY <1>1, Order DEF TypeOK
<1>3. \A j : Passed(j, t) => Begun(j, t)
  BY Reaching
<1> QED
  BY <1>2, <1>3 DEF CallOK

LEMMA SelectedShrinks ==
  ASSUME TablesOK, NEW t \in Calls, request[t] \in Requests, held \in [Calls -> SUBSET Row],
         Keeps(t), Grown, Same(t),
         NEW k, k \notin {"recipient", "activity"}, Prior(k, t), Seen(k, t),
         \A j : Passed(j, t) => Seen(j, t) /\ Known(j, t)
  PROVE  Selected(k, t)' \subseteq Selected(k, t)
<1> DEFINE q == request[t]
<1>1. request' = request /\ HeldOf(t, "account")' = HeldOf(t, "account")
  BY DEF Keeps
<1>2. NoneAdded(t)
  BY GrowsAdds
<1>3. CASE k = "owner"
  BY <1>3 DEF Selected
<1>4. CASE k = "emails"
  <2>1. CASE q.op # "update"
    BY <1>1, <1>4, <2>1 DEF Selected
  <2>2. CASE q.op = "update"
    <3>1. Passed("target", t)
      BY <1>4, <2>2 DEF Prior
    <3>2. q.account \in DOMAIN accounts /\ <<"account", q.account>> \in held[t]
      BY <3>1, SelectedRows DEF Seen, Known
    <3>3. accounts'[q.account].email = accounts[q.account].email
      BY <3>2 DEF Same
    <3> QED
      BY <1>1, <1>4, <2>2, <3>3 DEF Selected
  <2> QED
    BY <2>1, <2>2
<1>5. CASE k \in {"session", "own_session"}
  BY <1>1, <1>5 DEF Selected
<1>6. CASE k = "holder"
  <2>1. q.session \in DOMAIN sessions
    BY <1>6 DEF Prior, Seen
  <2> QED
    BY <1>1, <1>6, <2>1 DEF Selected, Grown
<1>7. CASE k = "open"
  <2>1. /\ Selected(k, t) = {"challenge"} \X UNION {OpenOf(a) : a \in HeldOf(t, "account")}
        /\ Selected(k, t)' = {"challenge"} \X UNION {OpenOf(a)' : a \in HeldOf(t, "account")}
    BY <1>1, <1>7 DEF Selected
  <2>2. \A a \in HeldOf(t, "account") : a \in Accounts /\ <<"account", a>> \in held[t]
    BY HeldOfType, RowShape DEF HeldOf
  <2>3. \A a \in HeldOf(t, "account") : OpenOf(a)' \subseteq OpenOf(a)
    BY <1>2, <2>2 DEF NoneAdded
  <2> QED
    BY <2>1, <2>3
<1>8. CASE k \in {"challenge", "own_challenge"}
  BY <1>1, <1>8 DEF Selected, ChallengeOf
<1>9. CASE k = "candidate"
  <2>1. q.challenge \in DOMAIN challenges
    BY <1>9 DEF Prior, Seen
  <2> QED
    BY <1>1, <1>9, <2>1 DEF Selected, Grown
<1>10. CASE k \in {"bearer", "target"}
  BY <1>1, <1>10 DEF Selected, AccountOf
<1>11. CASE k \in {"registrant", "administrator"}
  <2>1. q.session \in DOMAIN sessions
    BY <1>11 DEF Seen
  <2>2. sessions'[q.session].account = sessions[q.session].account
    BY <2>1 DEF Grown
  <2> QED
    BY <1>1, <1>11, <2>2 DEF Selected, HolderOf
<1>12. CASE k = "credential"
  <2>1. q.passkey \in DOMAIN passkeys
    BY <1>12 DEF Seen
  <2> QED
    BY <1>1, <1>12, <2>1 DEF Selected, Grown
<1>13. CASE k \in {"domain", "grant"}
  BY <1>1, <1>13 DEF Selected
<1>14. CASE k \in {"challenges", "sessions", "passkeys", "victim"}
  <2>1. Passed("target", t) /\ q.account \in Accounts
    BY <1>14, RequestTypes DEF Prior, AdminOps
  <2>2. <<"account", q.account>> \in held[t]
    BY <2>1, SelectedRows DEF Known
  <2>3. /\ OpenOf(q.account)' \subseteq OpenOf(q.account)
        /\ KeptOf(q.account)' \subseteq KeptOf(q.account)
        /\ UsableOf(q.account)' \subseteq UsableOf(q.account)
    BY <1>1, <1>2, <2>1, <2>2 DEF NoneAdded, OpenOf, KeptOf, UsableOf
  <2> QED
    BY <1>1, <1>14, <2>3 DEF Selected
<1> QED
  BY <1>3, <1>4, <1>5, <1>6, <1>7, <1>8, <1>9, <1>10, <1>11, <1>12, <1>13, <1>14 DEF Prior

LEMMA KnownStays ==
  ASSUME TablesOK, OwnersExist, OneAccountPerEmail', NEW t \in Calls, request[t] \in Requests,
         held \in [Calls -> SUBSET Row], Keeps(t), Grown, Same(t),
         NEW k, Prior(k, t), Seen(k, t), Known(k, t), SameVerdict(k, t),
         \A j : Passed(j, t) => Seen(j, t) /\ Known(j, t)
  PROVE  Known(k, t)'
<1> DEFINE q == request[t]
<1>1. /\ request' = request /\ held[t] \subseteq held'[t] /\ SameVerdict(k, t)
      /\ HeldOf(t, "account")' = HeldOf(t, "account")
  BY DEF Keeps
<1>2. k \notin {"recipient", "activity"} => Selected(k, t)' \subseteq held'[t]
  BY <1>1, SelectedShrinks DEF Known
<1>3. CASE k \in {"session", "own_session"}
  <2>1. <<"session", q.session>> \in held[t] /\ Kept(q.session) /\ q.session \in DOMAIN sessions
    BY <1>3, SelectedRows DEF Known, Seen
  <2>2. Kept(q.session)'
    BY <1>1, <2>1 DEF Same, Grown, Kept
  <2> QED
    BY <1>1, <1>2, <1>3, <2>2 DEF Known
<1>4. CASE k = "holder"
  <2>1. Passed("session", t)
    BY <1>4 DEF Prior
  <2>2. /\ q.session \in DOMAIN sessions /\ <<"session", q.session>> \in held[t]
        /\ <<"account", sessions[q.session].account>> \in held[t]
    BY <1>4, <2>1, SelectedRows DEF Known, Seen
  <2>3. sessions[q.session].account \in DOMAIN accounts
    BY <2>2 DEF OwnersExist
  <2>4. sessions'[q.session] = sessions[q.session]
    BY <2>2 DEF Same
  <2>5. Active(sessions[q.session].account)' <=> Active(sessions[q.session].account)
    <3>1. PICK a \in DOMAIN accounts : a = sessions[q.session].account
      BY <2>3
    <3>2. accounts'[a].status = accounts[a].status /\ a \in DOMAIN accounts'
      BY <2>2, <3>1 DEF Grown, Same
    <3> QED
      BY <1>1, <2>4, <3>1, <3>2 DEF Active
  <2>6. Expired(q.session, q.now)' <=> Expired(q.session, q.now)
    BY <1>1, <2>4 DEF Expired
  <2> QED
    BY <1>1, <1>2, <1>4, <2>5, <2>6 DEF Known, SameVerdict
<1>5. CASE k = "recipient"
  <2>1. SUFFICES ASSUME NEW a \in HeldOf(t, "account")
                 PROVE  (a \in ActiveRecipient(q.email))' /\ ~InCooldown(a, q.now)'
    BY <1>1, <1>5 DEF Known
  <2>2. /\ a \in ActiveRecipient(q.email) /\ ~InCooldown(a, q.now)
        /\ a \in Accounts /\ <<"account", a>> \in held[t]
    BY <1>5, <2>1, HeldOfType, RowShape DEF Known, HeldOf
  <2>3. (a \in ActiveRecipient(q.email))'
    BY <1>1, <2>2 DEF ActiveRecipient, Recipient, Active, Same, Grown
  <2>4. ~InCooldown(a, q.now)'
    BY <1>1, <2>2 DEF InCooldown, Same, Grown
  <2> QED
    BY <2>3, <2>4
<1>6. CASE k = "challenge"
  <2>1. /\ q.challenge \in DOMAIN challenges /\ <<"challenge", q.challenge>> \in held[t]
        /\ Consumable(q.challenge, q.now)
    BY <1>6, SelectedRows DEF Known, Seen
  <2>2. challenges'[q.challenge] = challenges[q.challenge] /\ q.challenge \in DOMAIN challenges'
    BY <2>1 DEF Same, Grown
  <2>3. Consumable(q.challenge, q.now)'
    BY <1>1, <2>1, <2>2 DEF Consumable, Open
  <2> QED
    BY <1>1, <1>2, <1>6, <2>3 DEF Known, SameVerdict
<1>7. CASE k = "candidate"
  <2>1. Passed("challenge", t)
    BY <1>7 DEF Prior
  <2>2. /\ q.challenge \in DOMAIN challenges
        /\ <<"account", challenges[q.challenge].account>> \in held[t]
    BY <1>7, <2>1, SelectedRows DEF Known, Seen
  <2>3. /\ challenges[q.challenge].account \in DOMAIN accounts
        /\ challenges'[q.challenge].account = challenges[q.challenge].account
    BY <2>2 DEF OwnersExist, Grown
  <2>4. Active(challenges[q.challenge].account)' <=> Active(challenges[q.challenge].account)
    <3>1. PICK a \in DOMAIN accounts : a = challenges[q.challenge].account
      BY <2>3
    <3>2. accounts'[a].status = accounts[a].status /\ a \in DOMAIN accounts'
      BY <2>2, <3>1 DEF Grown, Same
    <3> QED
      BY <1>1, <2>3, <3>1, <3>2 DEF Active
  <2> QED
    BY <1>1, <1>2, <1>7, <2>4 DEF Known, SameVerdict
<1>8. CASE k = "bearer"
  <2>1. /\ q.account \in DOMAIN accounts /\ <<"account", q.account>> \in held[t]
        /\ Active(q.account) /\ ~Exchanged(q.token) /\ q.op = "exchange"
    BY <1>8, SelectedRows DEF Known, Seen, Prior
  <2>2. Active(q.account)'
    BY <1>1, <2>1 DEF Grown, Same, Active
  <2>3. ~Exchanged(q.token)'
    BY <1>1, <2>1 DEF Same
  <2> QED
    BY <1>1, <1>2, <1>8, <2>2, <2>3 DEF Known
<1>9. CASE k \in {"registrant", "administrator"}
  <2> DEFINE a == sessions[q.session].account
  <2>1. /\ q.session \in DOMAIN sessions /\ a \in DOMAIN accounts
        /\ <<"session", q.session>> \in held[t] /\ <<"account", a>> \in held[t]
        /\ k = "administrator" => <<"grant", a>> \in held[t]
    BY <1>9, SelectedRows DEF Known, Seen
  <2>2. Live(q.session, q.now)
    BY <1>9 DEF Known, Administers
  <2>3. sessions'[q.session] = sessions[q.session] /\ q.session \in DOMAIN sessions'
    BY <2>1 DEF Same, Grown
  <2>4. accounts'[a].status = accounts[a].status /\ a \in DOMAIN accounts'
    BY <2>1 DEF Same, Grown
  <2>5. Live(q.session, q.now)'
    BY <1>1, <2>2, <2>3, <2>4 DEF Live, Kept, Expired, Active
  <2>6. k = "administrator" => IsAdministrator(a)'
    BY <1>1, <1>9, <2>1, <2>3, <2>4 DEF Known, Administers, IsAdministrator, Active, Same
  <2>7. CASE k = "registrant"
    BY <1>1, <1>2, <2>5, <2>7 DEF Known
  <2>8. CASE k = "administrator"
    <3>1. Administers(q.session, q.now)'
      BY <1>1, <2>3, <2>5, <2>6, <2>8 DEF Administers
    <3>2. \A g : MayManage(q.session, g) => MayManage(q.session, g)'
      BY <1>1, <2>3 DEF MayManage
    <3> QED
      BY <1>1, <1>2, <2>8, <3>1, <3>2 DEF Known
  <2> QED
    BY <1>9, <2>7, <2>8
<1>10. CASE k = "credential"
  <2> DEFINE a == passkeys[q.passkey].account
  <2>1. /\ q.passkey \in DOMAIN passkeys /\ <<"passkey", q.passkey>> \in held[t]
        /\ <<"account", a>> \in held[t] /\ Readable(q.passkey, q.now) /\ ~Overtaken(q)
    BY <1>10, SelectedRows DEF Known, Seen
  <2>2. passkeys'[q.passkey] = passkeys[q.passkey] /\ q.passkey \in DOMAIN passkeys'
    BY <2>1 DEF Same, Grown
  <2>3. a \in DOMAIN accounts
    BY <2>1 DEF OwnersExist
  <2>4. Active(a) /\ accounts'[a].status = accounts[a].status /\ a \in DOMAIN accounts'
    BY <2>1, <2>3 DEF Readable, Same, Grown
  <2>5. Readable(q.passkey, q.now)' /\ ~Overtaken(q)'
    BY <1>1, <2>1, <2>2, <2>4 DEF Readable, Usable, Active, Overtaken
  <2> QED
    BY <1>1, <1>2, <1>10, <2>5 DEF Known
<1>11. CASE k = "domain"
  <2>1. q.account \in DOMAIN accounts /\ <<"domain", q.account>> \in held[t]
    BY <1>11, SelectedRows DEF Known, Seen
  <2>2. accounts'[q.account].version = accounts[q.account].version
    BY <2>1 DEF Same
  <2> QED
    BY <1>1, <1>2, <1>11, <2>2 DEF Known
<1>12. CASE k = "emails"
  <2>1. q.email \in Emails /\ ~Taken(q)
    BY <1>12, RequestTypes DEF Prior, Known
  <2>2. ~Taken(q)'
    <3>1. CASE q.op = "update"
      <4>1. Passed("target", t)
        BY <1>12, <3>1 DEF Prior
      <4>2. q.account \in DOMAIN accounts /\ <<"account", q.account>> \in held[t]
        BY <4>1, SelectedRows DEF Known, Seen
      <4>3. accounts'[q.account].email = accounts[q.account].email /\ q.account \in DOMAIN accounts'
        BY <4>2 DEF Same, Grown
      <4>4. CASE accounts[q.account].email = q.email
        <5>1. \A a \in DOMAIN accounts' : accounts'[a].email = q.email => a = q.account
          BY <4>3, <4>4 DEF OneAccountPerEmail
        <5> QED
          BY <1>1, <3>1, <5>1 DEF Taken, Recipient
      <4>5. CASE accounts[q.account].email # q.email
        <5>1. <<"email", q.email>> \in held[t]
          BY <1>12, <3>1, <4>5, SelectedRows DEF Known
        <5> QED
          BY <1>1, <2>1, <3>1, <5>1 DEF Taken, Recipient, Same
      <4> QED
        BY <4>4, <4>5
    <3>2. CASE q.op # "update"
      <4>1. <<"email", q.email>> \in held[t]
        BY <1>12, <3>2, SelectedRows DEF Known
      <4> QED
        BY <1>1, <2>1, <3>2, <4>1 DEF Taken, Recipient, Same
    <3> QED
      BY <3>1, <3>2
  <2> QED
    BY <1>1, <1>2, <1>12, <2>2 DEF Known
<1>13. CASE k = "owner"
  <2>1. <<"owner", Owner>> \in held[t] /\ Owner \notin DOMAIN accounts
    BY <1>13, SelectedRows DEF Known
  <2>2. Owner \notin DOMAIN accounts'
    BY <2>1 DEF Same
  <2> QED
    BY <1>1, <1>2, <1>13, <2>2 DEF Known
<1>14. CASE k = "victim"
  <2>1. Passed("target", t)
    BY <1>14 DEF Prior
  <2>2. q.account \in DOMAIN accounts /\ <<"account", q.account>> \in held[t]
        /\ q.account \in Accounts
    BY <2>1, SelectedRows, TableTypes DEF Known, Seen
  <2>3. KeptOf(q.account)' \subseteq KeptOf(q.account)
    BY <1>1, <2>2, GrowsAdds DEF NoneAdded, KeptOf
  <2>4. ASSUME q.victim \in KeptOf(q.account)
        PROVE  (q.victim \in KeptOf(q.account))'
    <3>1. <<"session", q.victim>> \in held[t] /\ q.victim \in DOMAIN sessions
      BY <1>14, <2>4, SelectedRows DEF Known, KeptOf
    <3>2. sessions'[q.victim] = sessions[q.victim] /\ q.victim \in DOMAIN sessions'
      BY <3>1 DEF Same, Grown
    <3> QED
      BY <1>1, <2>4, <3>2 DEF KeptOf, Kept
  <2> QED
    BY <1>1, <1>2, <1>14, <2>3, <2>4 DEF Known, SameVerdict
<1>15. CASE k \in {"open", "own_challenge", "activity", "target", "grant", "challenges",
                   "sessions", "passkeys"}
  BY <1>1, <1>2, <1>15 DEF Known
<1> QED
  BY <1>3, <1>4, <1>5, <1>6, <1>7, <1>8, <1>9, <1>10, <1>11, <1>12, <1>13, <1>14, <1>15 DEF Prior

LEMMA OthersCall ==
  ASSUME TypeOK, OwnersExist, OneAccountPerEmail', NEW t \in Calls, ControlOK(t), CallOK(t),
         Still(t), Grown, Same(t)
  PROVE  ControlOK(t)' /\ CallOK(t)'
<1>1. ControlOK(t)'
  BY StillControl
<1>2. SUFFICES ASSUME stage[t] # "done"
               PROVE  CallOK(t)'
  BY <1>1 DEF CallOK, Still
<1>3. TablesOK /\ request[t] \in Requests /\ held \in [Calls -> SUBSET Row] /\ request' = request
  BY DEF TypeOK, Still
<1>4. ASSUME NEW k, Begun(k, t)
      PROVE  Seen(k, t)' /\ Covers(k, t)'
  <2>1. /\ Prior(k, t) /\ Seen(k, t) /\ Covers(k, t)
        /\ \A j : Passed(j, t) => Seen(j, t) /\ Known(j, t)
    BY <1>2, <1>4, BegunFacts
  <2>2. k \notin {"recipient", "activity"} => Selected(k, t)' \subseteq Selected(k, t)
    BY <1>3, <2>1, SelectedShrinks, StillControl
  <2> QED
    BY <1>3, <2>1, <2>2, SeenStays, StillControl DEF Covers
<1>5. ASSUME NEW k, Passed(k, t)
      PROVE  Known(k, t)'
  <2>1. Begun(k, t)
    BY <1>5, Reaching
  <2>2. /\ Prior(k, t) /\ Seen(k, t)
        /\ \A j : Passed(j, t) => Seen(j, t) /\ Known(j, t)
    BY <1>2, <2>1, BegunFacts
  <2> QED
    BY <1>3, <1>5, <2>2, KnownStays, StillControl
<1>6. OwnRows(t)'
  <2>1. OwnRows(t) /\ Wanted(t)' = Wanted(t) /\ rows'[t] = rows[t] /\ held'[t] = held[t]
    BY <1>2, StillControl DEF CallOK, Still
  <2>2. /\ DOMAIN challenges \subseteq DOMAIN challenges'
        /\ \A c \in DOMAIN challenges : challenges'[c].account = challenges[c].account
        /\ DOMAIN passkeys \subseteq DOMAIN passkeys'
        /\ \A p \in DOMAIN passkeys : passkeys'[p].account = passkeys[p].account
    BY DEF Grown
  <2>3. /\ Begun("recipient", t)' <=> Begun("recipient", t)
        /\ Begun("open", t)' <=> Begun("open", t)
    BY StillControl
  <2> QED
    BY <1>3, <2>1, <2>2, <2>3 DEF OwnRows
<1>7. \A k : (Begun(k, t)' => Begun(k, t)) /\ (Passed(k, t)' => Passed(k, t))
  BY StillControl
<1> QED
  BY <1>4, <1>5, <1>6, <1>7 DEF CallOK

-----------------------------------------------------------------------------
(* The steps of a call before its commit *)

LEMMA Quiet ==
  ASSUME IInv, UNCHANGED <<tables, request>>
  PROVE  /\ Grown /\ \A t \in Calls : Same(t)
         /\ TablesOK' /\ OneAccountPerEmail' /\ OwnersExist' /\ GuessesAreLimited'
         /\ DeactivatedHasNoAccess' /\ OneSessionPerProof' /\ Stores' = Stores
<1>1. /\ accounts' = accounts /\ challenges' = challenges
      /\ sessions' = sessions /\ passkeys' = passkeys /\ request' = request
  BY DEF tables
<1>2. Grown /\ Stores' = Stores
  BY <1>1 DEF Grown, Stores
<1>3. \A t \in Calls : Same(t)
  BY <1>1 DEF Same, Exchanged
<1>4. TablesOK' /\ OneAccountPerEmail' /\ OwnersExist' /\ GuessesAreLimited'
  BY <1>1 DEF IInv, TypeOK, TablesOK, OneAccountPerEmail, OwnersExist, GuessesAreLimited
<1>5. DeactivatedHasNoAccess'
  BY <1>1 DEF IInv, DeactivatedHasNoAccess, OpenOf, Open, KeptOf, Kept, UsableOf, Usable
<1>6. OneSessionPerProof'
  BY <1>1 DEF IInv, OneSessionPerProof
<1> QED
  BY <1>2, <1>3, <1>4, <1>5, <1>6

\* Only "open" looks at the accounts that the call holds.
LEMMA SelectedButOpen ==
  ASSUME UNCHANGED <<tables, request>>, NEW t \in Calls, NEW k, Prior(k, t), k # "open"
  PROVE  Selected(k, t)' = Selected(k, t)
<1>1. /\ accounts' = accounts /\ challenges' = challenges
      /\ sessions' = sessions /\ passkeys' = passkeys /\ request' = request
  BY DEF tables
<1>2. /\ \A a : OpenOf(a)' = OpenOf(a) /\ KeptOf(a)' = KeptOf(a) /\ UsableOf(a)' = UsableOf(a)
      /\ \A e : ActiveRecipient(e)' = ActiveRecipient(e)
      /\ \A s : (Kept(s)' <=> Kept(s)) /\ HolderOf(s)' = HolderOf(s)
      /\ \A q : AccountOf(q)' = AccountOf(q) /\ ChallengeOf(q)' = ChallengeOf(q)
  BY <1>1 DEF OpenOf, Open, KeptOf, Kept, UsableOf, Usable, ActiveRecipient, Recipient, Active,
              HolderOf, AccountOf, ChallengeOf
<1> QED
  BY <1>1, <1>2 DEF Selected, Prior

LEMMA SelectedSame ==
  ASSUME UNCHANGED <<tables, request>>, NEW t \in Calls,
         HeldOf(t, "account")' = HeldOf(t, "account"), NEW k, Prior(k, t)
  PROVE  Selected(k, t)' = Selected(k, t)
<1>1. CASE k # "open"
  BY <1>1, SelectedButOpen
<1>2. CASE k = "open"
  <2>1. \A a : OpenOf(a)' = OpenOf(a)
    BY DEF tables, OpenOf, Open
  <2> QED
    BY <1>2, <2>1 DEF Selected
<1> QED
  BY <1>1, <1>2

LEMMA Endings ==
  /\ \A v \in Verdicts \ {"on", "failed"} : Told(v) \in Answers
  /\ \A k : Miss(k) \in Verdicts \ {"on", "failed"}
  /\ \A k : \A t \in Calls : Ruling(k, t) \in Verdicts \ {"failed"}
  /\ "none" \notin Answers
<1>1. \A v \in Verdicts \ {"on", "failed"} : Told(v) \in Answers
  BY DEF Told, Verdicts, Writing, Answers
<1>2. \A k : Miss(k) \in Verdicts \ {"on", "failed"}
  BY DEF Miss, Verdicts, Writing, Answers
<1>3. \A k : \A t \in Calls : Ruling(k, t) \in Verdicts \ {"failed"}
  BY DEF Ruling, Verdicts, Writing, Answers
<1>4. "none" \notin Answers
  BY DEF Answers
<1> QED
  BY <1>1, <1>2, <1>3, <1>4

LEMMA EndedCall ==
  ASSUME NEW t \in Calls, ControlOK(t), UNCHANGED <<request, at>>, stage'[t] = "done",
         rows'[t] = {}, held'[t] = {}, answer'[t] # "none"
  PROVE  ControlOK(t)' /\ CallOK(t)'
<1>1. CallOK(t)'
  BY DEF CallOK
<1>2. ControlOK(t)'
  BY DEF ControlOK
<1> QED
  BY <1>1, <1>2

\* What a begun or a checked statement of t keeps in a step of t that changes no table.
LEMMA OwnStep ==
  ASSUME IInv, UNCHANGED <<tables, request>>, NEW t \in Calls, Keeps(t), stage[t] # "done",
         Wanted(t) \subseteq Wanted(t)', NEW k, Begun(k, t)
  PROVE  /\ Prior(k, t) /\ Seen(k, t)' /\ Covers(k, t)'
         /\ Passed(k, t) /\ SameVerdict(k, t) => Known(k, t)'
<1>1. TypeOK /\ ControlOK(t) /\ CallOK(t) /\ OwnersExist /\ TablesOK
      /\ request[t] \in Requests /\ held \in [Calls -> SUBSET Row]
  BY DEF IInv, TypeOK
<1>2. Grown /\ Same(t) /\ OneAccountPerEmail'
  BY Quiet
<1>3. /\ Prior(k, t) /\ Seen(k, t) /\ Covers(k, t)
      /\ \A j : Passed(j, t) => Seen(j, t) /\ Known(j, t)
  BY <1>1, BegunFacts
<1>4. Seen(k, t)'
  BY <1>2, <1>3, SeenStays
<1>5. Covers(k, t)'
  <2>1. k \notin {"recipient", "activity"} => Selected(k, t)' = Selected(k, t)
    BY <1>3, SelectedSame DEF Keeps
  <2> QED
    BY <1>3, <2>1 DEF Covers
<1>6. Passed(k, t) /\ SameVerdict(k, t) => Known(k, t)'
  BY <1>1, <1>2, <1>3, KnownStays
<1> QED
  BY <1>3, <1>4, <1>5, <1>6

LEMMA SelectStep ==
  ASSUME IInv, NEW t \in Calls, Select(t), Sees(Statement(t), t)
  PROVE  CallOK(t)' /\ ControlOK(t)' /\ rows'[t] \subseteq Row
<1> DEFINE q == request[t]
           k == Statement(t)
<1>1. /\ stage[t] = "ready" /\ q.op \notin ReadOps /\ stage' = [stage EXCEPT ![t] = "locking"]
      /\ rows' = [rows EXCEPT ![t] = Selected(k, t)]
      /\ UNCHANGED <<tables, request, at, held, verdict, answer>>
  BY DEF Select
<1>2. /\ TypeOK /\ ControlOK(t) /\ CallOK(t) /\ TablesOK /\ q \in Requests
      /\ held \in [Calls -> SUBSET Row] /\ OwnersExist
  BY DEF IInv, TypeOK
<1>3. stage'[t] = "locking" /\ rows'[t] = Selected(k, t) /\ rows[t] = {}
  BY <1>1, <1>2 DEF TypeOK, ControlOK
<1>4. Len(Plan(q)) \in 0 .. 5 /\ at[t] \in 1 .. Len(Plan(q))
  BY <1>1, <1>2, PlanLength DEF ControlOK
<1>5. /\ \A j : Begun(j, t)' => Begun(j, t) \/ j = k
      /\ \A j : Passed(j, t)' <=> Passed(j, t)
      /\ \A j : Passed(j, t) => Begun(j, t)
  <2>1. ASSUME NEW j
        PROVE  (Begun(j, t)' => Begun(j, t) \/ j = k) /\ (Passed(j, t)' <=> Passed(j, t))
    BY <1>1, <1>3, <1>4 DEF Begun, Passed, Statement
  <2> QED
    BY <1>2, <2>1, Reaching
<1>6. Prior(k, t)
  <2>1. Reached(k, t)
    BY <1>1, <1>2, Reaching
  <2> QED
    BY <1>2, <1>4, <2>1, Order DEF TypeOK
<1>7. Keeps(t) /\ Wanted(t) \subseteq Wanted(t)' /\ \A j : SameVerdict(j, t)
  BY <1>1, <1>3 DEF Keeps, Wanted, HeldOf, SameVerdict
<1>8. Seen(k, t)
  BY <1>2, <1>6 DEF Seen, Sees, Kept, Live, Active, Administers, Open, OwnersExist, Prior
<1>9. \A j : Passed(j, t) => Seen(j, t)
  BY <1>1, <1>2, <1>5 DEF CallOK
<1>10. Selected(k, t) \subseteq Row
  BY <1>2, <1>6, <1>8, <1>9, SelectedType
<1>11. \A j : Begun(j, t)' => Seen(j, t)' /\ Covers(j, t)'
  <2>1. SUFFICES ASSUME NEW j, Begun(j, t)'
                 PROVE  Seen(j, t)' /\ Covers(j, t)'
    OBVIOUS
  <2>2. CASE Begun(j, t)
    BY <1>1, <1>7, <2>2, OwnStep
  <2>3. CASE j = k
    <3>1. Seen(j, t)'
      BY <1>1, <1>8, <2>3, Quiet, SeenStays
    <3>2. Selected(j, t)' = Selected(j, t)
      BY <1>1, <1>6, <1>7, <2>3, SelectedSame DEF Keeps
    <3> QED
      BY <1>3, <2>3, <3>1, <3>2 DEF Covers, Wanted
  <2> QED
    BY <1>5, <2>1, <2>2, <2>3
<1>12. \A j : Passed(j, t)' => Known(j, t)'
  BY <1>1, <1>5, <1>7, OwnStep
<1>13. OwnRows(t)'
  <2>1. OwnRows(t) /\ Wanted(t) = held[t] /\ Wanted(t)' = held[t] \cup Selected(k, t)
    BY <1>1, <1>2, <1>3 DEF CallOK, Wanted
  <2>2. ASSUME q.op \in {"status", "reset"}, NEW x \in Selected(k, t)
        PROVE  /\ x[1] = "challenge" =>
                    x[2] \in DOMAIN challenges /\ challenges[x[2]].account = q.account
               /\ x[1] = "passkey" =>
                    x[2] \in DOMAIN passkeys /\ passkeys[x[2]].account = q.account
               /\ x[1] \in {"challenge", "passkey"} /\ q.op = "status" => q.status # "active"
    <3>1. k \in {"activity", "administrator", "target", "domain",
                "challenges", "sessions", "passkeys"}
      BY <1>6, <2>2 DEF Prior
    <3>2. k = "activity" => x[1] \in {"session", "account"}
      <4>1. k = "activity" =>
              Selected(k, t) = IF Kept(q.session) THEN HolderOf(q.session)
                               ELSE {"session"} \X ({q.session} \cap DOMAIN sessions)
        BY DEF Selected
      <4> QED
        BY <2>2, <4>1 DEF HolderOf
    <3>3. k \in {"administrator", "target", "domain", "sessions"} =>
            x[1] \notin {"challenge", "passkey"}
      BY <2>2, SelectedRows
    <3>4. k \in {"challenges", "passkeys"} /\ q.op = "status" => q.status # "active"
      BY <1>6 DEF Prior
    <3>5. k = "challenges" =>
            x[1] = "challenge" /\ x[2] \in DOMAIN challenges /\ challenges[x[2]].account = q.account
      BY <2>2, SelectedRows DEF OpenOf
    <3>6. k = "passkeys" =>
            x[1] = "passkey" /\ x[2] \in DOMAIN passkeys /\ passkeys[x[2]].account = q.account
      BY <2>2, SelectedRows DEF UsableOf
    <3> QED
      BY <3>1, <3>2, <3>3, <3>4, <3>5, <3>6
  <2>3. ASSUME q.op = "issue"
        PROVE  \/ /\ k = "recipient"
                  /\ \E a \in Accounts : <<"account", a>> \in Selected(k, t)
                  /\ \A x \in Selected(k, t) : x[1] = "account"
               \/ /\ k = "open" /\ Passed("recipient", t)
                  /\ \A x \in Selected(k, t) :
                       /\ x[1] = "challenge" /\ x[2] \in DOMAIN challenges
                       /\ <<"account", challenges[x[2]].account>> \in held[t]
    <3>1. k \in {"recipient", "open"}
      BY <1>6, <2>3 DEF Prior, AdminOps
    <3>2. CASE k = "recipient"
      <4>1. Selected(k, t) = {"account"} \X ActiveRecipient(q.email)
        BY <3>2 DEF Selected
      <4>2. ActiveRecipient(q.email) # {} /\ ActiveRecipient(q.email) \subseteq Accounts
        BY <1>1, <1>2, <3>2, TableTypes DEF Select, Sees, ActiveRecipient, Recipient
      <4> QED
        BY <3>2, <4>1, <4>2
    <3>3. CASE k = "open"
      <4>1. Selected(k, t) = {"challenge"} \X UNION {OpenOf(a) : a \in HeldOf(t, "account")}
        BY <3>3, SelectedRows
      <4>2. \A a \in HeldOf(t, "account") : <<"account", a>> \in held[t]
        BY <1>2, HeldOfType
      <4> QED
        BY <1>6, <3>3, <4>1, <4>2 DEF OpenOf, Prior
    <3> QED
      BY <3>1, <3>2, <3>3
  <2>4. q.op = "issue" =>
          /\ Begun("recipient", t)' => Begun("recipient", t) \/ k = "recipient"
          /\ Begun("open", t)' => k = "open"
    <3>1. SUFFICES ASSUME q.op = "issue"
                   PROVE  ~Begun("open", t)
      BY <1>5
    <3>2. Plan(q) = <<"recipient", "open">>
      BY <3>1 DEF Plan
    <3>3. at[t] \in 1 .. 2 /\ Len(Plan(q)) = 2 /\ Plan(q)[1] = "recipient" /\ Plan(q)[2] = "open"
      BY <1>4, <3>2
    <3> QED
      BY <1>1, <3>3 DEF Begun
  <2>5. request' = request /\ challenges' = challenges /\ passkeys' = passkeys
        /\ held' = held /\ rows'[t] = Selected(k, t)
    BY <1>1, <1>3 DEF tables
  <2>6. CASE q.op \in {"status", "reset"}
    BY <2>1, <2>2, <2>5, <2>6 DEF OwnRows
  <2>7. CASE q.op = "issue"
    <3>1. /\ Begun("recipient", t)' => \E a \in Accounts : <<"account", a>> \in Wanted(t)'
          /\ Begun("open", t)' => \A x \in rows'[t] : x[1] = "challenge"
      BY <2>1, <2>3, <2>4, <2>5, <2>7 DEF OwnRows
    <3>2. \A x \in Wanted(t)' :
            x[1] = "challenge" =>
              x[2] \in DOMAIN challenges /\ <<"account", challenges[x[2]].account>> \in held[t]
      BY <2>1, <2>3, <2>7 DEF OwnRows
    <3> QED
      BY <2>5, <2>7, <3>1, <3>2 DEF OwnRows
  <2>8. CASE q.op \notin {"status", "reset", "issue"}
    BY <2>5, <2>8 DEF OwnRows
  <2> QED
    BY <2>6, <2>7, <2>8
<1>14. ControlOK(t)'
  BY <1>1, <1>2, <1>3 DEF ControlOK
<1> QED
  BY <1>3, <1>10, <1>11, <1>12, <1>13, <1>14 DEF CallOK

LEMMA KnownButRecipient ==
  ASSUME UNCHANGED <<tables, request, verdict>>, NEW t \in Calls, held[t] \subseteq held'[t],
         NEW k, Prior(k, t), k \notin {"recipient", "open"}, Known(k, t)
  PROVE  Known(k, t)'
<1>1. /\ accounts' = accounts /\ challenges' = challenges
      /\ sessions' = sessions /\ passkeys' = passkeys /\ request' = request /\ verdict' = verdict
  BY DEF tables
<1>2. Selected(k, t)' = Selected(k, t)
  BY SelectedButOpen
<1>3. /\ \A a : (Active(a)' <=> Active(a)) /\ KeptOf(a)' = KeptOf(a)
      /\ \A s, n : /\ Kept(s)' <=> Kept(s)
                   /\ Live(s, n)' <=> Live(s, n)
                   /\ Expired(s, n)' <=> Expired(s, n)
                   /\ Administers(s, n)' <=> Administers(s, n)
                   /\ MayManage(s, n)' <=> MayManage(s, n)
      /\ \A c, n : Consumable(c, n)' <=> Consumable(c, n)
      /\ \A p, n : Readable(p, n)' <=> Readable(p, n)
      /\ \A q : (Overtaken(q)' <=> Overtaken(q)) /\ (Taken(q)' <=> Taken(q))
      /\ \A k1 : Exchanged(k1)' <=> Exchanged(k1)
  BY <1>1 DEF Active, KeptOf, Kept, Live, Expired, Administers, IsAdministrator, MayManage,
              Consumable, Open, Readable, Usable, Overtaken, Taken, Recipient, Exchanged
<1> QED
  BY <1>1, <1>2, <1>3 DEF Known

LEMMA LockStep ==
  ASSUME IInv, NEW t \in Calls, NEW x, Lock(t, x)
  PROVE  CallOK(t)' /\ ControlOK(t)'
<1> DEFINE q == request[t]
<1>1. /\ stage[t] = "locking" /\ x \in rows[t]
      /\ held' = [held EXCEPT ![t] = @ \cup {x}] /\ rows' = [rows EXCEPT ![t] = @ \ {x}]
      /\ UNCHANGED <<tables, request, at, stage, verdict, answer>>
  BY DEF Lock, Following
<1>2. /\ TypeOK /\ ControlOK(t) /\ CallOK(t) /\ held \in [Calls -> SUBSET Row]
      /\ rows \in [Calls -> SUBSET Row] /\ q \in Requests
  BY DEF IInv, TypeOK
<1>3. /\ held'[t] = held[t] \cup {x} /\ rows'[t] = rows[t] \ {x} /\ x \in Row
      /\ Wanted(t)' = Wanted(t)
  BY <1>1, <1>2 DEF Wanted
<1>4. \A j : (Begun(j, t)' <=> Begun(j, t)) /\ (Passed(j, t)' <=> Passed(j, t))
  BY <1>1 DEF Begun, Passed
<1>5. \A j : (Passed(j, t) => Begun(j, t)) /\ SameVerdict(j, t)
  BY <1>1, <1>2, Reaching DEF SameVerdict
<1>6. OwnRows(t)
  BY <1>1, <1>2 DEF CallOK
<1>7. q.op = "issue" => Begun("recipient", t)
  <2>1. SUFFICES ASSUME q.op = "issue"
                 PROVE  Begun("recipient", t)
    OBVIOUS
  <2>2. Plan(q) = <<"recipient", "open">>
    BY <2>1 DEF Plan
  <2>3. at[t] \in 1 .. 2 /\ Len(Plan(q)) = 2 /\ Plan(q)[1] = "recipient"
    BY <1>1, <1>2, <2>2 DEF ControlOK
  <2> QED
    BY <1>1, <2>3 DEF Begun
<1>8. x[1] = "account" => ~Begun("open", t) /\ (Passed("recipient", t) => Begun("open", t))
  <2>1. SUFFICES ASSUME x[1] = "account"
                 PROVE  ~Begun("open", t) /\ (Passed("recipient", t) => Begun("open", t))
    OBVIOUS
  <2>2. ASSUME Begun("open", t)
        PROVE  FALSE
    <3>1. Prior("open", t)
      BY <1>1, <1>2, <2>2, BegunFacts
    <3>2. q.op = "issue"
      BY <3>1 DEF Prior
    <3> QED
      BY <1>1, <1>6, <2>1, <2>2, <3>2 DEF OwnRows
  <2>3. ASSUME Passed("recipient", t)
        PROVE  Begun("open", t)
    <3>1. Prior("recipient", t)
      BY <1>1, <1>2, <1>5, <2>3, BegunFacts
    <3>2. q.op = "issue"
      BY <3>1 DEF Prior
    <3>3. Plan(q) = <<"recipient", "open">>
      BY <3>2 DEF Plan
    <3>4. /\ at[t] \in 1 .. 2 /\ Len(Plan(q)) = 2
          /\ Plan(q)[1] = "recipient" /\ Plan(q)[2] = "open"
      BY <1>1, <1>2, <3>3 DEF ControlOK
    <3>5. at[t] = 2
      BY <1>1, <2>3, <3>4 DEF Passed
    <3> QED
      BY <1>1, <3>4, <3>5 DEF Begun
  <2> QED
    BY <2>2, <2>3
<1>9. \A j : Begun(j, t)' => Seen(j, t)' /\ Covers(j, t)'
  <2>1. SUFFICES ASSUME NEW j, Begun(j, t)
                 PROVE  Seen(j, t)' /\ Covers(j, t)'
    BY <1>4
  <2>2. Prior(j, t) /\ Seen(j, t) /\ Covers(j, t)
    BY <1>1, <1>2, <2>1, BegunFacts
  <2>3. Seen(j, t)'
    BY <1>1, <2>2, Quiet, SeenStays
  <2>4. CASE x[1] # "account"
    <3>1. HeldOf(t, "account")' = HeldOf(t, "account")
      BY <1>3, <2>4 DEF HeldOf
    <3>2. Selected(j, t)' = Selected(j, t)
      BY <1>1, <2>2, <3>1, SelectedSame
    <3> QED
      BY <1>3, <2>2, <2>3, <3>2 DEF Covers
  <2>5. CASE x[1] = "account"
    <3>1. j # "open"
      BY <1>8, <2>1, <2>5
    <3>2. Selected(j, t)' = Selected(j, t)
      BY <1>1, <2>2, <3>1, SelectedButOpen
    <3> QED
      BY <1>3, <2>2, <2>3, <3>2 DEF Covers
  <2> QED
    BY <2>4, <2>5
<1>10. \A j : Passed(j, t)' => Known(j, t)'
  <2>1. SUFFICES ASSUME NEW j, Passed(j, t)
                 PROVE  Known(j, t)'
    BY <1>4
  <2>2. /\ Prior(j, t) /\ Seen(j, t) /\ Known(j, t) /\ SameVerdict(j, t)
    BY <1>1, <1>2, <1>5, <2>1, BegunFacts
  <2>3. CASE x[1] # "account"
    <3>1. HeldOf(t, "account")' = HeldOf(t, "account")
      BY <1>3, <2>3 DEF HeldOf
    <3>2. Keeps(t) /\ Wanted(t) \subseteq Wanted(t)'
      BY <1>1, <1>3, <3>1 DEF Keeps
    <3> QED
      BY <1>1, <1>5, <2>1, <2>2, <3>2, OwnStep
  <2>4. CASE x[1] = "account"
    <3>1. j \notin {"recipient", "open"}
      BY <1>5, <1>8, <2>1, <2>4
    <3> QED
      BY <1>1, <1>3, <2>2, <3>1, KnownButRecipient
  <2> QED
    BY <2>3, <2>4
<1>11. OwnRows(t)'
  <2>1. request' = request /\ challenges' = challenges /\ passkeys' = passkeys
        /\ held[t] \subseteq held'[t] /\ rows'[t] \subseteq rows[t]
    BY <1>1, <1>3 DEF tables
  <2> QED
    BY <1>3, <1>4, <1>6, <2>1 DEF OwnRows
<1>12. ControlOK(t)'
  BY <1>1, <1>2, <1>3 DEF ControlOK
<1> QED
  BY <1>9, <1>10, <1>11, <1>12 DEF CallOK

\* What a statement has found when the call goes on or writes after its check.
LEMMA CheckFinds ==
  ASSUME IInv, NEW t \in Calls, stage[t] = "locking", rows[t] = {},
         NEW k, k = Statement(t),
         NEW v, v = IF Passes(k, t) THEN Ruling(k, t) ELSE Miss(k),
         v \in Writing \cup {"on"}, UNCHANGED <<tables, request, held>>,
         verdict'[t] = v \/ (v = "on" /\ verdict'[t] = "ok")
  PROVE  /\ Known(k, t)' /\ Begun(k, t) /\ Prior(k, t)
         /\ v \in {"on", "wrong", "void", "expired", "absent"}
         /\ v = "wrong" => k = "challenge"
         /\ v = "void" => k = "candidate"
         /\ v = "expired" => k = "holder"
         /\ v = "absent" => k = "victim"
<1> DEFINE q == request[t]
<1>1. /\ TypeOK /\ ControlOK(t) /\ CallOK(t) /\ held \in [Calls -> SUBSET Row] /\ q \in Requests
      /\ TablesOK /\ OwnersExist
  BY DEF IInv, TypeOK
<1>2. Begun(k, t) /\ Wanted(t) = held[t]
  BY <1>1, Reaching DEF Wanted
<1>3. /\ Prior(k, t) /\ Seen(k, t) /\ Covers(k, t) /\ OwnRows(t)
      /\ \A j : Passed(j, t) => Seen(j, t) /\ Known(j, t)
  BY <1>1, <1>2, BegunFacts DEF CallOK
<1>4. /\ request' = request /\ held' = held /\ accounts' = accounts /\ challenges' = challenges
      /\ sessions' = sessions /\ passkeys' = passkeys
  BY DEF tables
<1>5. k \notin {"recipient", "activity"} => Selected(k, t)' \subseteq held'[t]
  <2>1. HeldOf(t, "account")' = HeldOf(t, "account")
    BY DEF HeldOf
  <2>2. Selected(k, t)' = Selected(k, t)
    BY <1>3, <2>1, SelectedSame
  <2> QED
    BY <1>2, <1>3, <1>4, <2>2 DEF Covers
<1>6. /\ \A a : (Active(a)' <=> Active(a)) /\ KeptOf(a)' = KeptOf(a)
      /\ \A s, n : /\ Kept(s)' <=> Kept(s)
                   /\ Live(s, n)' <=> Live(s, n)
                   /\ Expired(s, n)' <=> Expired(s, n)
                   /\ Administers(s, n)' <=> Administers(s, n)
                   /\ MayManage(s, n)' <=> MayManage(s, n)
                   /\ InCooldown(s, n)' <=> InCooldown(s, n)
      /\ \A c, n : Consumable(c, n)' <=> Consumable(c, n)
      /\ \A p, n : Readable(p, n)' <=> Readable(p, n)
      /\ \A r : (Overtaken(r)' <=> Overtaken(r)) /\ (Taken(r)' <=> Taken(r))
      /\ \A x : (Exchanged(x)' <=> Exchanged(x)) /\ ActiveRecipient(x)' = ActiveRecipient(x)
      /\ HeldOf(t, "account")' = HeldOf(t, "account")
  BY <1>4 DEF Active, KeptOf, Kept, Live, Expired, Administers, IsAdministrator, MayManage,
              InCooldown, Consumable, Open, Readable, Usable, Overtaken, Taken, Recipient,
              Exchanged, ActiveRecipient, HeldOf
<1>7. Miss(k) \in Writing =>
        (k = "holder" /\ Miss(k) = "expired") \/ (k = "candidate" /\ Miss(k) = "void")
  <2>1. /\ k = "holder" => Miss(k) = "expired"
        /\ k = "candidate" => Miss(k) = "void"
    BY DEF Miss
  <2>2. k \notin {"holder", "candidate"} =>
          Miss(k) \in {"invalid", "neutral", "nothing", "refused", "missing"}
    BY DEF Miss
  <2>3. k \notin {"holder", "candidate"} => Miss(k) \notin Writing
    BY <2>2 DEF Writing
  <2> QED
    BY <2>1, <2>3
<1>8. Miss(k) # "on"
  BY DEF Miss
<1>9. CASE ~Passes(k, t)
  <2>1. v = Miss(k) /\ verdict'[t] = v
    BY <1>8, <1>9
  <2>2. CASE k = "holder" /\ v = "expired"
    <3>1. ~Active(sessions[q.session].account) \/ Expired(q.session, q.now)
      BY <1>9, <2>2 DEF Passes
    <3>2. Known(k, t)'
      BY <1>4, <1>5, <1>6, <2>1, <2>2, <3>1 DEF Known
    <3> QED
      BY <1>2, <1>3, <2>2, <3>2
  <2>3. CASE k = "candidate" /\ v = "void"
    <3>1. ~Active(challenges[q.challenge].account)
      BY <1>9, <2>3 DEF Passes
    <3>2. Known(k, t)'
      BY <1>4, <1>5, <1>6, <2>1, <2>3, <3>1 DEF Known
    <3> QED
      BY <1>2, <1>3, <2>3, <3>2
  <2> QED
    BY <1>7, <1>8, <2>1, <2>2, <2>3
<1>10. CASE Passes(k, t)
  <2>1. v = Ruling(k, t)
    BY <1>10
  <2>2. /\ v \in {"on", "wrong", "absent"}
        /\ v = "wrong" => k = "challenge"
        /\ v = "absent" => k = "victim"
    BY <2>1 DEF Ruling, Writing
  <2>3. verdict'[t] \in {"on", "ok"} <=> v = "on"
    BY <2>2
  <2>4. CASE k \in {"session", "own_session"}
    <3>1. Kept(q.session)
      BY <1>10, <2>4 DEF Passes, Sees
    <3> QED
      BY <1>2, <1>3, <1>4, <1>5, <1>6, <2>2, <2>4, <3>1 DEF Known
  <2>5. CASE k = "holder"
    <3>1. Active(sessions[q.session].account) /\ ~Expired(q.session, q.now)
      BY <1>10, <2>5 DEF Passes
    <3>2. verdict'[t] # "expired"
      BY <2>2, <2>3
    <3> QED
      BY <1>2, <1>3, <1>4, <1>5, <1>6, <2>2, <2>5, <3>1, <3>2 DEF Known
  <2>6. CASE k = "recipient"
    <3>1. q.op = "issue"
      BY <1>3, <2>6 DEF Prior
    <3>2. PICK a \in Accounts : <<"account", a>> \in held[t]
      BY <1>2, <1>3, <2>6, <3>1 DEF OwnRows
    <3>3. HeldOf(t, "account") # {}
      BY <1>1, <3>2, HeldOfType
    <3>4. HeldOf(t, "account") \subseteq ActiveRecipient(q.email)
      BY <1>10, <2>6 DEF Passes
    <3>5. ~\E b \in HeldOf(t, "account") : InCooldown(b, q.now)
      BY <2>1, <2>2, <2>6 DEF Ruling
    <3> QED
      BY <1>2, <1>3, <1>4, <1>6, <2>2, <2>6, <3>3, <3>4, <3>5 DEF Known
  <2>7. CASE k = "challenge"
    <3>1. Consumable(q.challenge, q.now)
      BY <1>10, <2>7 DEF Passes
    <3>2. v = "wrong" <=> ~q.right
      BY <2>1, <2>2, <2>7 DEF Ruling
    <3>3. verdict'[t] = "wrong" <=> ~q.right
      BY <2>2, <2>3, <3>2
    <3> QED
      BY <1>2, <1>3, <1>4, <1>5, <1>6, <2>2, <2>7, <3>1, <3>3 DEF Known
  <2>8. CASE k = "candidate"
    <3>1. Active(challenges[q.challenge].account)
      BY <1>10, <2>8 DEF Passes
    <3>2. verdict'[t] # "void"
      BY <2>2, <2>3
    <3> QED
      BY <1>2, <1>3, <1>4, <1>5, <1>6, <2>2, <2>8, <3>1, <3>2 DEF Known
  <2>9. CASE k = "bearer"
    <3>1. Active(q.account)
      BY <1>10, <2>9 DEF Passes, Sees
    <3>2. ~Exchanged(q.token)
      BY <2>1, <2>2, <2>9 DEF Ruling
    <3> QED
      BY <1>2, <1>3, <1>4, <1>5, <1>6, <2>2, <2>9, <3>1, <3>2 DEF Known
  <2>10. CASE k = "registrant"
    BY <1>2, <1>3, <1>4, <1>5, <1>6, <1>10, <2>2, <2>10 DEF Passes, Sees, Known
  <2>11. CASE k = "credential"
    <3>1. Readable(q.passkey, q.now)
      BY <1>10, <2>11 DEF Passes
    <3>2. ~Overtaken(q)
      BY <2>1, <2>2, <2>11 DEF Ruling
    <3> QED
      BY <1>2, <1>3, <1>4, <1>5, <1>6, <2>2, <2>11, <3>1, <3>2 DEF Known
  <2>12. CASE k = "administrator"
    <3>1. Administers(q.session, q.now)
      BY <1>10, <2>12 DEF Passes, Sees
    <3>2. /\ q.op \in {"grant", "ungrant"} => MayManage(q.session, q.grant)
          /\ q.op = "ungrant" => ~(q.grant = Admin /\ q.account = Owner)
      BY <2>1, <2>2, <2>12 DEF Ruling, NeedsOwner, MayManage
    <3> QED
      BY <1>2, <1>3, <1>4, <1>5, <1>6, <2>2, <2>12, <3>1, <3>2 DEF Known
  <2>13. CASE k = "domain"
    <3>1. q.version = accounts[q.account].version + 1
      BY <2>1, <2>2, <2>13 DEF Ruling, Outdated
    <3> QED
      BY <1>2, <1>3, <1>4, <1>5, <2>2, <2>13, <3>1 DEF Known
  <2>14. CASE k = "emails"
    <3>1. ~Taken(q)
      BY <2>1, <2>2, <2>14 DEF Ruling
    <3> QED
      BY <1>2, <1>3, <1>4, <1>5, <1>6, <2>2, <2>14, <3>1 DEF Known
  <2>15. CASE k = "owner"
    <3>1. Owner \notin DOMAIN accounts
      BY <2>1, <2>2, <2>15 DEF Ruling
    <3> QED
      BY <1>2, <1>3, <1>4, <1>5, <2>2, <2>15, <3>1 DEF Known
  <2>16. CASE k = "victim"
    <3>1. v = "absent" <=> HeldOf(t, "session") \cap KeptOf(q.account) \cap {q.victim} = {}
      BY <2>1, <2>2, <2>16 DEF Ruling
    <3>2. q.victim \in KeptOf(q.account) => <<"session", q.victim>> \in held[t]
      BY <1>2, <1>3, <2>16, SelectedRows DEF Covers
    <3>3. v = "absent" <=> q.victim \notin KeptOf(q.account)
      BY <1>1, <3>1, <3>2, HeldOfType
    <3>4. verdict'[t] = "absent" <=> q.victim \notin KeptOf(q.account)
      BY <2>2, <2>3, <3>3
    <3> QED
      BY <1>2, <1>3, <1>4, <1>5, <1>6, <2>2, <2>16, <3>4 DEF Known
  <2>17. CASE k \in {"open", "own_challenge", "activity", "target", "grant", "challenges",
                     "sessions", "passkeys"}
    BY <1>2, <1>3, <1>4, <1>5, <2>2, <2>17 DEF Known
  <2> QED
    BY <1>2, <1>3, <2>2, <2>4, <2>5, <2>6, <2>7, <2>8, <2>9, <2>10, <2>11, <2>12, <2>13,
       <2>14, <2>15, <2>16, <2>17 DEF Prior
<1> QED
  BY <1>9, <1>10

LEMMA CheckStep ==
  ASSUME IInv, NEW t \in Calls, Check(t), stage'[t] # "done"
  PROVE  CallOK(t)' /\ ControlOK(t)' /\ at'[t] \in 1 .. 5
<1> DEFINE q == request[t]
<1>1. PICK k : k = Statement(t)
  OBVIOUS
<1>2. PICK v : v = IF Passes(k, t) THEN Ruling(k, t) ELSE Miss(k)
  OBVIOUS
<1>3. PICK more \in BOOLEAN : more <=> v = "on" /\ at[t] < Len(Plan(q))
  OBVIOUS
<1>4. /\ TypeOK /\ ControlOK(t) /\ CallOK(t) /\ q \in Requests
      /\ at \in [Calls -> 1 .. 5] /\ stage[t] = "locking" /\ rows[t] = {}
      /\ UNCHANGED <<tables, request>>
      /\ stage \in [Calls -> {"ready", "locking", "ending", "done"}]
      /\ verdict \in [Calls -> Verdicts]
  BY DEF IInv, TypeOK, Check
<1>5. /\ v \in Writing \cup {"on"}
      /\ stage' = [stage EXCEPT ![t] = IF more THEN "ready" ELSE "ending"]
      /\ at' = [at EXCEPT ![t] = IF more THEN @ + 1 ELSE @]
      /\ verdict' = [verdict EXCEPT ![t] = IF v = "on" /\ ~more THEN "ok" ELSE v]
      /\ UNCHANGED <<rows, held, answer>>
  <2>1. CASE v \in Writing \cup {"on"}
    BY <1>1, <1>2, <1>3, <2>1 DEF Check
  <2>2. CASE v \notin Writing \cup {"on"}
    <3>1. Ends(t, v)
      BY <1>1, <1>2, <2>2 DEF Check
    <3> QED
      BY <1>4, <3>1 DEF Ends
  <2> QED
    BY <2>1, <2>2
<1>6. /\ stage'[t] = IF more THEN "ready" ELSE "ending"
      /\ at'[t] = IF more THEN at[t] + 1 ELSE at[t]
      /\ verdict'[t] = IF v = "on" /\ ~more THEN "ok" ELSE v
      /\ rows'[t] = {} /\ answer'[t] = answer[t]
  BY <1>4, <1>5
<1>7. /\ q.op \notin ReadOps /\ verdict[t] = "on"
      /\ Len(Plan(q)) \in 0 .. 5 /\ at[t] \in 1 .. Len(Plan(q))
  BY <1>4, PlanLength DEF ControlOK
<1>8. /\ Known(k, t)' /\ Begun(k, t) /\ Prior(k, t)
      /\ v \in {"on", "wrong", "void", "expired", "absent"}
      /\ v = "wrong" => k = "challenge"
      /\ v = "void" => k = "candidate"
      /\ v = "expired" => k = "holder"
      /\ v = "absent" => k = "victim"
  <2>1. UNCHANGED <<tables, request, held>>
    BY <1>4, <1>5
  <2>2. verdict'[t] = v \/ (v = "on" /\ verdict'[t] = "ok")
    BY <1>6
  <2> QED
    BY <1>1, <1>2, <1>4, <1>5, <2>1, <2>2, CheckFinds
<1>9. /\ \A j : Begun(j, t)' <=> Begun(j, t)
      /\ \A j : Passed(j, t)' => Passed(j, t) \/ j = k
  <2>1. ASSUME NEW j
        PROVE  (Begun(j, t)' <=> Begun(j, t)) /\ (Passed(j, t)' => Passed(j, t) \/ j = k)
    <3>1. CASE more
      BY <1>1, <1>3, <1>4, <1>6, <1>7, <3>1 DEF Begun, Passed, Statement
    <3>2. CASE ~more
      BY <1>1, <1>4, <1>6, <1>7, <3>2 DEF Begun, Passed, Statement
    <3> QED
      BY <1>3, <3>1, <3>2
  <2> QED
    BY <2>1
<1>10. Keeps(t) /\ Wanted(t)' = Wanted(t)
  BY <1>4, <1>5 DEF Keeps, Wanted, HeldOf
<1>11. \A j : j # k => SameVerdict(j, t)
  BY <1>6, <1>7, <1>8 DEF SameVerdict
<1>12. \A j : Begun(j, t) => Seen(j, t)' /\ Covers(j, t)'
  BY <1>4, <1>10, OwnStep
<1>13. \A j : Passed(j, t)' => Known(j, t)'
  <2>1. SUFFICES ASSUME NEW j, Passed(j, t), j # k
                 PROVE  Known(j, t)'
    BY <1>8, <1>9
  <2>2. Begun(j, t)
    BY <1>4, <2>1, Reaching
  <2> QED
    BY <1>4, <1>10, <1>11, <2>1, <2>2, OwnStep
<1>14. OwnRows(t)'
  <2>1. OwnRows(t) /\ request' = request /\ challenges' = challenges /\ passkeys' = passkeys
        /\ held' = held /\ rows' = rows
    BY <1>4, <1>5 DEF CallOK, tables
  <2> QED
    BY <1>9, <1>10, <2>1 DEF OwnRows
<1>15. ControlOK(t)'
  <2>1. /\ (stage'[t] # "done" <=> answer'[t] = "none") /\ stage'[t] # "done"
        /\ rows'[t] = {} /\ request' = request
    BY <1>4, <1>6 DEF ControlOK
  <2>2. /\ stage'[t] = "ready" => verdict'[t] = "on" /\ at'[t] \in 1 .. Len(Plan(q))
        /\ stage'[t] # "ready" => at'[t] = at[t] /\ stage'[t] = "ending"
    BY <1>3, <1>6, <1>7
  <2>3. v = "on" /\ ~more => verdict'[t] = "ok" /\ at'[t] = Len(Plan(q))
    BY <1>3, <1>6, <1>7
  <2>4. ASSUME v # "on"
        PROVE  \/ verdict'[t] = "wrong" /\ q.op = "consume" /\ at'[t] = 1
               \/ verdict'[t] = "void" /\ q.op = "consume" /\ at'[t] = 2
               \/ verdict'[t] = "expired" /\ q.op = "authenticate" /\ at'[t] = 2
               \/ verdict'[t] = "absent" /\ q.op = "revoke" /\ at'[t] = 4
    <3>1. verdict'[t] = v /\ at'[t] = at[t] /\ k = Plan(q)[at[t]]
      BY <1>1, <1>3, <1>6, <2>4 DEF Statement
    <3>2. CASE k \in {"challenge", "candidate"}
      <4>1. q.op = "consume"
        BY <1>8, <3>2 DEF Prior
      <4>2. Plan(q) = <<"challenge", "candidate">>
        BY <4>1 DEF Plan
      <4>3. /\ at[t] \in {1, 2} /\ Plan(q)[1] = "challenge" /\ Plan(q)[2] = "candidate"
        BY <1>7, <4>2
      <4> QED
        BY <1>8, <2>4, <3>1, <3>2, <4>1, <4>3
    <3>3. CASE k = "holder"
      <4>1. q.op = "authenticate"
        BY <1>8, <3>3 DEF Prior
      <4>2. Plan(q) = <<"session", "holder">>
        BY <4>1 DEF Plan
      <4>3. at[t] \in {1, 2} /\ Plan(q)[1] = "session"
        BY <1>7, <4>2
      <4> QED
        BY <1>8, <2>4, <3>1, <3>3, <4>1, <4>3
    <3>4. CASE k = "victim"
      <4>1. q.op = "revoke"
        BY <1>8, <3>4 DEF Prior
      <4>2. Plan(q) = <<"activity", "administrator", "target", "victim">>
        BY <4>1 DEF Plan
      <4>3. /\ at[t] \in {1, 2, 3, 4} /\ Plan(q)[1] = "activity"
            /\ Plan(q)[2] = "administrator" /\ Plan(q)[3] = "target"
        BY <1>7, <4>2
      <4> QED
        BY <1>8, <2>4, <3>1, <3>4, <4>1, <4>3
    <3> QED
      BY <1>8, <2>4, <3>2, <3>3, <3>4
  <2>5. CASE stage'[t] = "ready"
    BY <1>7, <2>1, <2>2, <2>5 DEF ControlOK
  <2>6. CASE stage'[t] = "ending"
    <3>1. ~more
      BY <1>6, <2>6
    <3>2. at'[t] \in 1 .. Len(Plan(q))
      BY <1>7, <2>2, <2>6
    <3> QED
      BY <1>3, <1>7, <2>1, <2>3, <2>4, <2>6, <3>1, <3>2 DEF ControlOK
  <2> QED
    BY <2>2, <2>5, <2>6
<1>16. at'[t] \in 1 .. 5
  <2>1. at[t] \in 1 .. 5 /\ (at'[t] = at[t] \/ (more /\ at'[t] = at[t] + 1))
    BY <1>4, <1>6
  <2> DEFINE n == Len(Plan(q))
  <2>2. n \in Nat /\ n <= 5
    <3>1. n \in 0 .. 5
      BY <1>7
    <3> HIDE DEF n
    <3> QED
      BY <3>1
  <2>3. more => at[t] < n
    BY <1>3, <2>2
  <2>4. CASE at'[t] = at[t]
    BY <2>1, <2>4
  <2>5. CASE more /\ at'[t] = at[t] + 1
    <3>1. at[t] \in 1 .. 5 /\ at[t] < n /\ at'[t] = at[t] + 1
      BY <1>4, <2>3, <2>5
    <3> QED
      BY <2>2, <3>1
  <2> QED
    BY <2>1, <2>4, <2>5
<1> QED
  BY <1>9, <1>12, <1>13, <1>14, <1>15, <1>16 DEF CallOK

-----------------------------------------------------------------------------
(* Every step keeps the invariant *)

LEMMA CallsKeep ==
  ASSUME IInv, TypeOK', NEW t \in Calls, ControlOK(t)', CallOK(t)', Grown, request' = request,
         OneAccountPerEmail', OwnersExist', DeactivatedHasNoAccess', OneSessionPerProof',
         GuessesAreLimited', Stores' \subseteq Stores \cup New(request[t]),
         Stores' # Stores => stage'[t] = "done",
         \A u \in Calls \ {t} : Still(u) /\ Same(u),
         \A u \in Calls \ {t} : held'[t] \cap held[u] = {},
         stage'[t] # "done" => stage[t] # "done"
  PROVE  IInv'
<1>1. \A u \in Calls : ControlOK(u)' /\ CallOK(u)'
  <2> SUFFICES ASSUME NEW u \in Calls \ {t}
               PROVE  ControlOK(u)' /\ CallOK(u)'
    OBVIOUS
  <2>1. TypeOK /\ OwnersExist /\ ControlOK(u) /\ CallOK(u)
    BY DEF IInv
  <2> QED
    BY <2>1, OthersCall
<1>2. Exclusive'
  <2> SUFFICES ASSUME NEW u \in Calls, NEW w \in Calls, u # w
               PROVE  held'[u] \cap held'[w] = {}
    BY DEF Exclusive
  <2>1. CASE u # t /\ w # t
    BY <2>1 DEF IInv, Exclusive, Still
  <2>2. CASE u = t \/ w = t
    BY <2>2 DEF Still
  <2> QED
    BY <2>1, <2>2
<1>3. FreshInv'
  <2>1. ASSUME NEW u \in Calls, stage'[u] # "done"
        PROVE  New(request[u]) \cap Stores' = {}
    <3>1. New(request[u]) \cap Stores = {}
      BY <2>1 DEF IInv, FreshInv, Still
    <3>2. CASE u = t
      BY <2>1, <3>1, <3>2
    <3>3. CASE u # t
      BY <3>1, <3>3 DEF IInv, FreshInv
    <3> QED
      BY <3>2, <3>3
  <2>2. \A u \in Calls : New(request[u])' = New(request[u])
    BY DEF New
  <2> QED
    BY <2>1, <2>2 DEF IInv, FreshInv
<1> QED
  BY <1>1, <1>2, <1>3 DEF IInv

LEMMA EndStep ==
  ASSUME IInv, NEW t \in Calls, NEW v \in Verdicts, NEW r \in Answers,
         UNCHANGED <<tables, request, at>>, stage' = [stage EXCEPT ![t] = "done"],
         rows' = [rows EXCEPT ![t] = {}], held' = [held EXCEPT ![t] = {}],
         verdict' = [verdict EXCEPT ![t] = v], answer' = [answer EXCEPT ![t] = r]
  PROVE  IInv'
<1>1. TypeOK /\ ControlOK(t)
  BY DEF IInv
<1>2. /\ stage'[t] = "done" /\ rows'[t] = {} /\ held'[t] = {} /\ answer'[t] # "none"
  BY <1>1, Endings DEF TypeOK
<1>3. ControlOK(t)' /\ CallOK(t)'
  BY <1>1, <1>2, EndedCall
<1>4. /\ Grown /\ \A u \in Calls : Same(u)
      /\ TablesOK' /\ OneAccountPerEmail' /\ OwnersExist' /\ GuessesAreLimited'
      /\ DeactivatedHasNoAccess' /\ OneSessionPerProof' /\ Stores' = Stores
  BY Quiet
<1>5. TypeOK'
  BY <1>1, <1>4 DEF TypeOK
<1>6. \A u \in Calls \ {t} : Still(u)
  BY <1>1 DEF TypeOK, Still
<1> QED
  BY <1>2, <1>3, <1>4, <1>5, <1>6, CallsKeep

LEMMA EndsStep ==
  ASSUME IInv, NEW t \in Calls, NEW v \in Verdicts \ {"on", "failed"}, Ends(t, v),
         UNCHANGED <<tables, request, at>>
  PROVE  IInv'
<1>1. Told(v) \in Answers
  BY Endings
<1> QED
  BY <1>1, EndStep DEF Ends

LEMMA QueryKeeps ==
  ASSUME IInv, NEW t \in Calls, Query(t)
  PROVE  IInv'
<1>1. \E v \in {"ok", "missing", "invalid"} : Ends(t, v)
  BY DEF Query
<1> QED
  BY <1>1, EndsStep DEF Query, Verdicts, Writing, Answers

LEMMA FailKeeps ==
  ASSUME IInv, NEW t \in Calls, Fail(t)
  PROVE  IInv'
  BY EndStep DEF Fail, Verdicts, Answers

LEMMA SelectKeeps ==
  ASSUME IInv, NEW t \in Calls, Select(t)
  PROVE  IInv'
<1>1. TypeOK
  BY DEF IInv
<1>2. CASE ~Sees(Statement(t), t)
  <2>1. Ends(t, Miss(Statement(t))) /\ UNCHANGED <<tables, request, at>>
    BY <1>2 DEF Select
  <2> QED
    BY <2>1, Endings, EndsStep
<1>3. CASE Sees(Statement(t), t)
  <2>1. /\ stage[t] = "ready" /\ stage' = [stage EXCEPT ![t] = "locking"]
        /\ \E S : rows' = [rows EXCEPT ![t] = S]
        /\ UNCHANGED <<tables, request, at, held, verdict, answer>>
    BY <1>3 DEF Select
  <2>2. CallOK(t)' /\ ControlOK(t)' /\ rows'[t] \subseteq Row
    BY <1>3, SelectStep
  <2>3. /\ Grown /\ \A u \in Calls : Same(u)
        /\ TablesOK' /\ OneAccountPerEmail' /\ OwnersExist' /\ GuessesAreLimited'
        /\ DeactivatedHasNoAccess' /\ OneSessionPerProof' /\ Stores' = Stores
    BY <2>1, Quiet
  <2>4. TypeOK'
    BY <1>1, <2>1, <2>2, <2>3 DEF TypeOK
  <2>5. \A u \in Calls \ {t} : Still(u)
    BY <1>1, <2>1 DEF TypeOK, Still
  <2>6. \A u \in Calls \ {t} : held'[t] \cap held[u] = {}
    BY <2>1 DEF IInv, Exclusive
  <2> QED
    BY <2>1, <2>2, <2>3, <2>4, <2>5, <2>6, CallsKeep
<1> QED
  BY <1>2, <1>3

LEMMA LockKeeps ==
  ASSUME IInv, NEW t \in Calls, NEW x, Lock(t, x)
  PROVE  IInv'
<1>1. TypeOK
  BY DEF IInv
<1>2. /\ stage[t] = "locking" /\ x \in rows[t] /\ Free(x, t)
      /\ held' = [held EXCEPT ![t] = @ \cup {x}] /\ rows' = [rows EXCEPT ![t] = @ \ {x}]
      /\ UNCHANGED <<tables, request, at, stage, verdict, answer>>
  BY DEF Lock, Following
<1>3. CallOK(t)' /\ ControlOK(t)'
  BY LockStep
<1>4. /\ Grown /\ \A u \in Calls : Same(u)
      /\ TablesOK' /\ OneAccountPerEmail' /\ OwnersExist' /\ GuessesAreLimited'
      /\ DeactivatedHasNoAccess' /\ OneSessionPerProof' /\ Stores' = Stores
  BY <1>2, Quiet
<1>5. TypeOK'
  <2>1. held' \in [Calls -> SUBSET Row] /\ rows' \in [Calls -> SUBSET Row]
    BY <1>1, <1>2 DEF TypeOK
  <2> QED
    BY <1>1, <1>2, <1>4, <2>1 DEF TypeOK
<1>6. \A u \in Calls \ {t} : Still(u)
  BY <1>1, <1>2 DEF TypeOK, Still
<1>7. \A u \in Calls \ {t} : held'[t] \cap held[u] = {}
  BY <1>1, <1>2 DEF IInv, TypeOK, Exclusive, Free
<1> QED
  BY <1>2, <1>3, <1>4, <1>5, <1>6, <1>7, CallsKeep

LEMMA CheckKeeps ==
  ASSUME IInv, NEW t \in Calls, Check(t)
  PROVE  IInv'
<1>1. TypeOK /\ UNCHANGED <<tables, request>> /\ stage[t] = "locking"
  BY DEF IInv, Check
<1>2. PICK v : v = IF Passes(Statement(t), t) THEN Ruling(Statement(t), t) ELSE Miss(Statement(t))
  OBVIOUS
<1>3. v \in Verdicts \ {"failed"}
  BY <1>2, Endings
<1>4. CASE v \notin Writing \cup {"on"}
  <2>1. Ends(t, v) /\ UNCHANGED at
    BY <1>2, <1>4 DEF Check
  <2> QED
    BY <1>1, <1>3, <1>4, <2>1, EndsStep
<1>5. CASE v \in Writing \cup {"on"}
  <2>1. /\ \E s \in {"ready", "ending"} : stage' = [stage EXCEPT ![t] = s]
        /\ \E n : at' = [at EXCEPT ![t] = n]
        /\ \E w \in Verdicts : verdict' = [verdict EXCEPT ![t] = w]
        /\ UNCHANGED <<rows, held, answer>>
    <3>1. /\ \E s \in {"ready", "ending"} : stage' = [stage EXCEPT ![t] = s]
          /\ \E n : at' = [at EXCEPT ![t] = n]
          /\ UNCHANGED <<rows, held, answer>>
      BY <1>2, <1>5 DEF Check
    <3>2. \E w : verdict' = [verdict EXCEPT ![t] = w] /\ w \in {"ok", v}
      BY <1>2, <1>5 DEF Check
    <3>3. "ok" \in Verdicts
      BY DEF Verdicts, Writing
    <3> QED
      BY <1>3, <3>1, <3>2, <3>3
  <2>2. stage'[t] \in {"ready", "ending"}
    BY <1>1, <2>1 DEF TypeOK
  <2>3. CallOK(t)' /\ ControlOK(t)' /\ at'[t] \in 1 .. 5
    BY <2>2, CheckStep
  <2>4. /\ Grown /\ \A u \in Calls : Same(u)
        /\ TablesOK' /\ OneAccountPerEmail' /\ OwnersExist' /\ GuessesAreLimited'
        /\ DeactivatedHasNoAccess' /\ OneSessionPerProof' /\ Stores' = Stores
    BY <1>1, Quiet
  <2>5. TypeOK'
    <3>1. /\ stage' \in [Calls -> {"ready", "locking", "ending", "done"}]
          /\ verdict' \in [Calls -> Verdicts]
      BY <1>1, <2>1 DEF TypeOK
    <3>2. at' \in [Calls -> 1 .. 5]
      BY <1>1, <2>1, <2>3 DEF TypeOK
    <3> QED
      BY <1>1, <2>1, <2>4, <3>1, <3>2 DEF TypeOK
  <2>6. \A u \in Calls \ {t} : Still(u)
    BY <1>1, <2>1 DEF TypeOK, Still
  <2>7. \A u \in Calls \ {t} : held'[t] \cap held[u] = {}
    BY <2>1 DEF IInv, Exclusive
  <2> QED
    BY <1>1, <2>3, <2>4, <2>5, <2>6, <2>7, CallsKeep
<1> QED
  BY <1>4, <1>5

LEMMA CommitKeeps ==
  ASSUME IInv, NEW t \in Calls, Commit(t)
  PROVE  IInv'
<1>1. TypeOK /\ ControlOK(t) /\ stage[t] = "ending"
  BY DEF IInv, Commit
<1>2. /\ stage' = [stage EXCEPT ![t] = "done"] /\ held' = [held EXCEPT ![t] = {}]
      /\ \E r \in {Told(verdict[t]), "unavailable"} : answer' = [answer EXCEPT ![t] = r]
      /\ UNCHANGED <<request, at, rows, verdict>>
  BY DEF Commit
<1>3. Told(verdict[t]) \in Answers /\ "unavailable" \in Answers
  <2>1. verdict[t] \in {"ok", "wrong", "void", "expired", "absent"}
    BY <1>1 DEF ControlOK
  <2>2. verdict[t] \in Verdicts \ {"on", "failed"}
    BY <2>1 DEF Verdicts, Writing
  <2> QED
    BY <2>2, Endings DEF Answers
<1>4. /\ stage'[t] = "done" /\ rows'[t] = {} /\ held'[t] = {} /\ answer'[t] \in Answers
  BY <1>1, <1>2, <1>3 DEF TypeOK, ControlOK
<1>5. ControlOK(t)' /\ CallOK(t)'
  BY <1>1, <1>2, <1>4, Endings, EndedCall
<1>6. Effect(t)
  BY CommitEffect
<1>7. /\ TablesOK' /\ OneAccountPerEmail' /\ OwnersExist' /\ GuessesAreLimited'
      /\ DeactivatedHasNoAccess' /\ OneSessionPerProof'
  BY <1>6, EffectInvariants
<1>8. Grown /\ Stores' \subseteq Stores \cup New(request[t])
  BY <1>6, EffectGrows, EffectStores
<1>9. \A u \in Calls \ {t} : Same(u)
  BY <1>2, <1>6, EffectSame
<1>10. TypeOK'
  <2>1. /\ stage' \in [Calls -> {"ready", "locking", "ending", "done"}]
        /\ held' \in [Calls -> SUBSET Row] /\ answer' \in [Calls -> Answers \cup {"none"}]
    BY <1>1, <1>2, <1>3 DEF TypeOK
  <2> QED
    BY <1>1, <1>2, <1>7, <2>1 DEF TypeOK
<1>11. \A u \in Calls \ {t} : Still(u)
  BY <1>1, <1>2 DEF TypeOK, Still
<1> QED
  BY <1>2, <1>4, <1>5, <1>7, <1>8, <1>9, <1>10, <1>11, CallsKeep

LEMMA InitInv ==
  ASSUME Init
  PROVE  IInv
<1>1. /\ request \in [Calls -> Requests] /\ FreshIds
      /\ TablesOK /\ DeactivatedHasNoAccess /\ OneSessionPerProof
      /\ OneAccountPerEmail /\ OwnersExist /\ GuessesAreLimited
      /\ at = [t \in Calls |-> 1] /\ stage = [t \in Calls |-> "ready"]
      /\ rows = [t \in Calls |-> {}] /\ held = [t \in Calls |-> {}]
      /\ verdict = [t \in Calls |-> "on"] /\ answer = [t \in Calls |-> "none"]
  BY DEF Init
<1>2. TypeOK
  BY <1>1 DEF TypeOK, Verdicts
<1>3. Exclusive
  BY <1>1 DEF Exclusive
<1>4. FreshInv
  BY <1>1 DEF FreshInv, FreshIds
<1>5. ASSUME NEW t \in Calls
      PROVE  ControlOK(t) /\ CallOK(t)
  <2>1. /\ at[t] = 1 /\ stage[t] = "ready" /\ rows[t] = {} /\ held[t] = {} /\ verdict[t] = "on"
        /\ answer[t] = "none" /\ request[t] \in Requests
    BY <1>1
  <2>2. request[t].op \notin ReadOps => at[t] \in 1 .. Len(Plan(request[t]))
    <3> DEFINE n == Len(Plan(request[t]))
    <3>1. n \in 0 .. 5 /\ (request[t].op \notin ReadOps => n > 0)
      BY <2>1, PlanLength
    <3> HIDE DEF n
    <3>2. request[t].op \notin ReadOps => at[t] \in 1 .. n
      BY <2>1, <3>1
    <3> QED
      BY <3>2 DEF n
  <2>3. \A k : ~Begun(k, t) /\ ~Passed(k, t)
    BY <2>1 DEF Begun, Passed
  <2>4. OwnRows(t)
    BY <2>1, <2>3 DEF OwnRows, Wanted
  <2> QED
    BY <2>1, <2>2, <2>3, <2>4 DEF ControlOK, CallOK
<1> QED
  BY <1>1, <1>2, <1>3, <1>4, <1>5 DEF IInv

LEMMA StutterInv ==
  ASSUME IInv, UNCHANGED vars
  PROVE  IInv'
<1>1. /\ tables' = tables /\ request' = request /\ at' = at /\ stage' = stage /\ rows' = rows
      /\ held' = held /\ verdict' = verdict /\ answer' = answer
  BY DEF vars, control
<1>2. /\ Grown /\ \A u \in Calls : Same(u)
      /\ TablesOK' /\ OneAccountPerEmail' /\ OwnersExist' /\ GuessesAreLimited'
      /\ DeactivatedHasNoAccess' /\ OneSessionPerProof' /\ Stores' = Stores
  BY <1>1, Quiet
<1>3. \A u \in Calls : ControlOK(u)' /\ CallOK(u)'
  <2> SUFFICES ASSUME NEW u \in Calls
               PROVE  ControlOK(u)' /\ CallOK(u)'
    OBVIOUS
  <2>1. Still(u)
    BY <1>1 DEF Still
  <2> QED
    BY <1>2, <2>1, OthersCall DEF IInv
<1>4. TypeOK' /\ Exclusive'
  BY <1>1, <1>2 DEF IInv, TypeOK, Exclusive
<1>5. FreshInv'
  <2>1. \A u \in Calls : New(request[u])' = New(request[u])
    BY <1>1 DEF New
  <2> QED
    BY <1>1, <1>2, <2>1 DEF IInv, FreshInv
<1> QED
  BY <1>2, <1>3, <1>4, <1>5 DEF IInv

LEMMA NextInv ==
  ASSUME IInv, [Next]_vars
  PROVE  IInv'
<1>1. CASE UNCHANGED vars
  BY <1>1, StutterInv
<1>2. CASE Next
  BY <1>2, QueryKeeps, SelectKeeps, CheckKeeps, CommitKeeps, LockKeeps, FailKeeps DEF Next, Work
<1> QED
  BY <1>1, <1>2

-----------------------------------------------------------------------------
(* The theorems *)

\* The invariant holds of every behaviour of the store.
THEOREM Invariance == Spec => []IInv
<1>1. Init => IInv
  BY InitInv
<1>2. IInv /\ [Next]_vars => IInv'
  BY NextInv
<1> QED
  BY <1>1, <1>2, PTL DEF Spec

\* Every variable has its type: no table has a malformed row, every call is answered
\* with an answer of the port.
THEOREM TypeCorrect == Spec => []TypeOK
<1>1. IInv => TypeOK
  BY DEF IInv
<1> QED
  BY <1>1, Invariance, PTL

\* An account that was deactivated has no code, session or passkey that can be used,
\* whatever logins, registrations and codes were under way when it was deactivated.
THEOREM DeactivationIsComplete == Spec => []DeactivatedHasNoAccess
<1>1. IInv => DeactivatedHasNoAccess
  BY DEF IInv
<1> QED
  BY <1>1, Invariance, PTL

\* A mailed code or a provider token is good for one session, however many calls
\* present it at once.
THEOREM ProofsAreSpentOnce == Spec => []OneSessionPerProof
<1>1. IInv => OneSessionPerProof
  BY DEF IInv
<1> QED
  BY <1>1, Invariance, PTL

\* No number of calls at once guesses a code more often than MaxAttempts.
THEOREM GuessingIsLimited == Spec => []GuessesAreLimited
<1>1. IInv => GuessesAreLimited
  BY DEF IInv
<1> QED
  BY <1>1, Invariance, PTL

\* Two calls never hold the lock of one row, and no two accounts have one mail
\* address, though calls that change addresses run at once.
THEOREM LocksAndAddresses == Spec => [](Exclusive /\ OneAccountPerEmail)
<1>1. IInv => Exclusive /\ OneAccountPerEmail
  BY DEF IInv
<1> QED
  BY <1>1, Invariance, PTL

\* What an administrator asked for is committed only while the session it was asked
\* with is live and its account an active administrator.
THEOREM ChangesStayAuthorized == Spec => ChangesAreAuthorized
<1> DEFINE Authorized ==
      \A t \in Calls :
        request[t].op \in AdminOps /\ stage[t] = "ending" /\ tables' # tables
          /\ stage'[t] = "done" /\ verdict'[t] # "failed"
        => Administers(request[t].session, request[t].now)
<1>1. IInv /\ [Next]_vars => [Authorized]_vars
  <2> SUFFICES ASSUME IInv, [Next]_vars, NEW t \in Calls, request[t].op \in AdminOps,
                      stage[t] = "ending", tables' # tables, stage'[t] = "done",
                      verdict'[t] # "failed"
               PROVE  Administers(request[t].session, request[t].now)
    OBVIOUS
  <2>1. TypeOK /\ ControlOK(t)
    BY DEF IInv
  <2>2. PICK u \in Calls : Commit(u)
    <3>1. ~UNCHANGED vars
      BY DEF vars
    <3>2. Next
      BY <3>1
    <3>3. \A u \in Calls : ~Query(u) /\ ~Select(u) /\ ~Check(u) /\ ~Fail(u)
                             /\ \A x : ~Lock(u, x)
      BY DEF Query, Select, Check, Fail, Lock
    <3> QED
      BY <3>2, <3>3 DEF Next, Work
  <2>3. u = t
    BY <2>1, <2>2 DEF Commit, TypeOK
  <2>4. CASE verdict[t] = "ok"
    <3>1. Found("administrator", t)
      BY <2>4, AllFound DEF AdminOps
    <3> QED
      BY <3>1 DEF Found, Known
  <2>5. CASE verdict[t] # "ok"
    <3>1. request[t].op = "revoke" /\ at[t] = 4
      BY <2>1, <2>5 DEF ControlOK, AdminOps
    <3>2. Plan(request[t]) = <<"activity", "administrator", "target", "victim">>
      BY <3>1 DEF Plan
    <3>3. Passed("administrator", t)
      BY <3>1, <3>2 DEF Passed
    <3>4. Found("administrator", t)
      BY <3>3, CommitFound
    <3> QED
      BY <3>4 DEF Found, Known
  <2> QED
    BY <2>4, <2>5
<1> QED
  BY <1>1, Invariance, PTL DEF Spec, ChangesAreAuthorized

-----------------------------------------------------------------------------
(* The store implements the port: what a call does at its end is what one  *)
(* step of the port does.                                                  *)

LEMMA RevokedSame ==
  ASSUME NEW R, NEW S, NEW T,
         \A x \in DOMAIN R : R[x].revoked \in BOOLEAN /\ (R[x].revoked \/ (x \in S <=> x \in T))
  PROVE  Revoked(R, S) = Revoked(R, T)
<1>1. \A x \in DOMAIN R : (R[x].revoked \/ x \in S) = (R[x].revoked \/ x \in T)
  OBVIOUS
<1>2. \A x \in DOMAIN R :
        [R[x] EXCEPT !.revoked = R[x].revoked \/ x \in S]
          = [R[x] EXCEPT !.revoked = R[x].revoked \/ x \in T]
  BY <1>1
<1> QED
  BY <1>2 DEF Revoked

LEMMA RevokedNone ==
  ASSUME NEW R, R \in [DOMAIN R -> SessionRow], NEW S,
         \A s \in S \cap DOMAIN R : R[s].revoked
  PROVE  Revoked(R, S) = R
<1>1. /\ DOMAIN Revoked(R, S) = DOMAIN R
      /\ \A s \in DOMAIN R : s \notin S => Revoked(R, S)[s] = R[s]
      /\ \A s \in DOMAIN R : R[s].revoked => Revoked(R, S)[s] = R[s]
  BY RevokedSession
<1>2. \A s \in DOMAIN R : Revoked(R, S)[s] = R[s]
  BY <1>1
<1>3. Revoked(R, S) = [s \in DOMAIN R |-> Revoked(R, S)[s]]
  BY DEF Revoked
<1> QED
  BY <1>2, <1>3

LEMMA InvalidatedSame ==
  ASSUME NEW C, NEW D, \A c \in DOMAIN challenges : Open(c) => (c \in C <=> c \in D)
  PROVE  Invalidated(C) = Invalidated(D)
  BY DEF Invalidated

LEMMA InvalidatedNone ==
  ASSUME TablesOK, NEW C, \A c \in C : ~Open(c)
  PROVE  Invalidated(C) = challenges
  BY DEF Invalidated, TablesOK

\* The calls about a session or a code of their own.
LEMMA OwnPerforms ==
  ASSUME IInv, NEW u \in Calls, stage[u] = "ending", verdict[u] = "ok", Writes(u, request[u]),
         request[u].op \in {"authenticate", "logout", "invalidate", "consume", "exchange"}
  PROVE  Perform(request[u], "ok")
<1> DEFINE q == request[u]
<1>1. CASE q.op = "authenticate"
  <2>1. Found("session", u) /\ Found("holder", u)
    BY <1>1, AllFound
  <2>2. Kept(q.session) /\ Active(sessions[q.session].account) /\ ~Expired(q.session, q.now)
    BY <2>1 DEF Found, Known
  <2>3. AuthenticateSessionWrites(q)
    BY <1>1 DEF Writes
  <2>4. AuthenticateSession(q.session, q.now, "ok")
    BY <2>2, <2>3 DEF AuthenticateSession, AuthenticateSessionWrites
  <2> QED
    BY <1>1, <2>4 DEF Perform
<1>2. CASE q.op = "logout"
  <2>1. Found("own_session", u)
    BY <1>2, AllFound
  <2>2. Kept(q.session)
    BY <2>1 DEF Found, Known
  <2>3. RevokeSessionByVerifierWrites(q)
    BY <1>2 DEF Writes
  <2>4. RevokeSessionByVerifier(q.session, "ok")
    BY <2>2, <2>3 DEF RevokeSessionByVerifier, RevokeSessionByVerifierWrites
  <2> QED
    BY <1>2, <2>4 DEF Perform
<1>3. CASE q.op = "invalidate"
  <2>1. InvalidateChallengeWrites(q)
    BY <1>3 DEF Writes
  <2>2. InvalidateChallenge(q.challenge, "ok")
    BY <2>1 DEF InvalidateChallenge, InvalidateChallengeWrites
  <2> QED
    BY <1>3, <2>2 DEF Perform
<1>4. CASE q.op = "consume"
  <2>1. Found("challenge", u) /\ Found("candidate", u)
    BY <1>4, AllFound
  <2>2. Consumable(q.challenge, q.now) /\ q.right /\ Active(challenges[q.challenge].account)
    BY <2>1 DEF Found, Known
  <2>3. ConsumeChallengeAndCreateSessionWrites(q)
    BY <1>4 DEF Writes
  <2>4. ConsumeChallengeAndCreateSession(q.challenge, q.right, q.fresh, q.now, "ok")
    BY <2>2, <2>3 DEF ConsumeChallengeAndCreateSession, ConsumeChallengeAndCreateSessionWrites
  <2> QED
    BY <1>4, <2>4 DEF Perform
<1>5. CASE q.op = "exchange"
  <2>1. Found("bearer", u)
    BY <1>5, AllFound
  <2>2. Active(q.account) /\ ~Exchanged(q.token)
    BY <2>1 DEF Found, Known
  <2>3. CreateOidcSessionWrites(q)
    BY <1>5 DEF Writes
  <2>4. CreateOidcSession(q.account, q.token, q.fresh, q.now, "ok")
    BY <2>2, <2>3 DEF CreateOidcSession, CreateOidcSessionWrites
  <2> QED
    BY <1>5, <2>4 DEF Perform
<1> QED
  BY <1>1, <1>2, <1>3, <1>4, <1>5

LEMMA IssuePerforms ==
  ASSUME IInv, NEW u \in Calls, stage[u] = "ending", verdict[u] = "ok",
         request[u].op = "issue", IssueEmailChallengeWrites(u, request[u])
  PROVE  Perform(request[u], "ok")
<1> DEFINE q == request[u]
<1>1. Found("recipient", u) /\ Found("open", u)
  BY AllFound
<1>2. /\ TypeOK /\ ControlOK(u) /\ OwnRows(u) /\ OneAccountPerEmail
      /\ held \in [Calls -> SUBSET Row] /\ rows[u] = {}
  BY DEF IInv, TypeOK, CallOK, ControlOK
<1>3. PICK a \in HeldOf(u, "account") :
        challenges' = Stored(Invalidated(HeldOf(u, "challenge")), q.challenge,
          [account |-> a, issued |-> q.now, expires |-> q.now + CodeLifetime,
           attempts |-> 0, state |-> "open"])
  BY DEF IssueEmailChallengeWrites
<1>4. \A b \in HeldOf(u, "account") : b \in ActiveRecipient(q.email) /\ ~InCooldown(b, q.now)
  BY <1>1 DEF Found, Known
<1>5. \A b \in HeldOf(u, "account") : b = a
  BY <1>2, <1>3, <1>4 DEF ActiveRecipient, Recipient, OneAccountPerEmail
<1>6. \A c \in OpenOf(a) : c \in HeldOf(u, "challenge")
  <2>1. {"challenge"} \X UNION {OpenOf(b) : b \in HeldOf(u, "account")} \subseteq held[u]
    BY <1>1, SelectedRows DEF Found
  <2> QED
    BY <1>2, <1>3, <2>1, HeldOfType
<1>7. \A c \in HeldOf(u, "challenge") : c \in DOMAIN challenges /\ challenges[c].account = a
  <2> SUFFICES ASSUME NEW c \in HeldOf(u, "challenge")
               PROVE  c \in DOMAIN challenges /\ challenges[c].account = a
    OBVIOUS
  <2>1. <<"challenge", c>> \in Wanted(u)
    BY <1>2, HeldOfType DEF Wanted
  <2>2. c \in DOMAIN challenges /\ <<"account", challenges[c].account>> \in held[u]
    BY <1>2, <2>1 DEF OwnRows
  <2>3. challenges[c].account \in HeldOf(u, "account")
    BY <1>2, <2>2, HeldOfType
  <2> QED
    BY <1>5, <2>2, <2>3
<1>8. Invalidated(HeldOf(u, "challenge")) = Invalidated(OpenOf(a))
  <2>1. \A c \in DOMAIN challenges : Open(c) => (c \in HeldOf(u, "challenge") <=> c \in OpenOf(a))
    BY <1>6, <1>7 DEF OpenOf
  <2> QED
    BY <2>1, InvalidatedSame
<1>9. IssueEmailChallenge(q.email, q.challenge, q.now, "ok")
  BY <1>3, <1>4, <1>8 DEF IssueEmailChallenge, IssueEmailChallengeWrites, ActiveRecipient
<1> QED
  BY <1>9 DEF Perform

LEMMA PasskeyPerforms ==
  ASSUME IInv, NEW u \in Calls, stage[u] = "ending", verdict[u] = "ok", Writes(u, request[u]),
         request[u].op \in {"register", "login"}
  PROVE  Perform(request[u], "ok")
<1> DEFINE q == request[u]
<1>1. CASE q.op = "register"
  <2>1. Found("registrant", u)
    BY <1>1, AllFound
  <2>2. Live(q.session, q.now)
    BY <2>1 DEF Found, Known
  <2>3. RegisterPasskeyWrites(q)
    BY <1>1 DEF Writes
  <2>4. RegisterPasskey(q.session, q.passkey, q.count, q.now, "ok")
    BY <2>2, <2>3 DEF RegisterPasskey, RegisterPasskeyWrites
  <2> QED
    BY <1>1, <2>4 DEF Perform
<1>2. CASE q.op = "login"
  <2>1. Found("credential", u)
    BY <1>2, AllFound
  <2>2. Readable(q.passkey, q.now) /\ passkeys[q.passkey].count = q.expected
    BY <2>1 DEF Found, Known, Overtaken
  <2>3. CompletePasskeyLoginWrites(q)
    BY <1>2 DEF Writes
  <2>4. passkeys' = [passkeys EXCEPT ![q.passkey].count =
                       Greatest(passkeys[q.passkey].count, q.observed)]
    BY <2>2, <2>3 DEF CompletePasskeyLoginWrites
  <2>5. CompletePasskeyLogin(q.passkey, q.expected, q.observed, q.fresh, q.now, "ok")
    BY <2>2, <2>3, <2>4 DEF CompletePasskeyLogin, CompletePasskeyLoginWrites, Readable
  <2> QED
    BY <1>2, <2>5 DEF Perform
<1> QED
  BY <1>1, <1>2

\* The calls of an administrator, and the bootstrap.
LEMMA AccountPerforms ==
  ASSUME IInv, NEW u \in Calls, stage[u] = "ending", verdict[u] = "ok", Writes(u, request[u]),
         request[u].op \in {"bootstrap", "create", "update"}
  PROVE  Perform(request[u], "ok")
<1> DEFINE q == request[u]
<1>1. CASE q.op = "bootstrap"
  <2>1. Found("owner", u) /\ Found("emails", u)
    BY <1>1, AllFound
  <2>2. Owner \notin DOMAIN accounts /\ Recipient(q.email) = {}
    BY <1>1, <2>1 DEF Found, Known, Taken
  <2>3. BootstrapAdministratorWrites(q)
    BY <1>1 DEF Writes
  <2>4. BootstrapAdministrator(q.email, "ok")
    BY <2>2, <2>3 DEF BootstrapAdministrator, BootstrapAdministratorWrites, NewAccount
  <2> QED
    BY <1>1, <2>4 DEF Perform
<1>2. CASE q.op = "create"
  <2>1. Found("administrator", u) /\ Found("emails", u)
    BY <1>2, AllFound
  <2>2. Administers(q.session, q.now) /\ Recipient(q.email) = {}
    BY <1>2, <2>1 DEF Found, Known, Taken
  <2>3. q.account \notin DOMAIN accounts
    <3>1. <<"account", q.account>> \in New(q)
      BY <1>2 DEF New
    <3> QED
      BY <3>1 DEF IInv, FreshInv, Stores
  <2>4. CreateAccountAsAdministratorWrites(q)
    BY <1>2 DEF Writes
  <2>5. CreateAccountAsAdministrator(q.session, q.account, q.email, q.now, "ok")
    BY <2>2, <2>3, <2>4
       DEF CreateAccountAsAdministrator, CreateAccountAsAdministratorWrites, NewAccount, Activity
  <2> QED
    BY <1>2, <2>5 DEF Perform
<1>3. CASE q.op = "update"
  <2>1. Found("administrator", u) /\ Found("target", u) /\ Found("emails", u)
    BY <1>3, AllFound
  <2>2. /\ Administers(q.session, q.now) /\ q.account \in DOMAIN accounts
        /\ Recipient(q.email) \subseteq {q.account}
    BY <1>3, <2>1 DEF Found, Known, Seen, Taken
  <2>3. UpdateAccountAsAdministratorWrites(q)
    BY <1>3 DEF Writes
  <2>4. UpdateAccountAsAdministrator(q.session, q.account, q.email, q.now, "ok")
    BY <2>2, <2>3
       DEF UpdateAccountAsAdministrator, UpdateAccountAsAdministratorWrites, Activity
  <2> QED
    BY <1>3, <2>4 DEF Perform
<1> QED
  BY <1>1, <1>2, <1>3

\* What a call of "status" or "reset" ends is all that its account has.
LEMMA EndsAll ==
  ASSUME IInv, NEW u \in Calls, stage[u] = "ending", verdict[u] = "ok",
         \/ request[u].op = "reset"
         \/ request[u].op = "status" /\ request[u].status # "active"
  PROVE  /\ Invalidated(HeldOf(u, "challenge")) = Invalidated(OpenOf(request[u].account))
         /\ HeldBy(u, request[u]) = KeptOf(request[u].account)
         /\ Revoked(passkeys, HeldOf(u, "passkey"))
              = Revoked(passkeys, UsableOf(request[u].account))
<1> DEFINE q == request[u]
<1>1. Found("challenges", u) /\ Found("sessions", u) /\ Found("passkeys", u)
  BY AllFound
<1>2. TypeOK /\ TablesOK /\ OwnRows(u) /\ held \in [Calls -> SUBSET Row]
  BY DEF IInv, TypeOK, CallOK
<1>3. /\ {"challenge"} \X OpenOf(q.account) \subseteq held[u]
      /\ {"session"} \X KeptOf(q.account) \subseteq held[u]
      /\ {"passkey"} \X UsableOf(q.account) \subseteq held[u]
  BY <1>1, SelectedRows DEF Found
<1>4. /\ \A c \in HeldOf(u, "challenge") :
           c \in DOMAIN challenges /\ challenges[c].account = q.account
      /\ \A p \in HeldOf(u, "passkey") : p \in DOMAIN passkeys /\ passkeys[p].account = q.account
  <2>1. \A x \in held[u] :
          /\ x[1] = "challenge" => x[2] \in DOMAIN challenges /\ challenges[x[2]].account = q.account
          /\ x[1] = "passkey" => x[2] \in DOMAIN passkeys /\ passkeys[x[2]].account = q.account
    BY <1>2 DEF OwnRows, Wanted
  <2> QED
    BY <2>1 DEF HeldOf
<1>5. Invalidated(HeldOf(u, "challenge")) = Invalidated(OpenOf(q.account))
  <2>1. \A c \in DOMAIN challenges :
          Open(c) => (c \in HeldOf(u, "challenge") <=> c \in OpenOf(q.account))
    BY <1>2, <1>3, <1>4, HeldOfType DEF OpenOf
  <2> QED
    BY <2>1, InvalidatedSame
<1>6. HeldBy(u, q) = KeptOf(q.account)
  BY <1>2, <1>3, HeldOfType DEF HeldBy
<1>7. Revoked(passkeys, HeldOf(u, "passkey")) = Revoked(passkeys, UsableOf(q.account))
  <2>1. \A p \in DOMAIN passkeys :
          /\ passkeys[p].revoked \in BOOLEAN
          /\ passkeys[p].revoked \/ (p \in HeldOf(u, "passkey") <=> p \in UsableOf(q.account))
    BY <1>2, <1>3, <1>4, HeldOfType, TableTypes DEF UsableOf, Usable
  <2> QED
    BY <2>1, RevokedSame
<1> QED
  BY <1>5, <1>6, <1>7

LEMMA AccessPerforms ==
  ASSUME IInv, NEW u \in Calls, stage[u] = "ending", verdict[u] = "ok", Writes(u, request[u]),
         request[u].op \in {"status", "reset", "revoke_all", "revoke"}
  PROVE  Perform(request[u], "ok")
<1> DEFINE q == request[u]
<1>1. Found("administrator", u) /\ Found("target", u)
  BY AllFound
<1>2. Administers(q.session, q.now) /\ q.account \in DOMAIN accounts
  BY <1>1 DEF Found, Known, Seen
<1>3. held \in [Calls -> SUBSET Row] /\ q \in Requests /\ OwnRows(u)
  BY DEF IInv, TypeOK, CallOK
<1>4. CASE q.op = "status"
  <2>1. SetAccountStatusAsAdministratorWrites(u, q)
    BY <1>4 DEF Writes
  <2>2. CASE q.status = "active"
    <3>1. HeldOf(u, "challenge") = {} /\ HeldOf(u, "passkey") = {}
      <4>1. \A x \in held[u] : x[1] # "challenge" /\ x[1] # "passkey"
        BY <1>3, <1>4, <2>2 DEF OwnRows, Wanted
      <4> QED
        BY <4>1 DEF HeldOf
    <3>2. /\ challenges' = Invalidated({}) /\ sessions' = Revoked(sessions, {})
          /\ passkeys' = Revoked(passkeys, {})
          /\ accounts' = [accounts EXCEPT ![q.account].status = q.status]
      BY <2>1, <2>2, <3>1 DEF SetAccountStatusAsAdministratorWrites
    <3>3. SetAccountStatusAsAdministrator(q.session, q.account, q.status, q.now, "ok")
      BY <1>2, <2>2, <3>2 DEF SetAccountStatusAsAdministrator, Activity
    <3> QED
      BY <1>4, <3>3 DEF Perform
  <2>3. CASE q.status = "deactivated"
    <3>1. /\ challenges' = Invalidated(OpenOf(q.account))
          /\ sessions' = Revoked(sessions, KeptOf(q.account))
          /\ passkeys' = Revoked(passkeys, UsableOf(q.account))
          /\ accounts' = [accounts EXCEPT ![q.account].status = q.status]
      BY <1>4, <2>1, <2>3, EndsAll DEF SetAccountStatusAsAdministratorWrites
    <3>2. SetAccountStatusAsAdministrator(q.session, q.account, q.status, q.now, "ok")
      BY <1>2, <2>3, <3>1 DEF SetAccountStatusAsAdministrator, Activity
    <3> QED
      BY <1>4, <3>2 DEF Perform
  <2>4. q.status \in {"active", "deactivated"}
    BY <1>3, <1>4, RequestTypes
  <2> QED
    BY <2>2, <2>3, <2>4
<1>5. CASE q.op = "reset"
  <2>1. AdminSecurityResetAuthAccessWrites(u, q)
    BY <1>5 DEF Writes
  <2>2. /\ challenges' = Invalidated(OpenOf(q.account))
        /\ sessions' = Revoked(sessions, KeptOf(q.account))
        /\ passkeys' = Revoked(passkeys, UsableOf(q.account)) /\ UNCHANGED accounts
    BY <1>5, <2>1, EndsAll DEF AdminSecurityResetAuthAccessWrites
  <2>3. AdminSecurityResetAuthAccess(q.session, q.account, q.now, "ok")
    BY <1>2, <2>2 DEF AdminSecurityResetAuthAccess, Activity
  <2> QED
    BY <1>5, <2>3 DEF Perform
<1>6. CASE q.op = "revoke_all"
  <2>1. RevokeAllSessionsAsAdministratorWrites(u, q)
    BY <1>6 DEF Writes
  <2>2. HeldBy(u, q) = KeptOf(q.account)
    <3>1. Found("sessions", u)
      BY <1>6, AllFound
    <3>2. {"session"} \X KeptOf(q.account) \subseteq held[u]
      BY <3>1, SelectedRows DEF Found
    <3> QED
      BY <1>3, <3>2, HeldOfType DEF HeldBy
  <2>3. RevokeAllSessionsAsAdministrator(q.session, q.account, q.now, "ok")
    BY <1>2, <2>1, <2>2
       DEF RevokeAllSessionsAsAdministrator, RevokeAllSessionsAsAdministratorWrites, Activity
  <2> QED
    BY <1>6, <2>3 DEF Perform
<1>7. CASE q.op = "revoke"
  <2>1. RevokeSessionAsAdministratorWrites(q)
    BY <1>7 DEF Writes
  <2>2. Found("victim", u)
    BY <1>7, AllFound
  <2>3. q.victim \in KeptOf(q.account)
    BY <2>2 DEF Found, Known
  <2>4. {q.victim} \cap KeptOf(q.account) = {q.victim}
    BY <2>3
  <2>5. RevokeSessionAsAdministrator(q.session, q.account, q.victim, q.now, "ok")
    BY <1>2, <2>1, <2>3, <2>4
       DEF RevokeSessionAsAdministrator, RevokeSessionAsAdministratorWrites, Activity
  <2> QED
    BY <1>7, <2>5 DEF Perform
<1> QED
  BY <1>4, <1>5, <1>6, <1>7

LEMMA AuthorizationPerforms ==
  ASSUME IInv, NEW u \in Calls, stage[u] = "ending", verdict[u] = "ok", Writes(u, request[u]),
         request[u].op \in {"grant", "ungrant", "domain"}
  PROVE  Perform(request[u], "ok")
<1> DEFINE q == request[u]
<1>1. Found("administrator", u) /\ Found("domain", u)
  BY AllFound
<1>2. /\ Administers(q.session, q.now) /\ q.account \in DOMAIN accounts
      /\ q.version = accounts[q.account].version + 1
      /\ q.op \in {"grant", "ungrant"} => MayManage(q.session, q.grant)
      /\ q.op = "ungrant" => ~(q.grant = Admin /\ q.account = Owner)
  BY <1>1 DEF Found, Known, Seen
<1>3. ASSUME NEW grants, NEW domain, AuthorizationMutation(q, grants, domain)
      PROVE  ChangesAuthorization(q.session, q.account, grants, domain, q.now)
  <2>1. accounts' = [accounts EXCEPT ![q.account] =
          [@ EXCEPT !.grants = grants, !.domain = domain,
                    !.version = accounts[q.account].version + 1]]
    BY <1>2, <1>3 DEF AuthorizationMutation
  <2>2. sessions' = sessions /\ challenges' = challenges /\ passkeys' = passkeys
    BY <1>3 DEF AuthorizationMutation
  <2> QED
    BY <1>2, <2>1, <2>2 DEF ChangesAuthorization, Activity
<1>4. CASE q.op = "grant"
  <2>1. AuthorizationMutation(q, accounts[q.account].grants \cup {q.grant},
                              accounts[q.account].domain)
    BY <1>4 DEF Writes, GrantFunctionalGrantAsAdministratorWrites
  <2>2. GrantFunctionalGrantAsAdministrator(q.session, q.account, q.grant, q.now, "ok")
    BY <1>2, <1>3, <1>4, <2>1 DEF GrantFunctionalGrantAsAdministrator
  <2> QED
    BY <1>4, <2>2 DEF Perform
<1>5. CASE q.op = "ungrant"
  <2>1. AuthorizationMutation(q, accounts[q.account].grants \ {q.grant},
                              accounts[q.account].domain)
    BY <1>5 DEF Writes, RevokeFunctionalGrantAsAdministratorWrites
  <2>2. RevokeFunctionalGrantAsAdministrator(q.session, q.account, q.grant, q.now, "ok")
    BY <1>2, <1>3, <1>5, <2>1 DEF RevokeFunctionalGrantAsAdministrator
  <2> QED
    BY <1>5, <2>2 DEF Perform
<1>6. CASE q.op = "domain"
  <2>1. AuthorizationMutation(q, accounts[q.account].grants, q.domain)
    BY <1>6 DEF Writes, SetDomainStatusAsAdministratorWrites
  <2>2. SetDomainStatusAsAdministrator(q.session, q.account, q.domain, q.now, "ok")
    BY <1>2, <1>3, <2>1 DEF SetDomainStatusAsAdministrator
  <2> QED
    BY <1>6, <2>2 DEF Perform
<1> QED
  BY <1>4, <1>5, <1>6

LEMMA ThoughPerforms ==
  ASSUME IInv, NEW u \in Calls, stage[u] = "ending", verdict[u] # "ok",
         WritesThough(request[u], verdict[u])
  PROVE  Perform(request[u], "invalid")
<1> DEFINE q == request[u]
<1>1. TablesOK /\ ControlOK(u) /\ TypeOK
  BY DEF IInv, TypeOK
<1>2. CASE verdict[u] = "wrong"
  <2>1. q.op = "consume" /\ at[u] = 1
    BY <1>1, <1>2 DEF ControlOK
  <2>2. Plan(q) = <<"challenge", "candidate">>
    BY <2>1 DEF Plan
  <2>3. Passed("challenge", u)
    BY <1>2, <2>1, <2>2 DEF Passed
  <2>4. Consumable(q.challenge, q.now) /\ ~q.right
    BY <1>2, <2>3, CommitFound DEF Found, Known
  <2>5. /\ challenges' = [challenges EXCEPT ![q.challenge].attempts = @ + 1]
        /\ UNCHANGED <<accounts, sessions, passkeys>>
    BY <1>2 DEF WritesThough
  <2>6. ConsumeChallengeAndCreateSession(q.challenge, q.right, q.fresh, q.now, "invalid")
    BY <2>4, <2>5 DEF ConsumeChallengeAndCreateSession
  <2> QED
    BY <2>1, <2>6 DEF Perform
<1>3. CASE verdict[u] = "void"
  <2>1. q.op = "consume" /\ at[u] = 2
    BY <1>1, <1>3 DEF ControlOK
  <2>2. Plan(q) = <<"challenge", "candidate">>
    BY <2>1 DEF Plan
  <2>3. Passed("challenge", u) /\ Passed("candidate", u)
    BY <1>3, <2>1, <2>2 DEF Passed
  <2>4. Consumable(q.challenge, q.now) /\ q.right
    <3>1. Known("challenge", u)
      BY <2>3, CommitFound DEF Found
    <3>2. Consumable(q.challenge, q.now) /\ (verdict[u] = "wrong" <=> ~q.right)
      BY <3>1 DEF Known
    <3>3. q.right \in BOOLEAN
      BY <1>1, <2>1, RequestTypes DEF TypeOK
    <3> QED
      BY <1>3, <3>2, <3>3
  <2>5. ~Active(challenges[q.challenge].account)
    BY <1>3, <2>3, CommitFound DEF Found, Known
  <2>6. /\ challenges' = Invalidated({q.challenge})
        /\ UNCHANGED <<accounts, sessions, passkeys>>
    BY <1>3 DEF WritesThough
  <2>7. ConsumeChallengeAndCreateSession(q.challenge, q.right, q.fresh, q.now, "invalid")
    BY <2>4, <2>5, <2>6 DEF ConsumeChallengeAndCreateSession
  <2> QED
    BY <2>1, <2>7 DEF Perform
<1>4. CASE verdict[u] = "expired"
  <2>1. q.op = "authenticate" /\ at[u] = 2
    BY <1>1, <1>4 DEF ControlOK
  <2>2. Plan(q) = <<"session", "holder">>
    BY <2>1 DEF Plan
  <2>3. Passed("session", u) /\ Passed("holder", u)
    BY <1>4, <2>1, <2>2 DEF Passed
  <2>4. /\ Kept(q.session)
        /\ ~Active(sessions[q.session].account) \/ Expired(q.session, q.now)
    BY <1>4, <2>3, CommitFound DEF Found, Known
  <2>5. sessions' = Revoked(sessions, {q.session}) /\ UNCHANGED <<accounts, challenges, passkeys>>
    BY <1>4 DEF WritesThough
  <2>6. AuthenticateSession(q.session, q.now, "invalid")
    BY <2>4, <2>5 DEF AuthenticateSession
  <2> QED
    BY <2>1, <2>6 DEF Perform
<1>5. CASE verdict[u] = "absent"
  <2>1. q.op = "revoke" /\ at[u] = 4
    BY <1>1, <1>5 DEF ControlOK
  <2>2. Plan(q) = <<"activity", "administrator", "target", "victim">>
    BY <2>1 DEF Plan
  <2>3. Passed("administrator", u) /\ Passed("target", u) /\ Passed("victim", u)
    BY <1>5, <2>1, <2>2 DEF Passed
  <2>4. /\ Administers(q.session, q.now) /\ q.account \in DOMAIN accounts
        /\ q.victim \notin KeptOf(q.account)
    BY <1>5, <2>3, CommitFound DEF Found, Known, Seen
  <2>5. sessions' = Touched(q.session, q.now) /\ UNCHANGED <<accounts, challenges, passkeys>>
    BY <1>5 DEF WritesThough
  <2>6. Touched(q.session, q.now) = Revoked(Touched(q.session, q.now), {q.victim} \cap KeptOf(q.account))
    <3>1. {q.victim} \cap KeptOf(q.account) = {}
      BY <2>4
    <3>3. q.session \in DOMAIN sessions /\ q.now \in Nat
      BY <1>1, <2>1, <2>4, RequestTypes
         DEF Administers, Live, Kept, TypeOK, AdminOps
    <3>4. Touched(q.session, q.now) \in [DOMAIN Touched(q.session, q.now) -> SessionRow]
      BY <1>1, <3>3, TouchedSessions
    <3> QED
      BY <3>1, <3>4, RevokedNone
  <2>7. RevokeSessionAsAdministrator(q.session, q.account, q.victim, q.now, "invalid")
    <3>1. \E rows1 \in Activity(q.session, q.now) :
            sessions' = Revoked(rows1, {q.victim} \cap KeptOf(q.account))
      BY <2>5, <2>6 DEF Activity
    <3> QED
      BY <2>4, <2>5, <3>1 DEF RevokeSessionAsAdministrator
  <2> QED
    BY <2>1, <2>7 DEF Perform
<1> QED
  BY <1>2, <1>3, <1>4, <1>5 DEF WritesThough

\* A commit is one step of the port.
LEMMA CommitPerforms ==
  ASSUME IInv, NEW u \in Calls, Commit(u)
  PROVE  Perform(request[u], Told(verdict[u]))
<1> DEFINE q == request[u]
<1>1. stage[u] = "ending" /\ ControlOK(u) /\ q \in Requests
  BY DEF Commit, IInv, TypeOK
<1>2. CASE verdict[u] = "ok"
  <2>1. Writes(u, q)
    BY <1>2 DEF Commit
  <2>2. Told(verdict[u]) = "ok"
    BY <1>2 DEF Told
  <2>3. q.op = "issue" => IssueEmailChallengeWrites(u, q)
    BY <2>1 DEF Writes
  <2>4. q.op \in {"authenticate", "logout", "invalidate", "consume", "exchange", "issue",
                  "register", "login", "bootstrap", "create", "update", "status", "reset",
                  "revoke_all", "revoke", "grant", "ungrant", "domain"}
    BY <2>1 DEF Writes
  <2> QED
    BY <1>1, <1>2, <2>1, <2>2, <2>3, <2>4, OwnPerforms, IssuePerforms, PasskeyPerforms,
       AccountPerforms, AccessPerforms, AuthorizationPerforms
<1>3. CASE verdict[u] # "ok"
  <2>1. WritesThough(q, verdict[u])
    BY <1>3 DEF Commit
  <2>2. Told(verdict[u]) = "invalid"
    BY <2>1 DEF WritesThough, Told
  <2> QED
    BY <1>1, <1>3, <2>1, <2>2, ThoughPerforms
<1> QED
  BY <1>2, <1>3

\* A statement that finds nothing, or a ruling against the call: no table changes.
LEMMA MissPerforms ==
  ASSUME IInv, NEW t \in Calls, NEW k, Prior(k, t), UNCHANGED tables,
         ~Sees(k, t) \/ ~Passes(k, t), Miss(k) \notin Writing,
         \A j : Passed(j, t) => Known(j, t)
  PROVE  Perform(request[t], Told(Miss(k)))
<1> DEFINE q == request[t]
<1>1. /\ TablesOK /\ q \in Requests
      /\ accounts' = accounts /\ challenges' = challenges /\ sessions' = sessions
      /\ passkeys' = passkeys
  BY DEF IInv, TypeOK, tables
<1>2. CASE k = "session"
  <2>1. q.op = "authenticate" /\ ~Kept(q.session)
    BY <1>2 DEF Prior, Sees, Passes, Kept
  <2>2. Told(Miss(k)) = "invalid"
    BY <1>2 DEF Told, Miss
  <2>3. AuthenticateSession(q.session, q.now, "invalid")
    BY <2>1 DEF AuthenticateSession
  <2> QED
    BY <2>1, <2>2, <2>3 DEF Perform
<1>3. CASE k = "own_session"
  <2>1. q.op = "logout" /\ ~Kept(q.session)
    BY <1>3 DEF Prior, Sees, Passes
  <2>2. Told(Miss(k)) = "invalid"
    BY <1>3 DEF Told, Miss
  <2>3. Revoked(sessions, {q.session}) = sessions
    <3>1. \A s \in {q.session} \cap DOMAIN sessions : sessions[s].revoked
      BY <2>1 DEF Kept
    <3> QED
      BY <1>1, <3>1, RevokedNone DEF TablesOK
  <2>4. RevokeSessionByVerifier(q.session, "invalid")
    BY <1>1, <2>1, <2>3 DEF RevokeSessionByVerifier
  <2> QED
    BY <2>1, <2>2, <2>4 DEF Perform
<1>4. CASE k = "recipient"
  <2>1. q.op = "issue" /\ Told(Miss(k)) = "neutral"
    BY <1>4 DEF Prior, Told, Miss
  <2>2. IssueEmailChallenge(q.email, q.challenge, q.now, "neutral")
    BY DEF IssueEmailChallenge
  <2> QED
    BY <2>1, <2>2 DEF Perform
<1>5. CASE k = "own_challenge"
  <2>1. q.op = "invalidate" /\ ~Open(q.challenge)
    BY <1>5 DEF Prior, Sees, Passes
  <2>2. Told(Miss(k)) = "ok"
    BY <1>5 DEF Told, Miss
  <2>3. Invalidated({q.challenge}) = challenges
    BY <1>1, <2>1, InvalidatedNone
  <2>4. InvalidateChallenge(q.challenge, "ok")
    BY <1>1, <2>3 DEF InvalidateChallenge
  <2> QED
    BY <2>1, <2>2, <2>4 DEF Perform
<1>6. CASE k = "challenge"
  <2>1. q.op = "consume" /\ ~Consumable(q.challenge, q.now)
    BY <1>6 DEF Prior, Sees, Passes, Consumable, Open
  <2>2. Told(Miss(k)) = "invalid"
    BY <1>6 DEF Told, Miss
  <2>3. ConsumeChallengeAndCreateSession(q.challenge, q.right, q.fresh, q.now, "invalid")
    BY <2>1 DEF ConsumeChallengeAndCreateSession
  <2> QED
    BY <2>1, <2>2, <2>3 DEF Perform
<1>7. CASE k = "bearer"
  <2>1. q.op = "exchange" /\ ~Active(q.account)
    BY <1>7 DEF Prior, Sees, Passes
  <2>2. Told(Miss(k)) = "invalid"
    BY <1>7 DEF Told, Miss
  <2>3. CreateOidcSession(q.account, q.token, q.fresh, q.now, "invalid")
    BY <2>1 DEF CreateOidcSession
  <2> QED
    BY <2>1, <2>2, <2>3 DEF Perform
<1>8. CASE k = "registrant"
  <2>1. q.op = "register" /\ ~Live(q.session, q.now)
    BY <1>8 DEF Prior, Sees, Passes
  <2>2. Told(Miss(k)) = "refused"
    BY <1>8 DEF Told, Miss
  <2>3. RegisterPasskey(q.session, q.passkey, q.count, q.now, "refused")
    BY <2>1 DEF RegisterPasskey
  <2> QED
    BY <2>1, <2>2, <2>3 DEF Perform
<1>9. CASE k = "credential"
  <2>1. q.op = "login" /\ ~Readable(q.passkey, q.now)
    BY <1>9 DEF Prior, Sees, Passes, Readable, Usable
  <2>2. Told(Miss(k)) = "invalid"
    BY <1>9 DEF Told, Miss
  <2>3. \/ ~Usable(q.passkey) \/ ~Active(passkeys[q.passkey].account)
        \/ ~(q.now >= passkeys[q.passkey].created)
    BY <2>1 DEF Readable
  <2>4. Usable(q.passkey) => (~(q.now >= passkeys[q.passkey].created)
                               <=> q.now < passkeys[q.passkey].created)
    <3>1. q.now \in Nat
      BY <1>1, <2>1, RequestTypes
    <3>2. Usable(q.passkey) => passkeys[q.passkey].created \in Nat
      BY <1>1, TableTypes DEF Usable
    <3> QED
      BY <3>1, <3>2
  <2>5. CompletePasskeyLogin(q.passkey, q.expected, q.observed, q.fresh, q.now, "invalid")
    BY <2>3, <2>4 DEF CompletePasskeyLogin
  <2> QED
    BY <2>1, <2>2, <2>5 DEF Perform
<1>10. CASE k = "administrator"
  <2>1. q.op \in AdminOps /\ ~Administers(q.session, q.now)
    BY <1>10 DEF Prior, Sees, Passes
  <2>2. Told(Miss(k)) = "refused"
    BY <1>10 DEF Told, Miss
  <2>3. RequireAdministrator(q.session, q.now, "refused")
    BY <2>1 DEF RequireAdministrator
  <2> QED
    BY <2>1, <2>2, <2>3
       DEF Perform, AdminOps, AdminSecurityResetAuthAccess, CreateAccountAsAdministrator,
           UpdateAccountAsAdministrator, SetAccountStatusAsAdministrator,
           GrantFunctionalGrantAsAdministrator, RevokeFunctionalGrantAsAdministrator,
           SetDomainStatusAsAdministrator, RevokeAllSessionsAsAdministrator,
           RevokeSessionAsAdministrator
<1>11. CASE k \in {"target", "domain"}
  <2>1. q.op \in AdminOps /\ Passed("administrator", t) /\ q.account \notin DOMAIN accounts
    BY <1>11 DEF Prior, Sees, Passes
  <2>2. Told(Miss(k)) = "missing"
    BY <1>11 DEF Told, Miss
  <2>3. Administers(q.session, q.now)
    BY <2>1 DEF Known
  <2>4. /\ RequireAccount(q.session, q.account, q.now, "missing")
        /\ RefusesChange(q.session, q.now, "missing")
    BY <1>1, <2>1, <2>3 DEF RequireAccount, RefusesChange, Fails, Activity
  <2>5. q.op # "create"
    BY <1>11 DEF Prior
  <2> QED
    BY <2>1, <2>2, <2>4, <2>5
       DEF Perform, AdminOps, AdminSecurityResetAuthAccess, UpdateAccountAsAdministrator,
           SetAccountStatusAsAdministrator, GrantFunctionalGrantAsAdministrator,
           RevokeFunctionalGrantAsAdministrator, SetDomainStatusAsAdministrator,
           RevokeAllSessionsAsAdministrator, RevokeSessionAsAdministrator
<1>12. CASE k \in {"holder", "candidate"}
  BY <1>12 DEF Miss, Writing
<1>13. CASE k \in {"owner", "emails", "open", "activity", "grant", "challenges", "sessions",
                   "passkeys", "victim"}
  BY <1>13 DEF Sees, Passes
<1> QED
  BY <1>2, <1>3, <1>4, <1>5, <1>6, <1>7, <1>8, <1>9, <1>10, <1>11, <1>12, <1>13 DEF Prior

LEMMA RulingPerforms ==
  ASSUME IInv, NEW t \in Calls, NEW k, Prior(k, t), UNCHANGED tables,
         Passes(k, t), Ruling(k, t) \notin Writing \cup {"on"},
         \A j : Passed(j, t) => Known(j, t)
  PROVE  Perform(request[t], Told(Ruling(k, t)))
<1> DEFINE q == request[t]
<1>1. /\ TablesOK /\ q \in Requests
      /\ accounts' = accounts /\ challenges' = challenges /\ sessions' = sessions
      /\ passkeys' = passkeys
  BY DEF IInv, TypeOK, tables
<1>2. ASSUME Administers(q.session, q.now)
      PROVE  \A r \in {"conflict", "missing", "unavailable"} : RefusesChange(q.session, q.now, r)
  BY <1>1, <1>2 DEF RefusesChange, Fails, Activity
<1>3. CASE k = "owner"
  <2>1. /\ q.op = "bootstrap" /\ Owner \in DOMAIN accounts
        /\ Ruling(k, t) = IF accounts[Owner].email = q.email THEN "nothing" ELSE "conflict"
    BY <1>3 DEF Ruling, Prior
  <2>2. CASE accounts[Owner].email = q.email
    <3>1. Told(Ruling(k, t)) = "ok"
      BY <2>1, <2>2 DEF Told
    <3>2. BootstrapAdministrator(q.email, "ok")
      BY <2>1, <2>2 DEF BootstrapAdministrator, Recipient
    <3> QED
      BY <2>1, <3>1, <3>2 DEF Perform
  <2>3. CASE accounts[Owner].email # q.email
    <3>1. Told(Ruling(k, t)) = "conflict"
      BY <2>1, <2>3 DEF Told
    <3>2. Recipient(q.email) # {Owner}
      BY <2>3 DEF Recipient
    <3>3. BootstrapAdministrator(q.email, "conflict")
      BY <2>1, <3>2 DEF BootstrapAdministrator
    <3> QED
      BY <2>1, <3>1, <3>3 DEF Perform
  <2> QED
    BY <2>2, <2>3
<1>4. CASE k = "recipient"
  <2>1. q.op = "issue" /\ Ruling(k, t) = "neutral"
    BY <1>4 DEF Ruling, Prior
  <2>2. Told(Ruling(k, t)) = "neutral"
    BY <2>1 DEF Told
  <2>3. IssueEmailChallenge(q.email, q.challenge, q.now, "neutral")
    BY DEF IssueEmailChallenge
  <2> QED
    BY <2>1, <2>2, <2>3 DEF Perform
<1>5. CASE k = "bearer"
  <2>1. q.op = "exchange" /\ Exchanged(q.token) /\ Ruling(k, t) = "invalid"
    BY <1>5 DEF Ruling, Prior
  <2>2. Told(Ruling(k, t)) = "invalid"
    BY <2>1 DEF Told
  <2>3. CreateOidcSession(q.account, q.token, q.fresh, q.now, "invalid")
    BY <2>1 DEF CreateOidcSession
  <2> QED
    BY <2>1, <2>2, <2>3 DEF Perform
<1>6. CASE k = "credential"
  <2>1. q.op = "login" /\ Overtaken(q) /\ Ruling(k, t) = "conflict"
    BY <1>6 DEF Ruling, Prior
  <2>2. Told(Ruling(k, t)) = "conflict"
    BY <2>1 DEF Told
  <2>3. Readable(q.passkey, q.now)
    BY <1>6 DEF Passes
  <2>4. CompletePasskeyLogin(q.passkey, q.expected, q.observed, q.fresh, q.now, "conflict")
    BY <2>1, <2>3 DEF CompletePasskeyLogin, Readable, Overtaken
  <2> QED
    BY <2>1, <2>2, <2>4 DEF Perform
<1>7. CASE k = "administrator"
  <2>1. Administers(q.session, q.now) /\ q.op \in {"grant", "ungrant"} /\ q.grant = Admin
    BY <1>7 DEF Passes, Sees, Ruling, NeedsOwner
  <2>2. CASE sessions[q.session].account # Owner
    <3>1. Ruling(k, t) = "refused"
      BY <1>7, <2>1, <2>2 DEF Ruling, NeedsOwner
    <3>2. Told(Ruling(k, t)) = "refused"
      BY <3>1 DEF Told
    <3>3. OwnersOnly(q.session, q.grant, q.now, "refused")
      BY <1>1, <2>1, <2>2 DEF OwnersOnly, Fails, Activity
    <3> QED
      BY <2>1, <3>2, <3>3
         DEF Perform, GrantFunctionalGrantAsAdministrator, RevokeFunctionalGrantAsAdministrator
  <2>3. CASE sessions[q.session].account = Owner
    <3>1. Ruling(k, t) = "unavailable" /\ q.op = "ungrant"
      BY <1>7, <2>1, <2>3 DEF Ruling, NeedsOwner
    <3>2. Told(Ruling(k, t)) = "unavailable"
      BY <3>1 DEF Told
    <3>3. RefusesChange(q.session, q.now, "unavailable")
      BY <1>2, <2>1
    <3> QED
      BY <3>1, <3>2, <3>3 DEF Perform, RevokeFunctionalGrantAsAdministrator
  <2> QED
    BY <2>2, <2>3
<1>8. CASE k = "domain"
  <2>1. q.op \in {"grant", "ungrant", "domain"} /\ Passed("administrator", t)
    BY <1>8 DEF Prior
  <2>2. Ruling(k, t) \in {"conflict", "missing"}
    BY <1>8 DEF Ruling
  <2>3. Told(Ruling(k, t)) \in {"conflict", "missing"}
    BY <2>2 DEF Told
  <2>4. RefusesChange(q.session, q.now, Told(Ruling(k, t)))
    BY <1>2, <2>1, <2>3 DEF Known
  <2> QED
    BY <2>1, <2>4
       DEF Perform, GrantFunctionalGrantAsAdministrator, RevokeFunctionalGrantAsAdministrator,
           SetDomainStatusAsAdministrator
<1>9. CASE k = "emails"
  <2>1. Taken(q) /\ Ruling(k, t) = "conflict"
    BY <1>9 DEF Ruling
  <2>2. Told(Ruling(k, t)) = "conflict"
    BY <2>1 DEF Told
  <2>3. CASE q.op = "bootstrap"
    <3>1. Owner \notin DOMAIN accounts
      BY <1>9, <2>3 DEF Prior, Known
    <3>2. Recipient(q.email) # {} /\ Recipient(q.email) # {Owner}
      BY <2>1, <2>3, <3>1 DEF Taken, Recipient
    <3>3. BootstrapAdministrator(q.email, "conflict")
      BY <3>2 DEF BootstrapAdministrator
    <3> QED
      BY <2>2, <2>3, <3>3 DEF Perform
  <2>4. CASE q.op \in {"create", "update"}
    <3>1. Administers(q.session, q.now)
      BY <1>9, <2>4 DEF Prior, Known
    <3>2. Fails(q.session, q.now)
      BY <1>1, <3>1 DEF Fails, Activity
    <3>3. CASE q.op = "create"
      <4>1. Recipient(q.email) # {}
        BY <2>1, <3>3 DEF Taken
      <4>2. CreateAccountAsAdministrator(q.session, q.account, q.email, q.now, "conflict")
        BY <3>2, <4>1 DEF CreateAccountAsAdministrator
      <4> QED
        BY <2>2, <3>3, <4>2 DEF Perform
    <3>4. CASE q.op = "update"
      <4>1. Recipient(q.email) \ {q.account} # {}
        BY <2>1, <3>4 DEF Taken
      <4>2. UpdateAccountAsAdministrator(q.session, q.account, q.email, q.now, "conflict")
        BY <3>2, <4>1 DEF UpdateAccountAsAdministrator
      <4> QED
        BY <2>2, <3>4, <4>2 DEF Perform
    <3> QED
      BY <2>4, <3>3, <3>4
  <2> QED
    BY <1>9, <2>3, <2>4 DEF Prior
<1>10. CASE k \in {"challenge", "victim"}
  BY <1>10 DEF Ruling, Writing
<1>11. CASE k \notin {"owner", "recipient", "bearer", "credential", "administrator", "domain",
                      "emails", "challenge", "victim"}
  BY <1>11 DEF Ruling
<1> QED
  BY <1>3, <1>4, <1>5, <1>6, <1>7, <1>8, <1>9, <1>10, <1>11

LEMMA QueryPerforms ==
  ASSUME IInv, NEW t \in Calls, Query(t)
  PROVE  \E r \in Answers : Perform(request[t], r) /\ answer' = [answer EXCEPT ![t] = r]
<1> DEFINE q == request[t]
<1>1. UNCHANGED tables /\ q.op \in {"validate", "find", "read"}
  BY DEF Query, ReadOps
<1>2. PICK r \in {"ok", "missing", "invalid"} :
        /\ Ends(t, r)
        /\ q.op = "validate" => r = IF Live(q.session, q.now) THEN "ok" ELSE "invalid"
        /\ q.op = "find" => r = IF q.account \in DOMAIN accounts THEN "ok" ELSE "missing"
        /\ q.op = "read" => r = IF Readable(q.passkey, q.now) THEN "ok" ELSE "invalid"
  <2>1. CASE q.op = "validate"
    BY <2>1 DEF Query, ValidateSessionFinds
  <2>2. CASE q.op = "find"
    BY <2>2 DEF Query, FindAccountByIdFinds
  <2>3. CASE q.op = "read"
    BY <2>3 DEF Query, ReadPasskeyByCredentialIdFinds
  <2> QED
    BY <1>1, <2>1, <2>2, <2>3
<1>3. answer' = [answer EXCEPT ![t] = r]
  <2>1. Told(r) = r
    BY DEF Told
  <2> QED
    BY <1>2, <2>1 DEF Ends
<1>4. Perform(q, r)
  BY <1>1, <1>2 DEF Perform, ValidateSession, FindAccountById, ReadPasskeyByCredentialId
<1> QED
  BY <1>3, <1>4 DEF Answers

\* A call that ends without having written anything.
LEMMA EndsPerform ==
  ASSUME IInv, NEW t \in Calls, stage[t] # "done", request[t].op \notin ReadOps,
         NEW v \in Verdicts \ {"on", "failed"}, v \notin Writing, Ends(t, v),
         UNCHANGED <<tables, request>>,
         NEW k, k = Statement(t),
         \/ v = Miss(k) /\ (~Sees(k, t) \/ ~Passes(k, t))
         \/ v = Ruling(k, t) /\ Passes(k, t)
  PROVE  RepositoryCall(t)
<1>2. /\ TypeOK /\ ControlOK(t) /\ CallOK(t)
  BY DEF IInv
<1>3. Reached(k, t)
  BY <1>2, Reaching
<1>4. Prior(k, t)
  BY <1>2, <1>3, Order DEF TypeOK
<1>5. \A j : Passed(j, t) => Known(j, t)
  BY <1>2 DEF CallOK
<1>6. Perform(request[t], Told(v))
  <2>1. CASE v = Miss(k) /\ (~Sees(k, t) \/ ~Passes(k, t))
    BY <1>4, <1>5, <2>1, MissPerforms
  <2>2. CASE v = Ruling(k, t) /\ Passes(k, t)
    BY <1>4, <1>5, <2>2, RulingPerforms
  <2> QED
    BY <2>1, <2>2
<1>7. answer[t] = "none" /\ answer' = [answer EXCEPT ![t] = Told(v)] /\ Told(v) \in Answers
  BY <1>2, Endings DEF ControlOK, Ends
<1> QED
  BY <1>6, <1>7 DEF RepositoryCall

LEMMA StepPerforms ==
  ASSUME IInv, [Next]_vars
  PROVE  (\E t \in Calls : RepositoryCall(t)) \/ UNCHANGED <<tables, request, answer>>
<1>1. CASE UNCHANGED vars
  BY <1>1 DEF vars, control
<1>2. ASSUME NEW t \in Calls, Query(t)
      PROVE  RepositoryCall(t)
  <2>1. answer[t] = "none" /\ request' = request
    BY <1>2 DEF IInv, ControlOK, Query
  <2> QED
    BY <1>2, <2>1, QueryPerforms DEF RepositoryCall
<1>3. ASSUME NEW t \in Calls, Select(t)
      PROVE  RepositoryCall(t) \/ UNCHANGED <<tables, request, answer>>
  <2>1. CASE Sees(Statement(t), t)
    BY <1>3, <2>1 DEF Select
  <2>2. CASE ~Sees(Statement(t), t)
    <3>1. /\ Ends(t, Miss(Statement(t))) /\ UNCHANGED <<tables, request>>
          /\ stage[t] # "done" /\ request[t].op \notin ReadOps
      BY <1>3, <2>2 DEF Select
    <3>2. Miss(Statement(t)) \in Verdicts \ {"on", "failed"}
      BY Endings
    <3>3. Miss(Statement(t)) \notin Writing
      BY <2>2 DEF Miss, Sees, Writing
    <3> QED
      BY <2>2, <3>1, <3>2, <3>3, EndsPerform
  <2> QED
    BY <2>1, <2>2
<1>4. ASSUME NEW t \in Calls, Check(t)
      PROVE  RepositoryCall(t) \/ UNCHANGED <<tables, request, answer>>
  <2>1. PICK k : k = Statement(t)
    OBVIOUS
  <2>2. PICK v : v = IF Passes(k, t) THEN Ruling(k, t) ELSE Miss(k)
    OBVIOUS
  <2>3. /\ v \in Verdicts \ {"failed"} /\ stage[t] # "done" /\ UNCHANGED <<tables, request>>
        /\ request[t].op \notin ReadOps
    BY <1>4, <2>2, Endings DEF Check, IInv, ControlOK
  <2>4. CASE v \in Writing \cup {"on"}
    BY <1>4, <2>1, <2>2, <2>4 DEF Check
  <2>5. CASE v \notin Writing \cup {"on"}
    <3>1. Ends(t, v)
      BY <1>4, <2>1, <2>2, <2>5 DEF Check
    <3>2. CASE Passes(k, t)
      <4>1. v = Ruling(k, t)
        BY <2>2, <3>2
      <4> QED
        BY <2>1, <2>3, <2>5, <3>1, <3>2, <4>1, EndsPerform
    <3>3. CASE ~Passes(k, t)
      <4>1. v = Miss(k)
        BY <2>2, <3>3
      <4> QED
        BY <2>1, <2>3, <2>5, <3>1, <3>3, <4>1, EndsPerform
    <3> QED
      BY <3>2, <3>3
  <2> QED
    BY <2>4, <2>5
<1>5. ASSUME NEW t \in Calls, Commit(t)
      PROVE  RepositoryCall(t)
  <2>1. Perform(request[t], Told(verdict[t]))
    BY <1>5, CommitPerforms
  <2>2. answer[t] = "none" /\ request' = request /\ ControlOK(t) /\ stage[t] = "ending"
    BY <1>5 DEF IInv, ControlOK, Commit
  <2>3. Told(verdict[t]) \in Answers /\ "unavailable" \in Answers
    <3>1. verdict[t] \in Verdicts \ {"on", "failed"}
      BY <2>2 DEF ControlOK, Verdicts, Writing
    <3> QED
      BY <3>1, Endings DEF Answers
  <2>4. PICK r \in {Told(verdict[t]), "unavailable"} : answer' = [answer EXCEPT ![t] = r]
    BY <1>5 DEF Commit
  <2>5. CASE r = Told(verdict[t])
    BY <2>1, <2>2, <2>3, <2>4, <2>5 DEF RepositoryCall
  <2>6. CASE r = "unavailable"
    BY <2>1, <2>2, <2>3, <2>4, <2>6 DEF RepositoryCall
  <2> QED
    BY <2>4, <2>5, <2>6
<1>6. ASSUME NEW t \in Calls, NEW x, Lock(t, x)
      PROVE  UNCHANGED <<tables, request, answer>>
  BY <1>6 DEF Lock
<1>7. ASSUME NEW t \in Calls, Fail(t)
      PROVE  RepositoryCall(t)
  <2>1. answer[t] = "none"
    BY <1>7 DEF IInv, ControlOK, Fail
  <2> QED
    BY <1>7, <2>1 DEF Fail, RepositoryCall, Answers
<1> QED
  BY <1>1, <1>2, <1>3, <1>4, <1>5, <1>6, <1>7 DEF Next, Work

\* The store implements the port: whatever runs at the same time, every call has the
\* effect of one step of the port at one moment of the call, is answered as that step
\* answers, or is answered "unavailable" with or without the effect.
THEOREM StoreImplementsPort == Spec => RepositorySpec
<1>1. Init => answer = [t \in Calls |-> "none"]
  BY DEF Init
<1>2. IInv /\ [Next]_vars =>
        [\E t \in Calls : RepositoryCall(t)]_<<tables, request, answer>>
  BY StepPerforms
<1> QED
  BY <1>1, <1>2, Invariance, PTL DEF Spec, RepositorySpec

-----------------------------------------------------------------------------
(* What follows from the steps of the port: one lemma on Perform each *)
(* (AuthRepositoryProofs), of calls that are not answered yet.        *)

LEMMA CallsPerform ==
  ASSUME IInv, NEW t \in Calls, RepositoryCall(t)
  PROVE  /\ Given(request[t]) /\ MakesNew(request[t])
         /\ UNCHANGED tables \/ \E r : Perform(request[t], r)
         /\ answer[t] = "none" /\ answer'[t] # "none"
<1>1. request[t] \in Requests /\ TablesOK
  BY DEF IInv, TypeOK
<1>2. Given(request[t])
  BY <1>1, RequestTypes DEF Given, AdminOps
<1>3. answer[t] = "none" /\ answer \in [Calls -> Answers \cup {"none"}]
  BY DEF RepositoryCall, IInv, TypeOK
<1>4. stage[t] # "done"
  BY <1>3 DEF IInv, ControlOK
<1>5. MakesNew(request[t])
  BY <1>4, NewRows DEF MakesNew
<1>6. answer'[t] # "none"
  BY <1>3 DEF RepositoryCall, Answers
<1>7. UNCHANGED tables \/ \E r : Perform(request[t], r)
  BY DEF RepositoryCall
<1> QED
  BY <1>2, <1>3, <1>5, <1>6, <1>7

\* An account never has two codes that can be used, though calls ask for codes of it
\* at the same time.
THEOREM CodesAreSingle == Spec => []OneOpenCode
<1>1. Init => OneOpenCode
  BY DEF Init
<1>2. IInv /\ OneOpenCode /\ [Next]_vars => OneOpenCode'
  <2> SUFFICES ASSUME IInv, OneOpenCode, [Next]_vars
               PROVE  OneOpenCode'
    OBVIOUS
  <2>1. TablesOK
    BY DEF IInv, TypeOK
  <2>2. CASE UNCHANGED tables
    BY <2>2 DEF tables, OneOpenCode, Open
  <2>3. ASSUME NEW t \in Calls, RepositoryCall(t)
        PROVE  OneOpenCode'
    BY <2>1, <2>2, <2>3, CallsPerform, PerformKeepsOneOpenCode
  <2> QED
    BY <2>2, <2>3, StepPerforms
<1> QED
  BY <1>1, <1>2, Invariance, PTL DEF Spec

\* No step brings back what was ended: codes, sessions and passkeys stay ended, guesses,
\* sign counts and versions never fall, and no row is deleted or given away.
THEOREM HistoryIsKept == Spec => NothingComesBack
<1>1. IInv /\ [Next]_vars => [KeepsHistory]_vars
  <2> SUFFICES ASSUME IInv, [Next]_vars
               PROVE  KeepsHistory
    OBVIOUS
  <2>1. TablesOK
    BY DEF IInv, TypeOK
  <2>2. CASE UNCHANGED tables
    BY <2>1, <2>2, NothingKeepsHistory
  <2>3. ASSUME NEW t \in Calls, RepositoryCall(t)
        PROVE  KeepsHistory
    BY <2>1, <2>2, <2>3, CallsPerform, PerformKeepsHistory
  <2> QED
    BY <2>2, <2>3, StepPerforms
<1> QED
  BY <1>1, Invariance, PTL DEF Spec, NothingComesBack

\* Whoever becomes an administrator or ceases to be one does so by a call of the owner,
\* whose session is live when the change is committed; the owner never ceases to be one.
THEOREM OwnerAloneDecides == Spec => OwnerDecides
<1> DEFINE Decided ==
      \A a \in DOMAIN accounts :
        AdministratorsChange(a) => \E t \in Calls : OwnersCall(t, a)
<1>1. IInv /\ [Next]_vars => [Decided]_vars
  <2> SUFFICES ASSUME IInv, [Next]_vars, NEW a \in DOMAIN accounts, AdministratorsChange(a)
               PROVE  \E t \in Calls : OwnersCall(t, a)
    OBVIOUS
  <2>1. TablesOK
    BY DEF IInv, TypeOK
  <2>2. ~UNCHANGED tables
    BY DEF tables, AdministratorsChange
  <2>3. ASSUME NEW t \in Calls, RepositoryCall(t)
        PROVE  OwnersCall(t, a)
    <3>1. PICK r : Perform(request[t], r)
      BY <2>2, <2>3, CallsPerform
    <3>2. OwnerAsks(request[t], a)
      BY <2>1, <2>3, <3>1, CallsPerform, OwnersAsk DEF AdministratorsChange
    <3> QED
      BY <2>3, <3>2, CallsPerform DEF OwnerAsks, OwnersCall
  <2> QED
    BY <2>2, <2>3, StepPerforms
<1> QED
  BY <1>1, Invariance, PTL DEF Spec, OwnerDecides

LEMMA CommitsCount ==
  ASSUME IInv, NEW t \in Calls, Commit(t), NEW a \in DOMAIN accounts, RightsChange(a)
  PROVE  accounts'[a].version = accounts[a].version + 1
<1> DEFINE q == request[t]
<1>1. TablesOK /\ q \in Requests /\ stage[t] = "ending"
  BY DEF IInv, TypeOK, Commit
<1>2. q.op \in {"grant", "ungrant", "domain"}
  <2>1. Given(q)
    BY <1>1, RequestTypes DEF Given, AdminOps
  <2> QED
    BY <1>1, <2>1, CommitPerforms, OnlyAuthorizationChanges DEF RightsChange
<1>3. verdict[t] = "ok" /\ Writes(t, q)
  BY DEF Commit, WritesThough, RightsChange
<1>4. q.version = accounts[q.account].version + 1 /\ q.account \in DOMAIN accounts
  BY <1>1, <1>2, <1>3, AllFound DEF Found, Known, Seen
<1>5. PICK grants, domain : AuthorizationMutation(q, grants, domain)
  BY <1>2, <1>3 DEF Writes, GrantFunctionalGrantAsAdministratorWrites,
     RevokeFunctionalGrantAsAdministratorWrites, SetDomainStatusAsAdministratorWrites
<1>6. accounts[q.account] \in AccountRow
  BY <1>1, <1>4, TableTypes
<1>7. /\ a # q.account => accounts'[a] = accounts[a]
      /\ accounts'[q.account] = [accounts[q.account] EXCEPT
            !.grants = grants, !.domain = domain, !.version = q.version]
  BY <1>4, <1>5 DEF AuthorizationMutation
<1>8. accounts'[q.account].version = q.version
  BY <1>6, <1>7 DEF AccountRow
<1> QED
  BY <1>4, <1>7, <1>8 DEF RightsChange

\* Of two changes of an account's grants or domain that were decided on the same version
\* of it, one is refused: each change adds one to the version it was decided on.
THEOREM NoChangeIsLost == Spec => NoUpdateIsLost
<1> DEFINE Counted ==
      \A a \in DOMAIN accounts :
        RightsChange(a) => accounts'[a].version = accounts[a].version + 1
<1>1. IInv /\ [Next]_vars => [Counted]_vars
  <2> SUFFICES ASSUME IInv, [Next]_vars, NEW a \in DOMAIN accounts, RightsChange(a)
               PROVE  accounts'[a].version = accounts[a].version + 1
    OBVIOUS
  <2>1. ~UNCHANGED tables
    BY DEF tables, RightsChange
  <2>2. PICK t \in Calls : Work(t) \/ Fail(t)
    BY <2>1 DEF Next, vars
  <2>3. Commit(t)
    BY <2>1, <2>2 DEF Work, Query, Select, Check, Lock, Fail
  <2> QED
    BY <2>3, CommitsCount
<1> QED
  BY <1>1, Invariance, PTL DEF Spec, NoUpdateIsLost

=============================================================================
