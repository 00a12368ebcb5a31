---------------------------- MODULE SignInProofs ----------------------------
(***************************************************************************)
(* Proofs about SignIn, for any calls, pages, browsers, stored rows,       *)
(* limits and times.                                                       *)
(*                                                                         *)
(* A step of a handler is summed up once (Step): how the call goes on,     *)
(* what it may do to the tables, to the limiter's windows, to ceremonies   *)
(* and to artifacts of the provider.  The invariants are proved from that  *)
(* summary and from the steps of pages.                                    *)
(***************************************************************************)
EXTENDS SignIn, AuthRepositoryProofs, FiniteSetTheorems

-----------------------------------------------------------------------------
(* Types *)

Principals == [account : Accounts, may : SUBSET Capability]
Memos ==
  [now : Nat, allowed : BOOLEAN, account : Accounts \cup {None}, count : Nat,
   principal : Principals \cup {None}]
Bindings == [authorization : Tokens, issued : Nat]
Artifacts ==
  [model : {"code", "token"}, id : Tokens, account : Accounts \cup {None}, authorization : Tokens,
   grant : Tokens, used : BOOLEAN, until : Nat]

\* A change that an administrator asks for, whoever asks and whenever.
ChangeOK(c) ==
  /\ {"op", "session", "account", "now"} \subseteq DOMAIN c
  /\ c.op \in {"reset", "revoke_all", "revoke", "create", "update", "status", "grant", "ungrant", "domain"}
  /\ c.account \in Accounts
  /\ c.op \in {"create", "update"} => "email" \in DOMAIN c /\ c.email \in Emails
  /\ c.op = "status" => "status" \in DOMAIN c /\ c.status \in {"active", "deactivated"}
  /\ c.op = "grant" => "grant" \in DOMAIN c /\ c.grant \in Grants
  /\ c.op = "domain" => "domain" \in DOMAIN c /\ c.domain \in Domains

\* What the service and the back end rely on in a request
QueryOK(q) ==
  /\ q.op \in {"finish_login", "finish_passkey"} => q.count \in Nat
  /\ q.op = "log_out" => q.session \in Sessions \cup {None}
  /\ q.op = "administer" => ChangeOK(q.change)
  /\ q.op = "interact" => q.authorization \in Tokens
  /\ q.op = "callback" =>
       q \in [op : {"callback"}, code : Tokens, authorization : Tokens, binding : Bindings \cup {None}]

RequestOK(t) ==
  LET q == request[t]
  IN  /\ QueryOK(q)
      /\ q.op = "none" => reply[t] = "none"
      /\ q.op # "none" => from[t].page \in Pages
      /\ q.op = "get_session" /\ reply[t] = "ok" => memo[t].principal \in Principals

TInv ==
  /\ TypeOK
  /\ memo \in [Calls -> Memos] /\ artifacts \subseteq Artifacts
  /\ DOMAIN request = Calls /\ DOMAIN from = Calls
  /\ \A t \in Calls : RequestOK(t)
  /\ \A q \in scene.changes :
       "session" \in DOMAIN q /\ \A k \in Sessions : [q EXCEPT !.session = k] \in AdminRequests

-----------------------------------------------------------------------------
(* One step of a handler *)

Awaits == {1, 2, 3, 4, 5, 6, 7}

Flow(t) ==
  /\ reply[t] = "none" /\ at[t] \in Awaits /\ request[t].op # "none"
  /\ UNCHANGED <<request, clock>>
  /\ \E m \in Memos : memo' = [memo EXCEPT ![t] = m] /\ m.now \in {memo[t].now, clock}
  /\ \/ reply' = reply /\ at[t] < 7 /\ at' = [at EXCEPT ![t] = @ + 1]
     \/ at' = at /\ \E r \in Replies : reply' = [reply EXCEPT ![t] = r]
  /\ request[t].op = "get_session" /\ reply'[t] = "ok" => memo'[t].principal \in Principals

\* What is made under the id of the call, and when
Writes(t) ==
  LET q == request[t]
  IN  /\ Grows({New[t]}, {New[t]})
      /\ New[t] \in DOMAIN sessions' \ DOMAIN sessions =>
           /\ \/ q.op = "verify_code"
              \/ q.op = "finish_login" /\ at[t] = 5
              \/ q.op = "callback" /\ at[t] = 7
           /\ reply'[t] # "none"
      /\ New[t] \in DOMAIN passkeys' \ DOMAIN passkeys =>
           /\ q.op = "finish_passkey" /\ at[t] = 4 /\ reply'[t] # "none"
           /\ q.session \in DOMAIN sessions
           /\ passkeys'[New[t]].account = sessions[q.session].account
      /\ q.op \in {"verify_code", "finish_login", "callback"} /\ reply'[t] = "ok" =>
           New[t] \in DOMAIN sessions'
      /\ q.op = "log_out" /\ reply'[t] = "ok" /\ q.session \in DOMAIN sessions =>
           sessions'[q.session].revoked

Limits(t) ==
  \/ UNCHANGED <<windows, passed>>
  \/ /\ at[t] <= LimitsOf(request[t].op)
     /\ \E d \in Dimensions : \E v : \E allowed \in BOOLEAN : ConsumeWindow(t, <<d, v>>, allowed)

Finishing == {"finish_login", "finish_passkey"}

\* A finished ceremony is the one that the client began, and is taken.
Ceremonies(t) ==
  LET q == request[t]
  IN  \/ ceremonies' = ceremonies /\ ~(q.op \in Finishing /\ at[t] = 3 /\ at'[t] = 4)
      \/ /\ q.op \in {"begin_login", "begin_passkey"} /\ reply'[t] # "none"
         /\ \E kind, account :
              \E session \in IF q.op = "begin_passkey" THEN {q.session} ELSE {None} :
                /\ kind = IF q.op = "begin_login" THEN "authentication" ELSE "registration"
                /\ ceremonies' \subseteq ceremonies \cup {Ceremony(t, kind, account, session)}
      \/ /\ q.op \in Finishing /\ at[t] = 3 /\ ceremonies' \subseteq ceremonies
         /\ at'[t] = 4 =>
              /\ ceremonies' = Take(q.ceremony)
              /\ \E c \in ceremonies :
                   /\ c.id = q.ceremony /\ c.client = q.client
                   /\ q.op = "finish_login" => c.kind = "authentication"
                   /\ q.op = "finish_passkey" => c.kind = "registration" /\ c.session = q.session

\* A code is stored once, and used by the call that goes on from its third await.
Codes(t) ==
  LET q == request[t]
  IN  \/ artifacts' = artifacts /\ ~(q.op = "callback" /\ at[t] = 3 /\ at'[t] = 4)
      \/ q.op = "callback" /\ at[t] = 2 /\ artifacts' \subseteq artifacts
      \/ q.op = "interact" /\ reply'[t] # "none" /\ artifacts' = Upsert("code", t, q.authorization, New[t])
      \/ q.op = "callback" /\ at[t] = 4 /\ artifacts' = Upsert("token", t, q.authorization, q.code)
      \/ q.op = "callback" /\ at[t] = 3 /\ ConsumeArtifact(q.code, TRUE)

\* A callback goes on from its first await with the binding of the browser.
Binds(t) ==
  request[t].op = "callback" /\ at[t] = 1 /\ at'[t] = 2 =>
    /\ request[t].binding # None
    /\ request[t].authorization = request[t].binding.authorization

Posts ==
  /\ delivery' \in [Challenges -> {"none", "sending", "sent", "failing", "given_up", "lost"}]
  /\ mailed' = mailed

Step(t) == Flow(t) /\ Writes(t) /\ Limits(t) /\ Ceremonies(t) /\ Codes(t) /\ Binds(t) /\ Posts

-----------------------------------------------------------------------------
(* How a call goes on *)

Busy(t) == reply[t] = "none" /\ at[t] \in Awaits /\ request[t].op # "none"

LEMMA ServiceTypes ==
  ASSUME TInv, NEW t \in Calls
  PROVE  /\ TablesOK /\ clock \in Nat /\ memo[t] \in Memos /\ memo[t].now \in Nat
         /\ New[t] \in Sessions /\ New[t] \in Challenges /\ New[t] \in Passkeys /\ New[t] \in Tokens
         /\ DOMAIN at = Calls /\ DOMAIN reply = Calls /\ DOMAIN memo = Calls /\ DOMAIN request = Calls
         /\ at[t] \in 0 .. 7 /\ memo[t].now <= clock
<1>1. MaxTime \in Nat /\ clock \in 0 .. MaxTime
  BY ServiceAssumption DEF TInv, TypeOK
<1>2. memo[t] \in Memos
  BY DEF TInv
<1>3. memo[t].now \in Nat
  BY <1>2 DEF Memos
<1>4. New[t] \in Sessions /\ New[t] \in Challenges /\ New[t] \in Passkeys /\ New[t] \in Tokens
  <2>1. New[t] \in Challenges \cap Sessions \cap Passkeys \cap Tokens
    BY ServiceAssumption
  <2> QED
    BY <2>1
<1>5. DOMAIN at = Calls /\ DOMAIN reply = Calls /\ DOMAIN memo = Calls /\ DOMAIN request = Calls
  BY DEF TInv, TypeOK
<1>6. at[t] \in 0 .. 7 /\ memo[t].now <= clock /\ TablesOK
  BY DEF TInv, TypeOK
<1>7. clock \in Nat
  BY <1>1
<1> QED
  BY <1>2, <1>3, <1>4, <1>5, <1>6, <1>7

LEMMA MemoChanges ==
  ASSUME NEW m \in Memos
  PROVE  /\ \A n \in Nat : [m EXCEPT !.now = n] \in Memos /\ [m EXCEPT !.now = n].now = n
         /\ \A a \in Accounts : [m EXCEPT !.account = a] \in Memos /\ [m EXCEPT !.account = a].now = m.now
         /\ \A n \in Nat : [m EXCEPT !.count = n] \in Memos /\ [m EXCEPT !.count = n].now = m.now
         /\ [m EXCEPT !.allowed = FALSE] \in Memos /\ [m EXCEPT !.allowed = FALSE].now = m.now
         /\ \A p \in Principals :
              /\ [m EXCEPT !.principal = p] \in Memos /\ [m EXCEPT !.principal = p].now = m.now
              /\ [m EXCEPT !.principal = p].principal = p
  BY DEF Memos

LEMMA GoesOn ==
  ASSUME TInv, NEW t \in Calls, Busy(t), at[t] < 7, NEW m \in Memos, m.now \in {memo[t].now, clock},
         GoOn(t, m), clock' = clock
  PROVE  Flow(t) /\ reply'[t] = "none" /\ at'[t] = at[t] + 1
<1>1. DOMAIN at = Calls /\ DOMAIN reply = Calls
  BY ServiceTypes
<1>2. reply' = reply /\ at' = [at EXCEPT ![t] = @ + 1] /\ memo' = [memo EXCEPT ![t] = m] /\ request' = request
  BY DEF GoOn
<1> QED
  BY <1>1, <1>2 DEF Flow, Busy

LEMMA Tells ==
  ASSUME TInv, NEW t \in Calls, Busy(t), NEW r \in Replies, NEW m \in Memos,
         m.now \in {memo[t].now, clock}, Tell(t, r, m), clock' = clock,
         request[t].op = "get_session" /\ r = "ok" => m.principal \in Principals
  PROVE  Flow(t) /\ reply'[t] = r /\ at'[t] = at[t]
<1>1. DOMAIN memo = Calls /\ DOMAIN reply = Calls
  BY ServiceTypes
<1>2. /\ at' = at /\ reply' = [reply EXCEPT ![t] = r] /\ memo' = [memo EXCEPT ![t] = m]
      /\ request' = request
  BY DEF Tell
<1>3. reply'[t] = r /\ memo'[t] = m
  BY <1>1, <1>2
<1> QED
  BY <1>2, <1>3 DEF Flow, Busy

LEMMA Answers_ ==
  ASSUME TInv, NEW t \in Calls, Busy(t), NEW r \in Replies, Answer(t, r), clock' = clock,
         request[t].op = "get_session" => r # "ok"
  PROVE  Flow(t) /\ reply'[t] = r /\ at'[t] = at[t]
<1>1. memo[t] \in Memos
  BY ServiceTypes
<1> QED
  BY <1>1, Tells DEF Answer

LEMMA Mailing ==
  ASSUME TInv, UNCHANGED mail
  PROVE  Posts
  BY DEF TInv, TypeOK, mail, Posts

LEMMA Asked ==
  ASSUME TInv, NEW t, NEW q, Given(q), NEW r, Asks(t, q, r)
  PROVE  /\ Grows(FreshSession(q), FreshPasskey(q))
         /\ UNCHANGED <<windows, passed, ceremonies, artifacts, clock>>
         /\ r = "ok" /\ q.op \in {"authenticate", "validate"} =>
              q.session \in DOMAIN sessions /\ sessions[q.session].account \in Accounts
         /\ r = "ok" /\ q.op = "read" => q.passkey \in DOMAIN passkeys
         /\ r = "ok" /\ q.op \in {"consume", "exchange", "login"} => q.fresh \in DOMAIN sessions'
         /\ r # "unavailable" /\ q.op = "logout" /\ q.session \in DOMAIN sessions =>
              sessions'[q.session].revoked
         /\ q.op = "register" =>
              \/ UNCHANGED passkeys
              \/ /\ q.session \in DOMAIN sessions /\ q.passkey \in DOMAIN passkeys'
                 /\ passkeys'[q.passkey].account = sessions[q.session].account
         /\ r = "neutral" => q.op = "issue"
         /\ q.op = "logout" => r \in {"ok", "invalid", "unavailable"}
         /\ q.op = "issue" => r \in {"ok", "neutral", "unavailable"}
<1>0. TablesOK /\ DOMAIN accounts \subseteq Accounts
  BY DEF TInv, TypeOK, TablesOK
<1>1. CASE Perform(q, r)
  <2>1. r = "neutral" => q.op = "issue"
    BY <1>1, NeutralAnswers
  <2> QED
    BY <1>0, <1>1, <2>1, PerformGrows, PerformAnswers DEF Asks
<1>2. CASE r = "unavailable" /\ UNCHANGED tables
  <2>1. Grows(FreshSession(q), FreshPasskey(q))
    BY <1>0, <1>2, KeepTables, GrowsWithin
  <2> QED
    BY <1>2, <2>1 DEF Asks, tables
<1>3. ASSUME NEW lost, r = "unavailable", Perform(q, lost)
      PROVE  /\ Grows(FreshSession(q), FreshPasskey(q))
             /\ q.op = "register" =>
                  \/ UNCHANGED passkeys
                  \/ /\ q.session \in DOMAIN sessions /\ q.passkey \in DOMAIN passkeys'
                     /\ passkeys'[q.passkey].account = sessions[q.session].account
  BY <1>0, <1>3, PerformGrows, PerformAnswers
<1> QED
  BY <1>1, <1>2, <1>3 DEF Asks, Ask

\* A step that makes nothing and takes nothing
LEMMA Harmless ==
  ASSUME TInv, NEW t \in Calls, Flow(t), Grows({}, {}), Posts,
         UNCHANGED <<windows, passed, ceremonies, artifacts>>,
         ~(request[t].op \in Finishing /\ at[t] = 3), ~(request[t].op = "callback" /\ at[t] \in {1, 3}),
         request[t].op \in {"verify_code", "finish_login", "callback", "log_out"} => reply'[t] # "ok"
  PROVE  Step(t)
<1>1. New[t] \notin DOMAIN sessions' \ DOMAIN sessions /\ New[t] \notin DOMAIN passkeys' \ DOMAIN passkeys
  BY DEF Grows, GrowSessions, GrowPasskeys
<1>2. Writes(t)
  BY <1>1, GrowsWithin DEF Writes
<1> QED
  BY <1>2 DEF Step, Limits, Ceremonies, Codes, Binds

LEMMA TablesKept == ASSUME TInv, UNCHANGED tables PROVE Grows({}, {})
  BY KeepTables DEF TInv, TypeOK

LEMMA LimitsBound ==
  ASSUME NEW op
  PROVE  /\ op = "request_code" => LimitsOf(op) = 3
         /\ op \in {"verify_code", "begin_login", "finish_login"} => LimitsOf(op) = 2
         /\ op \in {"begin_passkey", "finish_passkey"} => LimitsOf(op) = 1
         /\ op \notin {"request_code", "verify_code", "begin_login", "finish_login", "begin_passkey",
                       "finish_passkey"} => LimitsOf(op) = 0
         /\ LimitsOf(op) \in {0, 1, 2, 3}
  BY DEF LimitsOf

LEMMA LimitStep ==
  ASSUME TInv, NEW t \in Calls, Busy(t), at[t] <= LimitsOf(request[t].op),
         NEW d \in Dimensions, NEW v, NEW refusal \in {"neutral", "limited", "unauthenticated"},
         ConsumeRateLimit(t, <<d, v>>, refusal)
  PROVE  Step(t)
<1>1. /\ at[t] < 7 /\ request[t].op # "get_session" /\ request[t].op # "callback"
      /\ ~(request[t].op \in Finishing /\ at[t] = 3) /\ request[t].op # "log_out"
  <2>1. PICK i \in Nat : i = at[t] /\ i >= 1
    BY DEF Busy, Awaits
  <2>2. PICK n \in Nat : n = LimitsOf(request[t].op) /\ n \in {0, 1, 2, 3}
    BY LimitsBound
  <2>3. i <= n /\ n # 0 /\ i < 7 /\ (n \in {1, 2} => i # 3)
    BY <2>1, <2>2
  <2>4. request[t].op \in Finishing => n \in {1, 2}
    BY <2>2, LimitsBound DEF Finishing
  <2>5. request[t].op \in {"get_session", "callback", "log_out"} => n = 0
    BY <2>2, LimitsBound
  <2> QED
    BY <2>1, <2>3, <2>4, <2>5
<1>2. Posts /\ clock' = clock /\ UNCHANGED <<tables, ceremonies, artifacts>>
  BY Mailing DEF ConsumeRateLimit
<1>3. memo[t] \in Memos
  BY ServiceTypes
<1>4. Flow(t) /\ reply'[t] # "ok"
  <2>1. CASE GoOn(t, memo[t])
    <3>1. Flow(t) /\ reply'[t] = "none"
      BY <1>1, <1>2, <1>3, <2>1, GoesOn
    <3> QED
      BY <3>1
  <2>2. CASE GoOn(t, [memo[t] EXCEPT !.allowed = FALSE])
    <3> DEFINE m == [memo[t] EXCEPT !.allowed = FALSE]
    <3>1. m \in Memos /\ m.now \in {memo[t].now, clock} /\ GoOn(t, m)
      BY <1>3, <2>2, MemoChanges
    <3> HIDE DEF m
    <3>2. Flow(t) /\ reply'[t] = "none"
      BY <1>1, <1>2, <3>1, GoesOn
    <3> QED
      BY <3>2
  <2>3. CASE refusal # "neutral" /\ Answer(t, refusal)
    BY <1>1, <1>2, <2>3, Answers_ DEF Replies
  <2>4. CASE Answer(t, "unavailable")
    BY <1>1, <1>2, <2>4, Answers_ DEF Replies
  <2> QED
    BY <2>1, <2>2, <2>3, <2>4 DEF ConsumeRateLimit
<1>5. Limits(t)
  BY DEF Limits, ConsumeRateLimit
<1>6. New[t] \notin DOMAIN sessions' \ DOMAIN sessions /\ New[t] \notin DOMAIN passkeys' \ DOMAIN passkeys
  BY <1>2 DEF tables
<1>7. Writes(t)
  BY <1>2, <1>4, <1>6, TablesKept, GrowsWithin DEF Writes
<1> QED
  BY <1>1, <1>2, <1>4, <1>5, <1>7 DEF Step, Ceremonies, Codes, Binds

-----------------------------------------------------------------------------
(* The steps of the handlers *)

LEMMA StatusType ==
  ASSUME NEW r \in Answers
  PROVE  /\ Status(r) \in Replies \cup {"neutral"} /\ (Status(r) = "ok" <=> r = "ok")
         /\ r # "neutral" => Status(r) \in Replies
         /\ PasskeyStatus(r) \in Replies /\ (PasskeyStatus(r) = "ok" <=> r = "ok")
  BY DEF Answers, Status, PasskeyStatus, Replies

\* A question about the session of the request
LEMMA SessionAsked ==
  ASSUME TInv, NEW t \in Calls, NEW op \in {"authenticate", "validate", "logout"}, NEW r \in Answers,
         Asks(t, SessionQuery(t, op), r)
  PROVE  /\ Grows({}, {}) /\ UNCHANGED <<windows, passed, ceremonies, artifacts, clock>>
         /\ r = "ok" /\ op # "logout" =>
              request[t].session \in DOMAIN sessions /\ sessions[request[t].session].account \in Accounts
         /\ r # "unavailable" /\ op = "logout" /\ request[t].session \in DOMAIN sessions =>
              sessions'[request[t].session].revoked
         /\ r # "neutral" /\ (op = "logout" => r \in {"ok", "invalid", "unavailable"})
<1> DEFINE q == SessionQuery(t, op)
<1>1. q.op = op /\ q.session = request[t].session /\ q.now \in Nat
  BY ServiceTypes DEF SessionQuery
<1>2. Given(q) /\ FreshSession(q) = {} /\ FreshPasskey(q) = {}
  BY <1>1 DEF Given, FreshSession, FreshPasskey
<1> HIDE DEF q
<1>3. Asks(t, q, r)
  BY DEF q
<1> QED
  BY <1>1, <1>2, <1>3, Asked

LEMMA GetSessionStep ==
  ASSUME TInv, NEW t \in Calls, GetSession(t)
  PROVE  Step(t)
<1>1. PICK r \in Answers :
        /\ Asks(t, SessionQuery(t, "authenticate"), r)
        /\ IF r = "ok"
           THEN Tell(t, "ok", [memo[t] EXCEPT !.principal = Principal(request[t].session)])
           ELSE Answer(t, Status(r))
  BY DEF GetSession
<1>2. Busy(t) /\ request[t].op = "get_session" /\ Posts
  <2>1. Busy(t) /\ request[t].op = "get_session"
    BY DEF GetSession, Working, Busy, Awaits
  <2> QED
    BY <2>1, Mailing DEF GetSession
<1>3. /\ Grows({}, {}) /\ UNCHANGED <<windows, passed, ceremonies, artifacts, clock>>
      /\ r = "ok" => sessions[request[t].session].account \in Accounts
      /\ r # "neutral"
  BY <1>1, SessionAsked
<1>4. CASE r = "ok"
  <2> DEFINE p == Principal(request[t].session)
             m == [memo[t] EXCEPT !.principal = p]
  <2>1. p \in Principals
    BY <1>3, <1>4 DEF Principal, Principals, Capabilities, Capability
  <2>3. m \in Memos /\ m.now = memo[t].now /\ m.principal = p
    BY <2>1, ServiceTypes, MemoChanges
  <2>4. Tell(t, "ok", m)
    BY <1>1, <1>4
  <2> HIDE DEF m, p
  <2>5. Flow(t)
    BY <1>2, <1>3, <2>1, <2>3, <2>4, Tells DEF Replies
  <2> QED
    BY <1>2, <1>3, <2>5, Harmless DEF Finishing
<1>5. CASE r # "ok"
  <2>1. Flow(t)
    BY <1>1, <1>2, <1>3, <1>5, StatusType, Answers_
  <2> QED
    BY <1>2, <1>3, <2>1, Harmless DEF Finishing
<1> QED
  BY <1>4, <1>5

LEMMA LogoutStep ==
  ASSUME TInv, NEW t \in Calls, Logout(t)
  PROVE  Step(t)
<1>1. PICK r \in Answers :
        /\ Asks(t, SessionQuery(t, "logout"), r)
        /\ Answer(t, IF r = "invalid" THEN "ok" ELSE r)
  BY DEF Logout
<1>2. Busy(t) /\ request[t].op = "log_out" /\ Posts
  <2>1. Busy(t) /\ request[t].op = "log_out"
    BY DEF Logout, Working, Busy, Awaits
  <2> QED
    BY <2>1, Mailing DEF Logout
<1>3. /\ Grows({}, {}) /\ UNCHANGED <<windows, passed, ceremonies, artifacts, clock>>
      /\ r # "unavailable" /\ request[t].session \in DOMAIN sessions =>
           sessions'[request[t].session].revoked
      /\ r \in {"ok", "invalid", "unavailable"}
  BY <1>1, SessionAsked
<1>4. Flow(t) /\ reply'[t] = (IF r = "invalid" THEN "ok" ELSE r)
  BY <1>1, <1>2, <1>3, Answers_ DEF Replies
<1>5. New[t] \notin DOMAIN sessions' \ DOMAIN sessions /\ New[t] \notin DOMAIN passkeys' \ DOMAIN passkeys
  BY <1>3 DEF Grows, GrowSessions, GrowPasskeys
<1>6. Writes(t)
  BY <1>2, <1>3, <1>4, <1>5, GrowsWithin DEF Writes
<1> QED
  BY <1>2, <1>3, <1>4, <1>6 DEF Step, Limits, Ceremonies, Codes, Binds, Finishing

LEMMA RequestCodeStep ==
  ASSUME TInv, NEW t \in Calls, RequestEmailChallenge(t)
  PROVE  Step(t)
<1>1. ASSUME NEW n \in 1 .. 3, Working(t, "request_code", n), NEW d \in Dimensions, NEW v,
             ConsumeRateLimit(t, <<d, v>>, "neutral")
      PROVE  Step(t)
  <2>1. Busy(t) /\ request[t].op = "request_code" /\ at[t] = n
    <3>1. n \in Awaits
      BY <1>1 DEF Awaits
    <3> QED
      BY <1>1, <3>1 DEF Working, Busy
  <2>2. LimitsOf(request[t].op) = 3
    BY <2>1, LimitsBound
  <2>3. n <= 3
    BY <1>1
  <2> QED
    BY <1>1, <2>1, <2>2, <2>3, LimitStep
<1>2. ASSUME Working(t, "request_code", 4)
      PROVE  Busy(t) /\ request[t].op = "request_code"
  BY <1>2 DEF Working, Busy, Awaits
<1>3. CASE Working(t, "request_code", 4) /\ Answer(t, "ok") /\ UNCHANGED <<stores, mail, clock, faults>>
  <2>1. /\ Grows({}, {}) /\ Posts /\ UNCHANGED <<windows, passed, ceremonies, artifacts, clock>>
    BY <1>3, TablesKept, Mailing DEF stores
  <2>2. Flow(t)
    BY <1>2, <1>3, <2>1, Answers_ DEF Replies
  <2> QED
    BY <1>2, <1>3, <2>1, <2>2, Harmless DEF Finishing
<1>4. CASE /\ Working(t, "request_code", 4) /\ mailed' = mailed
           /\ \E r \in Answers :
                /\ Asks(t, Issue(t), r)
                /\ Answer(t, IF r = "neutral" THEN "ok" ELSE r)
                /\ delivery' = [delivery EXCEPT ![New[t]] = IF r = "ok" THEN "sending" ELSE @]
  <2>1. PICK r \in Answers :
          /\ Asks(t, Issue(t), r)
          /\ Answer(t, IF r = "neutral" THEN "ok" ELSE r)
          /\ delivery' = [delivery EXCEPT ![New[t]] = IF r = "ok" THEN "sending" ELSE @]
    BY <1>4
  <2> DEFINE q == Issue(t)
  <2>2. q.op = "issue" /\ q.challenge \in Challenges /\ q.now \in Nat
    BY ServiceTypes DEF Issue
  <2>3. Given(q) /\ FreshSession(q) = {} /\ FreshPasskey(q) = {}
    BY <2>2 DEF Given, FreshSession, FreshPasskey
  <2> HIDE DEF q
  <2>4. Asks(t, q, r)
    BY <2>1 DEF q
  <2>5. /\ Grows({}, {}) /\ UNCHANGED <<windows, passed, ceremonies, artifacts, clock>>
        /\ r \in {"ok", "neutral", "unavailable"}
    BY <2>2, <2>3, <2>4, Asked
  <2>6. Posts
    BY <1>4, <2>1 DEF TInv, TypeOK, Posts
  <2>7. Flow(t)
    BY <1>2, <1>4, <2>1, <2>5, Answers_ DEF Replies
  <2> QED
    BY <1>2, <1>4, <2>5, <2>6, <2>7, Harmless DEF Finishing
<1> QED
  BY <1>1, <1>3, <1>4 DEF RequestEmailChallenge, Dimensions

\* The last await of a handler that makes a session
LEMMA MakesSession ==
  ASSUME TInv, NEW t \in Calls, NEW q, Given(q), FreshSession(q) = {New[t]}, FreshPasskey(q) = {},
         q.op \in {"consume", "exchange", "login"}, q.fresh = New[t],
         NEW r \in Answers, Asks(t, q, r), NEW a \in Replies, a = "ok" <=> r = "ok", Answer(t, a),
         UNCHANGED mail, Busy(t),
         \/ request[t].op = "verify_code" /\ at[t] = 3
         \/ request[t].op = "finish_login" /\ at[t] = 5
         \/ request[t].op = "callback" /\ at[t] = 7
  PROVE  Step(t)
<1>1. /\ Grows({New[t]}, {}) /\ UNCHANGED <<windows, passed, ceremonies, artifacts, clock>>
      /\ r = "ok" => New[t] \in DOMAIN sessions'
  BY Asked
<1>2. Flow(t) /\ reply'[t] = a /\ a # "none" /\ at'[t] = at[t]
  BY <1>1, Answers_ DEF Replies
<1>3. New[t] \notin DOMAIN passkeys' \ DOMAIN passkeys /\ Grows({New[t]}, {New[t]})
  BY <1>1 DEF Grows, GrowPasskeys
<1>4. Writes(t)
  BY <1>1, <1>2, <1>3 DEF Writes
<1>5. Posts
  BY Mailing
<1>6. 3 # 5 /\ 3 # 7 /\ 1 # 7
  OBVIOUS
<1>7. /\ ceremonies' = ceremonies /\ ~(request[t].op \in Finishing /\ at[t] = 3)
      /\ artifacts' = artifacts /\ ~(request[t].op = "callback" /\ at[t] \in {1, 3})
  BY <1>1, <1>6 DEF Finishing
<1> QED
  BY <1>1, <1>2, <1>4, <1>5, <1>7 DEF Step, Limits, Ceremonies, Codes, Binds

LEMMA VerifyCodeStep ==
  ASSUME TInv, NEW t \in Calls, VerifyEmailChallenge(t)
  PROVE  Step(t)
<1>1. ASSUME NEW n \in 1 .. 2, Working(t, "verify_code", n), NEW d \in Dimensions, NEW v,
             ConsumeRateLimit(t, <<d, v>>, "limited")
      PROVE  Step(t)
  <2>1. Busy(t) /\ request[t].op = "verify_code" /\ at[t] = n
    <3>1. n \in Awaits
      BY <1>1 DEF Awaits
    <3> QED
      BY <1>1, <3>1 DEF Working, Busy
  <2>2. LimitsOf(request[t].op) = 2
    BY <2>1, LimitsBound
  <2>3. n <= 2
    BY <1>1
  <2> QED
    BY <1>1, <2>1, <2>2, <2>3, LimitStep
<1> DEFINE q == [op |-> "consume", challenge |-> request[t].challenge, right |-> request[t].right,
                 fresh |-> New[t], now |-> memo[t].now]
<1>2. CASE Working(t, "verify_code", 3) /\ AnswersWith(t, q)
  <2>1. Busy(t) /\ request[t].op = "verify_code" /\ at[t] = 3
    BY <1>2 DEF Working, Busy, Awaits
  <2>2. q.op = "consume" /\ q.fresh = New[t] /\ q.now \in Nat /\ q.fresh \in Sessions
    BY ServiceTypes
  <2> HIDE DEF q
  <2>3. Given(q) /\ FreshSession(q) = {New[t]} /\ FreshPasskey(q) = {}
    BY <2>2 DEF Given, FreshSession, FreshPasskey
  <2>4. PICK r \in Answers : Asks(t, q, r) /\ Answer(t, Status(r)) /\ UNCHANGED mail
    BY <1>2 DEF AnswersWith
  <2>5. r # "neutral"
    BY <2>2, <2>3, <2>4, Asked
  <2>6. Status(r) \in Replies /\ (Status(r) = "ok" <=> r = "ok")
    BY <2>5, StatusType
  <2> QED
    BY <2>1, <2>2, <2>3, <2>4, <2>6, MakesSession
<1> QED
  BY <1>1, <1>2 DEF VerifyEmailChallenge, Dimensions

\* A handler that goes on or answers, and makes nothing
LEMMA Proceeds ==
  ASSUME TInv, NEW t \in Calls, Busy(t), at[t] # 7, UNCHANGED mail, Grows({}, {}),
         UNCHANGED <<windows, passed, ceremonies, artifacts, clock>>,
         request[t].op \notin {"get_session", "log_out", "callback"},
         ~(request[t].op \in Finishing /\ at[t] = 3),
         NEW m \in Memos, m.now \in {memo[t].now, clock}, NEW a \in Replies, GoOn(t, m) \/ Answer(t, a),
         request[t].op \in {"verify_code", "finish_login"} => a # "ok"
  PROVE  Step(t)
<1>1. at[t] < 7
  BY DEF Busy, Awaits
<1>2. CASE GoOn(t, m)
  <2>1. Flow(t) /\ reply'[t] = "none"
    BY <1>1, <1>2, GoesOn
  <2> QED
    BY <2>1, Mailing, Harmless
<1>3. CASE Answer(t, a)
  <2>1. Flow(t) /\ reply'[t] = a
    BY <1>3, Answers_
  <2> QED
    BY <2>1, Mailing, Harmless
<1> QED
  BY <1>2, <1>3

\* A step that leaves the tables and the limits alone
LEMMA Made ==
  ASSUME TInv, NEW t \in Calls, Flow(t), UNCHANGED <<tables, windows, passed, mail>>,
         Ceremonies(t), Codes(t), Binds(t),
         request[t].op \in {"verify_code", "finish_login", "callback", "log_out"} => reply'[t] # "ok"
  PROVE  Step(t)
<1>1. Grows({}, {}) /\ Posts
  BY TablesKept, Mailing
<1>2. New[t] \notin DOMAIN sessions' \ DOMAIN sessions /\ New[t] \notin DOMAIN passkeys' \ DOMAIN passkeys
  BY <1>1 DEF Grows, GrowSessions, GrowPasskeys
<1>3. Writes(t)
  BY <1>1, <1>2, GrowsWithin DEF Writes
<1> QED
  BY <1>1, <1>3 DEF Step, Limits

LEMMA PutStep ==
  ASSUME TInv, NEW t \in Calls, Busy(t), request[t].op \in {"begin_login", "begin_passkey"},
         NEW kind, kind = (IF request[t].op = "begin_login" THEN "authentication" ELSE "registration"),
         NEW account, NEW session,
         session \in (IF request[t].op = "begin_passkey" THEN {request[t].session} ELSE {None}),
         Put(t, Ceremony(t, kind, account, session))
  PROVE  Step(t)
<1> DEFINE c == Ceremony(t, kind, account, session)
<1>1. ceremonies' \subseteq ceremonies \cup {c}
  BY DEF Put
<1>2. /\ UNCHANGED <<tables, windows, passed, artifacts, mail, clock>>
      /\ Answer(t, "ok") \/ Answer(t, "unavailable")
  BY DEF Put
<1>3. Flow(t) /\ reply'[t] # "none"
  BY <1>2, Answers_ DEF Replies
<1>4. Ceremonies(t)
  BY <1>1, <1>3 DEF Ceremonies
<1> QED
  BY <1>2, <1>3, <1>4, Made DEF Codes, Binds

LEMMA TakeStep ==
  ASSUME TInv, NEW t \in Calls, Busy(t), request[t].op \in Finishing, at[t] = 3,
         NEW accepted \in BOOLEAN, NEW m \in Memos, m.now \in {memo[t].now, clock},
         TakeCeremony(t, accepted, m),
         accepted =>
           \E c \in ceremonies :
             /\ c.id = request[t].ceremony /\ c.client = request[t].client
             /\ request[t].op = "finish_login" => c.kind = "authentication"
             /\ request[t].op = "finish_passkey" => c.kind = "registration" /\ c.session = request[t].session
  PROVE  Step(t)
<1>1. UNCHANGED <<tables, windows, passed, artifacts, mail, clock>> /\ ceremonies' \subseteq ceremonies
  BY DEF TakeCeremony, Take
<1>2. \/ accepted /\ GoOn(t, m) /\ ceremonies' = Take(request[t].ceremony)
      \/ Answer(t, "unauthenticated") \/ Answer(t, "unavailable")
  BY DEF TakeCeremony
<1>3. CASE accepted /\ GoOn(t, m) /\ ceremonies' = Take(request[t].ceremony)
  <2>1. Flow(t) /\ reply'[t] = "none"
    BY <1>1, <1>3, GoesOn
  <2>2. Ceremonies(t)
    BY <1>1, <1>3 DEF Ceremonies
  <2> QED
    BY <1>1, <2>1, <2>2, Made DEF Finishing, Codes, Binds
<1>4. CASE Answer(t, "unauthenticated") \/ Answer(t, "unavailable")
  <2>1. Flow(t) /\ reply'[t] \notin {"none", "ok"} /\ at'[t] = at[t]
    BY <1>1, <1>4, Answers_ DEF Replies, Finishing
  <2>2. Ceremonies(t)
    BY <1>1, <2>1 DEF Ceremonies
  <2> QED
    BY <1>1, <2>1, <2>2, Made DEF Finishing, Codes, Binds
<1> QED
  BY <1>2, <1>3, <1>4

LEMMA AtLimit ==
  ASSUME TInv, NEW t \in Calls, NEW op, op # "none", NEW n \in {1, 2}, n <= LimitsOf(op),
         Working(t, op, n), NEW d \in Dimensions, NEW v,
         NEW refusal \in {"neutral", "limited", "unauthenticated"},
         ConsumeRateLimit(t, <<d, v>>, refusal)
  PROVE  Step(t)
<1>1. Busy(t) /\ at[t] <= LimitsOf(request[t].op)
  BY DEF Working, Busy, Awaits
<1> QED
  BY <1>1, LimitStep

LEMMA BeginLoginStep ==
  ASSUME TInv, NEW t \in Calls, BeginAuthentication(t)
  PROVE  Step(t)
<1>1. LimitsOf("begin_login") = 2 /\ 1 <= 2
  BY LimitsBound
<1>2. CASE \/ /\ Working(t, "begin_login", 1)
              /\ ConsumeRateLimit(t, <<"passkey-begin-fingerprint", request[t].client>>, "unauthenticated")
           \/ /\ Working(t, "begin_login", 2)
              /\ ConsumeRateLimit(t, <<"passkey-begin-network", None>>, "unauthenticated")
  BY <1>1, <1>2, AtLimit DEF Dimensions
<1>3. CASE Working(t, "begin_login", 3) /\ Put(t, Ceremony(t, "authentication", None, None))
  <2>1. Busy(t) /\ request[t].op = "begin_login"
    BY <1>3 DEF Working, Busy, Awaits
  <2> QED
    BY <1>3, <2>1, PutStep
<1> QED
  BY <1>2, <1>3 DEF BeginAuthentication

LEMMA FinishLoginStep ==
  ASSUME TInv, NEW t \in Calls, FinishAuthentication(t)
  PROVE  Step(t)
<1> DEFINE q == request[t]
<1>0. ASSUME NEW n \in Awaits, Working(t, "finish_login", n)
      PROVE  Busy(t) /\ q.op = "finish_login" /\ at[t] = n /\ "finish_login" \in Finishing
  BY <1>0 DEF Working, Busy, Finishing
<1>1. LimitsOf("finish_login") = 2 /\ 1 <= 2
  BY LimitsBound
<1>2. CASE \/ /\ Working(t, "finish_login", 1)
              /\ ConsumeRateLimit(t, <<"passkey-finish-fingerprint", q.client>>, "unauthenticated")
           \/ /\ Working(t, "finish_login", 2)
              /\ ConsumeRateLimit(t, <<"passkey-finish-network", None>>, "unauthenticated")
  BY <1>1, <1>2, AtLimit DEF Dimensions
<1>3. CASE /\ Working(t, "finish_login", 3)
           /\ TakeCeremony(t, \E c \in Found(t) : c.kind = "authentication" /\ c.client = q.client,
                           [memo[t] EXCEPT !.now = clock])
  <2> DEFINE accepted == \E c \in Found(t) : c.kind = "authentication" /\ c.client = q.client
             m == [memo[t] EXCEPT !.now = clock]
  <2>1. Busy(t) /\ q.op = "finish_login" /\ at[t] = 3 /\ q.op \in Finishing
    BY <1>0, <1>3 DEF Awaits
  <2>2. m \in Memos /\ m.now = clock
    BY ServiceTypes, MemoChanges
  <2>3. accepted => \E c \in ceremonies :
                      c.id = q.ceremony /\ c.client = q.client /\ c.kind = "authentication"
    BY DEF Found
  <2>4. TakeCeremony(t, accepted, m) /\ accepted \in BOOLEAN
    BY <1>3
  <2> HIDE DEF accepted, m
  <2> QED
    BY <2>1, <2>2, <2>3, <2>4, TakeStep
<1>4. CASE /\ Working(t, "finish_login", 4)
           /\ \E r \in Answers :
                /\ Asks(t, [op |-> "read", passkey |-> q.passkey, now |-> memo[t].now], r)
                /\ IF r = "ok" /\ VerifyAuthentication(t)
                   THEN GoOn(t, [memo[t] EXCEPT !.count = passkeys[q.passkey].count])
                   ELSE Answer(t, IF r = "ok" THEN "unauthenticated" ELSE PasskeyStatus(r))
           /\ UNCHANGED mail
  <2> DEFINE w == [op |-> "read", passkey |-> q.passkey, now |-> memo[t].now]
             m == [memo[t] EXCEPT !.count = passkeys[q.passkey].count]
  <2>1. PICK r \in Answers :
          /\ Asks(t, w, r)
          /\ IF r = "ok" /\ VerifyAuthentication(t)
             THEN GoOn(t, m)
             ELSE Answer(t, IF r = "ok" THEN "unauthenticated" ELSE PasskeyStatus(r))
    BY <1>4
  <2>2. w.op = "read" /\ w.passkey = q.passkey /\ w.now \in Nat
    BY ServiceTypes
  <2>3. r = "ok" => m \in Memos /\ m.now = memo[t].now
    <3>1. ASSUME w.passkey \in DOMAIN passkeys
          PROVE  passkeys[w.passkey].count \in Nat
      BY <3>1, ServiceTypes, TableTypes
    <3>2. Given(w)
      BY <2>2 DEF Given
    <3>3. r = "ok" => w.passkey \in DOMAIN passkeys
      <4> HIDE DEF w
      <4> QED
        BY <2>1, <2>2, <3>2, Asked
    <3> QED
      BY <2>2, <3>1, <3>3, ServiceTypes, MemoChanges
  <2> HIDE DEF w, m
  <2>4. Given(w) /\ FreshSession(w) = {} /\ FreshPasskey(w) = {}
    BY <2>2 DEF Given, FreshSession, FreshPasskey
  <2>5. Grows({}, {}) /\ UNCHANGED <<windows, passed, ceremonies, artifacts, clock>>
    BY <2>1, <2>2, <2>4, Asked
  <2>6. Busy(t) /\ q.op = "finish_login" /\ at[t] # 7 /\ at[t] # 3
    BY <1>0, <1>4 DEF Awaits
  <2>7. CASE r = "ok" /\ VerifyAuthentication(t)
    BY <1>4, <2>1, <2>3, <2>5, <2>6, <2>7, Proceeds DEF Replies
  <2>8. CASE ~(r = "ok" /\ VerifyAuthentication(t))
    <3>1. PICK a \in Replies : Answer(t, a) /\ a # "ok"
      BY <2>1, <2>8, StatusType DEF Replies
    <3>2. memo[t] \in Memos
      BY ServiceTypes
    <3> QED
      BY <1>4, <2>5, <2>6, <3>1, <3>2, Proceeds
  <2> QED
    BY <2>7, <2>8
<1>5. CASE /\ Working(t, "finish_login", 5)
           /\ \E r \in Answers :
                /\ Asks(t, [op |-> "login", passkey |-> q.passkey, expected |-> memo[t].count,
                            observed |-> q.count, fresh |-> New[t], now |-> memo[t].now], r)
                /\ Answer(t, PasskeyStatus(r))
           /\ UNCHANGED mail
  <2> DEFINE w == [op |-> "login", passkey |-> q.passkey, expected |-> memo[t].count,
                   observed |-> q.count, fresh |-> New[t], now |-> memo[t].now]
  <2>1. PICK r \in Answers : Asks(t, w, r) /\ Answer(t, PasskeyStatus(r))
    BY <1>5
  <2>2. Busy(t) /\ q.op = "finish_login" /\ at[t] = 5
    BY <1>0, <1>5 DEF Awaits
  <2>3. q.count \in Nat
    BY <2>2 DEF TInv, RequestOK, QueryOK
  <2>4. /\ w.op = "login" /\ w.fresh = New[t] /\ w.now \in Nat /\ w.observed \in Nat
        /\ w.fresh \in Sessions
    BY <2>3, ServiceTypes
  <2> HIDE DEF w
  <2>5. Given(w) /\ FreshSession(w) = {New[t]} /\ FreshPasskey(w) = {}
    BY <2>4 DEF Given, FreshSession, FreshPasskey
  <2>6. PasskeyStatus(r) \in Replies /\ (PasskeyStatus(r) = "ok" <=> r = "ok")
    BY StatusType
  <2> QED
    BY <1>5, <2>1, <2>2, <2>4, <2>5, <2>6, MakesSession
<1> QED
  BY <1>2, <1>3, <1>4, <1>5 DEF FinishAuthentication

\* A question of a handler about a session, an account or a passkey
LEMMA ReadStep ==
  ASSUME TInv, NEW t \in Calls, Busy(t), at[t] # 7, UNCHANGED mail,
         request[t].op \notin {"get_session", "log_out", "callback", "verify_code", "finish_login"},
         ~(request[t].op \in Finishing /\ at[t] = 3),
         NEW q, Given(q), FreshSession(q) = {}, FreshPasskey(q) = {}, NEW r, Asks(t, q, r),
         NEW m \in Memos, m.now \in {memo[t].now, clock}, NEW a \in Replies, GoOn(t, m) \/ Answer(t, a)
  PROVE  Step(t)
<1>1. Grows({}, {}) /\ UNCHANGED <<windows, passed, ceremonies, artifacts, clock>>
  BY Asked
<1> QED
  BY <1>1, Proceeds

LEMMA ValidatesStep ==
  ASSUME TInv, NEW t \in Calls, Busy(t), at[t] = 2, request[t].op \in {"begin_passkey", "finish_passkey"},
         Validates(t)
  PROVE  Step(t)
<1> DEFINE m == [memo[t] EXCEPT !.account = sessions[request[t].session].account]
<1>1. PICK r \in Answers :
        /\ Asks(t, SessionQuery(t, "validate"), r)
        /\ IF r = "ok" THEN GoOn(t, m) ELSE Answer(t, PasskeyStatus(r))
        /\ UNCHANGED mail
  BY DEF Validates
<1>2. /\ Grows({}, {}) /\ UNCHANGED <<windows, passed, ceremonies, artifacts, clock>>
      /\ r = "ok" => sessions[request[t].session].account \in Accounts
  BY <1>1, SessionAsked
<1>3. r = "ok" => m \in Memos /\ m.now = memo[t].now
  BY <1>2, ServiceTypes, MemoChanges
<1> HIDE DEF m
<1>4. at[t] # 7 /\ at[t] # 3
  OBVIOUS
<1>5. CASE r = "ok"
  BY <1>1, <1>2, <1>3, <1>4, <1>5, Proceeds DEF Replies
<1>6. CASE r # "ok"
  <2>1. memo[t] \in Memos /\ PasskeyStatus(r) \in Replies
    BY ServiceTypes, StatusType
  <2> QED
    BY <1>1, <1>2, <1>4, <1>6, <2>1, Proceeds
<1> QED
  BY <1>5, <1>6

LEMMA BeginPasskeyStep ==
  ASSUME TInv, NEW t \in Calls, BeginRegistration(t)
  PROVE  Step(t)
<1> DEFINE q == request[t]
<1>0. ASSUME NEW n \in Awaits, Working(t, "begin_passkey", n)
      PROVE  Busy(t) /\ q.op = "begin_passkey" /\ at[t] = n
  BY <1>0 DEF Working, Busy
<1>1. LimitsOf("begin_passkey") = 1 /\ 1 <= 1
  BY LimitsBound
<1>2. CASE /\ Working(t, "begin_passkey", 1)
           /\ ConsumeRateLimit(t, <<"registration-begin-session", q.session>>, "unauthenticated")
  BY <1>1, <1>2, AtLimit DEF Dimensions
<1>3. CASE Working(t, "begin_passkey", 2) /\ Validates(t)
  BY <1>0, <1>3, ValidatesStep DEF Awaits
<1>4. CASE /\ Working(t, "begin_passkey", 3)
           /\ \E r \in Answers :
                /\ Asks(t, [op |-> "find", account |-> memo[t].account], r)
                /\ IF r = "ok" /\ Active(memo[t].account) THEN GoOn(t, memo[t])
                   ELSE Answer(t, IF r = "ok" THEN "unauthenticated" ELSE PasskeyStatus(r))
           /\ UNCHANGED mail
  <2> DEFINE w == [op |-> "find", account |-> memo[t].account]
  <2>1. PICK r \in Answers :
          /\ Asks(t, w, r)
          /\ IF r = "ok" /\ Active(memo[t].account) THEN GoOn(t, memo[t])
             ELSE Answer(t, IF r = "ok" THEN "unauthenticated" ELSE PasskeyStatus(r))
    BY <1>4
  <2>2. w.op = "find"
    OBVIOUS
  <2> HIDE DEF w
  <2>3. Given(w) /\ FreshSession(w) = {} /\ FreshPasskey(w) = {}
    BY <2>2 DEF Given, FreshSession, FreshPasskey
  <2>4. Busy(t) /\ q.op = "begin_passkey" /\ at[t] # 7
    BY <1>0, <1>4 DEF Awaits
  <2>5. \E a \in Replies : GoOn(t, memo[t]) \/ Answer(t, a)
    BY <2>1, StatusType DEF Replies
  <2>6. memo[t] \in Memos
    BY ServiceTypes
  <2> QED
    BY <1>4, <2>1, <2>3, <2>4, <2>5, <2>6, ReadStep DEF Finishing
<1>5. CASE /\ Working(t, "begin_passkey", 4)
           /\ Put(t, Ceremony(t, "registration", memo[t].account, q.session))
  <2>1. Busy(t) /\ q.op = "begin_passkey"
    BY <1>0, <1>5 DEF Awaits
  <2> QED
    BY <1>5, <2>1, PutStep
<1> QED
  BY <1>2, <1>3, <1>4, <1>5 DEF BeginRegistration

LEMMA FinishPasskeyStep ==
  ASSUME TInv, NEW t \in Calls, FinishRegistration(t)
  PROVE  Step(t)
<1> DEFINE q == request[t]
<1>0. ASSUME NEW n \in Awaits, Working(t, "finish_passkey", n)
      PROVE  Busy(t) /\ q.op = "finish_passkey" /\ at[t] = n /\ "finish_passkey" \in Finishing
  BY <1>0 DEF Working, Busy, Finishing
<1>1. LimitsOf("finish_passkey") = 1 /\ 1 <= 1
  BY LimitsBound
<1>2. CASE /\ Working(t, "finish_passkey", 1)
           /\ ConsumeRateLimit(t, <<"registration-finish-session", q.session>>, "unauthenticated")
  BY <1>1, <1>2, AtLimit DEF Dimensions
<1>3. CASE Working(t, "finish_passkey", 2) /\ Validates(t)
  BY <1>0, <1>3, ValidatesStep DEF Awaits
<1>4. CASE /\ Working(t, "finish_passkey", 3)
           /\ TakeCeremony(t, VerifyRegistration(t) /\ \E c \in Found(t) : BegunHere(t, c), memo[t])
  <2> DEFINE accepted == VerifyRegistration(t) /\ \E c \in Found(t) : BegunHere(t, c)
  <2>1. Busy(t) /\ q.op = "finish_passkey" /\ at[t] = 3 /\ q.op \in Finishing
    BY <1>0, <1>4 DEF Awaits
  <2>2. accepted => \E c \in ceremonies :
                      /\ c.id = q.ceremony /\ c.client = q.client
                      /\ c.kind = "registration" /\ c.session = q.session
    BY DEF Found, BegunHere
  <2>3. TakeCeremony(t, accepted <=> TRUE, memo[t]) /\ memo[t] \in Memos
    BY <1>4, ServiceTypes DEF TakeCeremony
  <2>4. (accepted <=> TRUE) \in BOOLEAN /\ ((accepted <=> TRUE) => accepted)
    OBVIOUS
  <2> HIDE DEF accepted
  <2> QED
    BY <2>1, <2>2, <2>3, <2>4, TakeStep
<1>5. CASE /\ Working(t, "finish_passkey", 4)
           /\ \E r \in Answers :
                /\ Asks(t, [op |-> "register", session |-> q.session, passkey |-> New[t],
                            count |-> q.count, now |-> memo[t].now], r)
                /\ Answer(t, PasskeyStatus(r))
           /\ UNCHANGED mail
  <2> DEFINE w == [op |-> "register", session |-> q.session, passkey |-> New[t],
                   count |-> q.count, now |-> memo[t].now]
  <2>1. PICK r \in Answers : Asks(t, w, r) /\ Answer(t, PasskeyStatus(r))
    BY <1>5
  <2>2. Busy(t) /\ q.op = "finish_passkey" /\ at[t] = 4
    BY <1>0, <1>5 DEF Awaits
  <2>3. q.count \in Nat
    BY <2>2 DEF TInv, RequestOK, QueryOK
  <2>4. /\ w.op = "register" /\ w.passkey = New[t] /\ w.now \in Nat /\ w.count \in Nat
        /\ w.passkey \in Passkeys /\ w.session = q.session
    BY <2>3, ServiceTypes
  <2> HIDE DEF w
  <2>5. Given(w) /\ FreshSession(w) = {} /\ FreshPasskey(w) = {New[t]}
    BY <2>4 DEF Given, FreshSession, FreshPasskey
  <2>6. /\ Grows({}, {New[t]}) /\ UNCHANGED <<windows, passed, ceremonies, artifacts, clock>>
        /\ \/ UNCHANGED passkeys
           \/ q.session \in DOMAIN sessions /\ passkeys'[New[t]].account = sessions[q.session].account
    BY <2>1, <2>4, <2>5, Asked
  <2>7. Flow(t) /\ reply'[t] # "none" /\ at'[t] = at[t]
    BY <2>1, <2>2, <2>6, StatusType, Answers_ DEF Replies
  <2>8. New[t] \notin DOMAIN sessions' \ DOMAIN sessions /\ Grows({New[t]}, {New[t]})
    BY <2>6 DEF Grows, GrowSessions
  <2>9. Writes(t)
    BY <2>2, <2>6, <2>7, <2>8 DEF Writes
  <2>10. Posts
    BY <1>5, Mailing
  <2>11. at[t] # 3
    BY <2>2
  <2> QED
    BY <2>2, <2>6, <2>7, <2>9, <2>10, <2>11 DEF Step, Limits, Ceremonies, Codes, Binds
<1> QED
  BY <1>2, <1>3, <1>4, <1>5 DEF FinishRegistration

LEMMA InteractStep ==
  ASSUME TInv, NEW t \in Calls, CompleteOidcInteraction(t)
  PROVE  Step(t)
<1> DEFINE q == request[t]
           known == FindAccount(memo[t].account) # {}
<1>1. ASSUME NEW n \in Awaits, Working(t, "interact", n)
      PROVE  Busy(t) /\ q.op = "interact" /\ at[t] = n
  BY <1>1 DEF Working, Busy
<1>2. CASE /\ Working(t, "interact", 1)
           /\ \E r \in Answers :
                /\ Asks(t, SessionQuery(t, "authenticate"), r)
                /\ IF r = "ok" THEN GoOn(t, [memo[t] EXCEPT !.account = sessions[q.session].account])
                               ELSE Answer(t, Status(r))
           /\ UNCHANGED mail
  <2> DEFINE m == [memo[t] EXCEPT !.account = sessions[q.session].account]
  <2>1. PICK r \in Answers : /\ Asks(t, SessionQuery(t, "authenticate"), r)
                             /\ IF r = "ok" THEN GoOn(t, m) ELSE Answer(t, Status(r))
    BY <1>2
  <2>2. /\ Grows({}, {}) /\ UNCHANGED <<windows, passed, ceremonies, artifacts, clock>>
        /\ (r = "ok" => sessions[q.session].account \in Accounts) /\ r # "neutral"
    BY <2>1, SessionAsked
  <2>3. r = "ok" => m \in Memos /\ m.now = memo[t].now
    BY <2>2, ServiceTypes, MemoChanges
  <2> HIDE DEF m
  <2>4. Busy(t) /\ q.op = "interact" /\ at[t] # 7 /\ q.op \notin Finishing
    BY <1>1, <1>2 DEF Awaits, Finishing
  <2>5. CASE r = "ok"
    BY <1>2, <2>1, <2>2, <2>3, <2>4, <2>5, Proceeds DEF Replies
  <2>6. CASE r # "ok"
    <3>1. memo[t] \in Memos /\ Status(r) \in Replies
      BY <2>2, ServiceTypes, StatusType
    <3> QED
      BY <1>2, <2>1, <2>2, <2>4, <2>6, <3>1, Proceeds
  <2> QED
    BY <2>5, <2>6
<1>3. CASE /\ Working(t, "interact", 2)
           /\ \/ /\ artifacts' = IF known THEN Upsert("code", t, q.authorization, New[t]) ELSE artifacts
                 /\ Answer(t, IF known THEN "ok" ELSE "unavailable")
                 /\ UNCHANGED faults /\ StoresOnly(t)
              \/ ProviderFails(t)
  <2>1. Busy(t) /\ q.op = "interact" /\ q.op \notin Finishing
    BY <1>1, <1>3 DEF Awaits, Finishing
  <2>2. /\ UNCHANGED <<tables, windows, passed, ceremonies, mail, clock>>
        /\ artifacts' \in {artifacts, Upsert("code", t, q.authorization, New[t])}
        /\ Answer(t, "ok") \/ Answer(t, "unavailable")
    BY <1>3 DEF ProviderFails, StoresOnly
  <2>3. Flow(t) /\ reply'[t] # "none"
    BY <2>1, <2>2, Answers_ DEF Replies
  <2>4. Codes(t)
    BY <2>1, <2>2, <2>3 DEF Codes
  <2> QED
    BY <2>1, <2>2, <2>3, <2>4, Made DEF Ceremonies, Binds
<1> QED
  BY <1>2, <1>3 DEF CompleteOidcInteraction

\* A callback that leaves the tables alone
LEMMA CallbackStep ==
  ASSUME TInv, NEW t \in Calls, Busy(t), request[t].op = "callback", at[t] # 7,
         UNCHANGED <<tables, windows, passed, ceremonies, mail, clock>>,
         NEW m \in Memos, m.now \in {memo[t].now, clock},
         GoOn(t, m) \/ Answer(t, "unavailable"), Codes(t), Binds(t)
  PROVE  Step(t)
<1>0. at[t] < 7 /\ request[t].op \notin Finishing
  BY DEF Busy, Awaits, Finishing
<1>1. CASE GoOn(t, m)
  <2>1. Flow(t) /\ reply'[t] = "none"
    BY <1>0, <1>1, GoesOn
  <2> QED
    BY <1>0, <1>1, <2>1, Made DEF Ceremonies
<1>2. CASE Answer(t, "unavailable")
  <2>1. Flow(t) /\ reply'[t] = "unavailable"
    BY <1>2, Answers_ DEF Replies
  <2> QED
    BY <1>0, <2>1, Made DEF Ceremonies
<1> QED
  BY <1>1, <1>2

LEMMA ExchangeStep ==
  ASSUME TInv, NEW t \in Calls, ExchangeCode(t)
  PROVE  Step(t)
<1> DEFINE q == request[t]
           found == FindArtifact("code", q.code)
           fits == \E x \in found : x.authorization = q.authorization
           again == \E x \in found : x.used
           known == FindAccount(memo[t].account) # {}
<1>0. ASSUME NEW n \in Awaits, Working(t, "callback", n)
      PROVE  Busy(t) /\ q.op = "callback" /\ at[t] = n
  BY <1>0 DEF Working, Busy
<1>00. memo[t] \in Memos /\ found \subseteq artifacts /\ DOMAIN at = Calls
  BY ServiceTypes DEF FindArtifact
<1>1. CASE /\ Working(t, "callback", 2)
           /\ \E x \in found : GoOn(t, [memo[t] EXCEPT !.account = x.account])
           /\ UNCHANGED <<artifacts, faults>> /\ StoresOnly(t)
  <2>1. PICK x \in artifacts : GoOn(t, [memo[t] EXCEPT !.account = x.account])
    BY <1>00, <1>1
  <2> DEFINE m == [memo[t] EXCEPT !.account = x.account]
  <2>2. m \in Memos /\ m.now = memo[t].now
    <3>1. x.account \in Accounts \cup {None}
      BY DEF TInv, Artifacts
    <3> QED
      BY <1>00, <3>1 DEF Memos
  <2> HIDE DEF m
  <2>3. GoOn(t, m)
    BY <2>1 DEF m
  <2>4. Busy(t) /\ q.op = "callback" /\ at[t] = 2 /\ at[t] # 7 /\ at[t] # 1
    BY <1>0, <1>1 DEF Awaits
  <2>5. Codes(t) /\ Binds(t)
    BY <1>1, <2>4 DEF Codes, Binds
  <2> QED
    BY <1>1, <2>2, <2>3, <2>4, <2>5, CallbackStep DEF StoresOnly
<1>2. CASE /\ Working(t, "callback", 2)
           /\ artifacts' = IF fits /\ again THEN RevokeByGrantId(q.code) ELSE artifacts
           /\ Answer(t, "unavailable") /\ UNCHANGED faults /\ StoresOnly(t)
  <2>1. Busy(t) /\ q.op = "callback" /\ at[t] = 2 /\ at[t] # 7 /\ at[t] # 1
    BY <1>0, <1>2 DEF Awaits
  <2>2. Codes(t) /\ Binds(t)
    BY <1>2, <2>1 DEF Codes, Binds, RevokeByGrantId
  <2> QED
    BY <1>00, <1>2, <2>1, <2>2, CallbackStep DEF StoresOnly
<1>3. CASE /\ Working(t, "callback", 3)
           /\ \/ ConsumeArtifact(q.code, TRUE) /\ GoOn(t, memo[t])
              \/ ConsumeArtifact(q.code, FALSE) /\ Answer(t, "unavailable")
           /\ UNCHANGED faults /\ StoresOnly(t)
  <2>1. Busy(t) /\ q.op = "callback" /\ at[t] = 3 /\ at[t] # 7 /\ at[t] # 1
    BY <1>0, <1>3 DEF Awaits
  <2>2. CASE ConsumeArtifact(q.code, TRUE) /\ GoOn(t, memo[t])
    <3>1. Codes(t) /\ Binds(t)
      BY <2>1, <2>2 DEF Codes, Binds
    <3> QED
      BY <1>00, <1>3, <2>1, <2>2, <3>1, CallbackStep DEF StoresOnly
  <2>3. CASE ConsumeArtifact(q.code, FALSE) /\ Answer(t, "unavailable")
    <3>1. artifacts' = artifacts
      BY <2>3 DEF ConsumeArtifact
    <3>2. Codes(t) /\ Binds(t)
      <4>1. at' = at
        BY <2>3 DEF Answer, Tell
      <4>2. ~(at[t] = 3 /\ at'[t] = 4) /\ ~(at[t] = 1 /\ at'[t] = 2)
        BY <4>1
      <4> QED
        BY <2>1, <3>1, <4>2 DEF Codes, Binds
    <3> QED
      BY <1>00, <1>3, <2>1, <2>3, <3>2, CallbackStep DEF StoresOnly
  <2> QED
    BY <1>3, <2>2, <2>3
<1>4. CASE /\ Working(t, "callback", 4)
           /\ artifacts' = IF known THEN Upsert("token", t, q.authorization, q.code) ELSE artifacts
           /\ IF known THEN GoOn(t, memo[t]) ELSE Answer(t, "unavailable")
           /\ UNCHANGED faults /\ StoresOnly(t)
  <2>1. Busy(t) /\ q.op = "callback" /\ at[t] = 4 /\ at[t] # 7 /\ at[t] # 1 /\ at[t] # 3
    BY <1>0, <1>4 DEF Awaits
  <2>2. Codes(t) /\ Binds(t)
    BY <1>4, <2>1 DEF Codes, Binds
  <2> QED
    BY <1>00, <1>4, <2>1, <2>2, CallbackStep DEF StoresOnly
<1>5. CASE q.op = "callback" /\ reply[t] = "none" /\ at[t] \in 2 .. 4 /\ ProviderFails(t)
  <2>1. Busy(t) /\ q.op = "callback" /\ at[t] # 7
    <3>1. PICK n \in 2 .. 4 : at[t] = n
      BY <1>5
    <3>2. n \in Awaits /\ n # 7
      BY <3>1 DEF Awaits
    <3> QED
      BY <1>5, <3>1, <3>2 DEF Busy
  <2>2. Codes(t) /\ Binds(t)
    <3>1. at' = at
      BY <1>5 DEF ProviderFails, Answer, Tell
    <3>2. ~(at[t] = 3 /\ at'[t] = 4) /\ ~(at[t] = 1 /\ at'[t] = 2)
      BY <3>1
    <3> QED
      BY <1>5, <3>2 DEF Codes, Binds, ProviderFails
  <2> QED
    BY <1>00, <1>5, <2>1, <2>2, CallbackStep DEF ProviderFails, StoresOnly
<1> QED
  BY <1>1, <1>2, <1>3, <1>4, <1>5 DEF ExchangeCode

LEMMA IdentityStep ==
  ASSUME TInv, NEW t \in Calls, ResolveOidcApplicationIdentity(t) \/ CheckBinding(t) \/ VerifyIdToken(t)
  PROVE  Step(t)
<1>1. /\ Working(t, "callback", 6) \/ Working(t, "callback", 1) \/ Working(t, "callback", 5)
      /\ UNCHANGED <<tables, windows, passed, ceremonies, artifacts, mail, clock>>
  BY DEF ResolveOidcApplicationIdentity, CheckBinding, VerifyIdToken, StoresOnly, stores
<1>2. PICK m \in Memos : m.now \in {memo[t].now, clock} /\ (GoOn(t, m) \/ Answer(t, "unavailable"))
  <2>1. memo[t] \in Memos /\ [memo[t] EXCEPT !.now = clock] \in Memos /\ [memo[t] EXCEPT !.now = clock].now = clock
    BY ServiceTypes, MemoChanges
  <2> QED
    BY <2>1 DEF ResolveOidcApplicationIdentity, CheckBinding, VerifyIdToken
<1>3. Busy(t) /\ request[t].op = "callback" /\ at[t] # 7 /\ at[t] # 3
  BY <1>1 DEF Working, Busy, Awaits
<1>4. Codes(t)
  BY <1>1, <1>3 DEF Codes
<1>5. Binds(t)
  <2>1. CASE CheckBinding(t)
    <3> DEFINE bound == \E b \in OpenBinding(t) : request[t].authorization = b.authorization
    <3>1. CASE bound
      BY <3>1 DEF OpenBinding, Binds
    <3>2. CASE Answer(t, "unavailable")
      <4>1. at' = at
        BY <3>2 DEF Answer, Tell
      <4>2. ~(at[t] = 1 /\ at'[t] = 2)
        BY <4>1
      <4> QED
        BY <4>2 DEF Binds
    <3>3. bound \/ Answer(t, "unavailable")
      BY <2>1 DEF CheckBinding
    <3> QED
      BY <3>1, <3>2, <3>3
  <2>2. CASE ResolveOidcApplicationIdentity(t) \/ VerifyIdToken(t)
    BY <2>2 DEF ResolveOidcApplicationIdentity, VerifyIdToken, Working, Binds
  <2> QED
    BY <2>1, <2>2
<1> QED
  BY <1>1, <1>2, <1>3, <1>4, <1>5, CallbackStep

LEMMA ApplicationSessionStep ==
  ASSUME TInv, NEW t \in Calls, CreateApplicationSession(t)
  PROVE  Step(t)
<1> DEFINE q == OidcSession(t)
<1>1. PICK r \in Answers : Asks(t, q, r) /\ Answer(t, IF r = "ok" THEN "ok" ELSE "unavailable")
  BY DEF CreateApplicationSession
<1>2. Busy(t) /\ request[t].op = "callback" /\ at[t] = 7 /\ UNCHANGED mail
  BY DEF CreateApplicationSession, Working, Busy, Awaits
<1>3. /\ q.op = "exchange" /\ q.fresh = New[t] /\ q.now \in Nat /\ q.fresh \in Sessions
      /\ q.token \in Tokens
  BY ServiceTypes DEF OidcSession
<1> HIDE DEF q
<1>4. Given(q) /\ FreshSession(q) = {New[t]} /\ FreshPasskey(q) = {}
  BY <1>3 DEF Given, FreshSession, FreshPasskey
<1>5. PICK a \in Replies : (a = "ok" <=> r = "ok") /\ Answer(t, a)
  BY <1>1 DEF Replies
<1> QED
  BY <1>1, <1>2, <1>3, <1>4, <1>5, MakesSession

LEMMA AdministerStep ==
  ASSUME TInv, NEW t \in Calls, NEW op, AsAdministrator(t, op)
  PROVE  Step(t)
<1> DEFINE c == request[t].change
           q == AdministrativeContext(t)
<1>1. Busy(t) /\ request[t].op = "administer" /\ at[t] = 2
  BY DEF AsAdministrator, Working, Busy, Awaits
<1>2. ChangeOK(c)
  BY <1>1 DEF TInv, RequestOK, QueryOK
<1>3. /\ q.op = c.op /\ q.account = c.account /\ q.now \in Nat
      /\ c.op \in {"create", "update"} => q.email = c.email
      /\ c.op = "status" => q.status = c.status
      /\ c.op = "grant" => q.grant = c.grant
      /\ c.op = "domain" => q.domain = c.domain
  <2>1. memo[t].now \in Nat
    BY ServiceTypes
  <2>2. \A x \in DOMAIN c : q[x] = IF x = "now" THEN memo[t].now ELSE c[x]
    BY DEF AdministrativeContext
  <2> HIDE DEF q
  <2> QED
    BY <1>2, <2>1, <2>2 DEF ChangeOK
<1> HIDE DEF q
<1>4. Given(q) /\ FreshSession(q) = {} /\ FreshPasskey(q) = {} /\ q.op # "issue"
  BY <1>2, <1>3 DEF ChangeOK, Given, FreshSession, FreshPasskey
<1>5. PICK r \in Answers : Asks(t, q, r) /\ Answer(t, Status(r)) /\ UNCHANGED mail
  BY DEF AsAdministrator, AnswersWith, q
<1>6. Status(r) \in Replies
  BY <1>4, <1>5, Asked, StatusType
<1>7. memo[t] \in Memos /\ at[t] # 7 /\ at[t] # 3
  BY <1>1, ServiceTypes
<1> QED
  BY <1>1, <1>4, <1>5, <1>6, <1>7, ReadStep

LEMMA ForwardStep ==
  ASSUME TInv, NEW t \in Calls, ForwardAdministration(t) \/ Chats(t) \/ RequestPrincipal(t)
  PROVE  Step(t)
<1>1. /\ Busy(t) /\ request[t].op \in {"administer", "chats"} /\ at[t] # 7 /\ at[t] # 3
      /\ UNCHANGED mail
  BY DEF ForwardAdministration, Chats, RequestPrincipal, Working, Busy, Awaits
<1>2. memo[t] \in Memos /\ [memo[t] EXCEPT !.now = clock] \in Memos /\ [memo[t] EXCEPT !.now = clock].now = clock
  BY ServiceTypes, MemoChanges
<1>3. PICK r \in Answers :
        /\ Asks(t, SessionQuery(t, "authenticate"), r)
        /\ \/ GoOn(t, memo[t]) \/ GoOn(t, [memo[t] EXCEPT !.now = clock])
           \/ Answer(t, "forbidden") \/ Answer(t, "unauthenticated") \/ Answer(t, Status(r))
  BY DEF ForwardAdministration, Chats, RequestPrincipal, ReadSession
<1>4. Grows({}, {}) /\ UNCHANGED <<windows, passed, ceremonies, artifacts, clock>> /\ r # "neutral"
  BY <1>3, SessionAsked
<1>5. Status(r) \in Replies /\ "forbidden" \in Replies /\ "unauthenticated" \in Replies
  BY <1>4, StatusType DEF Replies
<1> QED
  BY <1>1, <1>2, <1>3, <1>4, <1>5, Proceeds

LEMMA ListStep ==
  ASSUME TInv, NEW t \in Calls, ListAvailableChats(t)
  PROVE  Step(t)
<1>1. Working(t, "chats", 3) /\ (Answer(t, "ok") \/ Answer(t, "unavailable")) /\ UNCHANGED <<stores, mail, clock>>
  BY DEF ListAvailableChats
<1>2. Busy(t) /\ request[t].op = "chats" /\ "chats" \notin Finishing /\ at[t] # 7
  BY <1>1 DEF Working, Busy, Awaits, Finishing
<1>3. memo[t] \in Memos
  BY ServiceTypes
<1>4. Grows({}, {})
  BY <1>1, TablesKept DEF stores
<1> QED
  BY <1>1, <1>2, <1>3, <1>4, Proceeds DEF Replies, stores

LEMMA DiscoverStep ==
  ASSUME TInv, NEW t \in Calls, Discover(t)
  PROVE  Step(t)
<1>1. Working(t, "start", 1) /\ UNCHANGED <<stores, mail, clock>>
  BY DEF Discover
<1>2. Busy(t) /\ request[t].op = "start" /\ "start" \notin Finishing
  BY <1>1 DEF Working, Busy, Awaits, Finishing
<1>3. Tell(t, "ok", [memo[t] EXCEPT !.now = clock]) \/ Answer(t, "unavailable")
  <2>1. memo \in [Calls -> Memos]
    BY DEF TInv
  <2> QED
    BY <2>1 DEF Discover, Tell
<1>4. /\ memo[t] \in Memos /\ [memo[t] EXCEPT !.now = clock] \in Memos
      /\ [memo[t] EXCEPT !.now = clock].now = clock
  BY ServiceTypes, MemoChanges
<1>5. Flow(t)
  <2>1. CASE Answer(t, "unavailable")
    BY <1>1, <1>2, <2>1, Answers_ DEF Replies
  <2>2. CASE Tell(t, "ok", [memo[t] EXCEPT !.now = clock])
    <3> DEFINE m == [memo[t] EXCEPT !.now = clock]
    <3>1. m \in Memos /\ m.now = clock /\ Tell(t, "ok", m)
      BY <1>4, <2>2
    <3> HIDE DEF m
    <3> QED
      BY <1>1, <1>2, <3>1, Tells DEF Replies
  <2> QED
    BY <1>3, <2>1, <2>2
<1>6. Grows({}, {}) /\ Posts
  BY <1>1, TablesKept, Mailing DEF stores
<1> QED
  BY <1>1, <1>2, <1>5, <1>6, Harmless DEF stores

\* Every step of the service or the back end in the name of a call
LEMMA HandleStep ==
  ASSUME TInv, NEW t \in Calls, Handle(t) \/ Route(t)
  PROVE  Step(t)
<1>1. CASE AuthSessionController(t)
  BY <1>1, GetSessionStep, LogoutStep, RequestCodeStep, VerifyCodeStep DEF AuthSessionController
<1>2. CASE PasskeyController(t)
  BY <1>2, BeginLoginStep, FinishLoginStep, BeginPasskeyStep, FinishPasskeyStep DEF PasskeyController
<1>3. CASE OidcInteractionController(t) \/ ExchangeCode(t)
  BY <1>3, InteractStep, IdentityStep, ApplicationSessionStep, ExchangeStep DEF OidcInteractionController
<1>4. CASE ChangeAccount(t) \/ ChangeGrants(t) \/ EndAccess(t)
  BY <1>4, AdministerStep
     DEF ChangeAccount, ChangeGrants, EndAccess, CreateAccount, UpdateAccount, SetAccountStatus,
         SetDomainStatus, GrantFunctionalGrant, RevokeFunctionalGrant, RevokeSession,
         RevokeAllSessions, SecurityResetAuthAccess
<1>5. CASE Route(t)
  BY <1>5, ForwardStep, ListStep, DiscoverStep, IdentityStep DEF Route
<1> QED
  BY <1>1, <1>2, <1>3, <1>4, <1>5 DEF Handle

-----------------------------------------------------------------------------
(* Pages and cookies keep their types. *)

LEMMA DoesType ==
  ASSUME NEW g \in PageRow, NEW x \in Todo
  PROVE  Does(g, x) \in PageRow
<1>1. g.todo \cup {x} \in SUBSET Todo
  BY DEF PageRow
<1> QED
  BY <1>1 DEF Does, PageRow

LEMMA LoadingType ==
  ASSUME NEW g \in PageRow
  PROVE  Loading(g) \in PageRow
<1>1. g.life + 1 \in Nat /\ g.empty \in BOOLEAN
  BY DEF PageRow
<1>2. {[op |-> "get_session", after |-> "mount"]} \in SUBSET Todo
  BY DEF Todo
<1> QED
  BY <1>1, <1>2 DEF Loading, PageRow

LEMMA ShowLoginType ==
  ASSUME NEW g \in PageRow
  PROVE  ShowLogin(g) \in PageRow
<1>1. g.mount + 1 \in Nat
  BY DEF PageRow
<1>2. g.todo \cup {[op |-> "begin_login"]} \in SUBSET Todo
  BY DEF Todo, PageRow
<1> QED
  BY <1>1, <1>2 DEF ShowLogin, PageRow

LEMMA AppearsType ==
  ASSUME NEW g, NEW h \in PageRow
  PROVE  Appears(g, h) \in PageRow
<1>1. h.panel + 1 \in Nat
  BY DEF PageRow
<1>2. [h EXCEPT !.panel = h.panel + 1] \in PageRow
  BY <1>1 DEF PageRow
<1>3. Does(h, [op |-> "chats"]) \in PageRow
  BY DoesType DEF Todo
<1> QED
  BY <1>2, <1>3 DEF Appears

LEMMA ShowWorkspaceType ==
  ASSUME NEW g \in PageRow, NEW principal \in Principals
  PROVE  ShowWorkspace(g, principal) \in PageRow
<1> DEFINE h == [g EXCEPT !.shown = principal.account, !.may = principal.may,
                          !.view = IF g.shown \in Accounts THEN @ ELSE "chats"]
<1>1. h \in PageRow
  BY DEF PageRow, Principals
<1> QED
  BY <1>1, AppearsType DEF ShowWorkspace

LEMMA PageEdits ==
  ASSUME NEW g \in PageRow
  PROVE  /\ [g EXCEPT !.busy = FALSE] \in PageRow
         /\ [g EXCEPT !.busy = TRUE] \in PageRow
         /\ [g EXCEPT !.empty = FALSE] \in PageRow
         /\ [g EXCEPT !.empty = TRUE] \in PageRow
         /\ [g EXCEPT !.prompt = None] \in PageRow
         /\ \A k \in Passkeys : [g EXCEPT !.prompt = k] \in PageRow
         /\ \A v \in {"email", "code"} : [g EXCEPT !.step = v] \in PageRow
         /\ \A v \in {"email", "code"} : [g EXCEPT !.busy = FALSE, !.step = v] \in PageRow
         /\ [g EXCEPT !.busy = TRUE, !.prompt = IF g.step = "email" THEN None ELSE @] \in PageRow
         /\ \A v \in {"chats", "users"} : [g EXCEPT !.view = v] \in PageRow
         /\ \A x : [g EXCEPT !.todo = @ \ {x}] \in PageRow
         /\ [g EXCEPT !.shown = "away", !.life = @ + 1, !.todo = {}, !.prompt = None] \in PageRow
<1>1. g.life + 1 \in Nat /\ g.step \in {"email", "code"} /\ (\A x : g.todo \ {x} \in SUBSET Todo)
  BY DEF PageRow
<1>2. g.prompt \in Passkeys \cup {None}
  BY DEF PageRow
<1>3. [g EXCEPT !.shown = "away", !.life = @ + 1, !.todo = {}, !.prompt = None] \in PageRow
  BY <1>1 DEF PageRow
<1>4. \A x : [g EXCEPT !.todo = @ \ {x}] \in PageRow
  BY <1>1 DEF PageRow
<1>5. [g EXCEPT !.busy = TRUE, !.prompt = IF g.step = "email" THEN None ELSE @] \in PageRow
  BY <1>2 DEF PageRow
<1>6. /\ [g EXCEPT !.busy = FALSE] \in PageRow /\ [g EXCEPT !.busy = TRUE] \in PageRow
      /\ [g EXCEPT !.empty = FALSE] \in PageRow /\ [g EXCEPT !.empty = TRUE] \in PageRow
  BY DEF PageRow
<1>7. [g EXCEPT !.prompt = None] \in PageRow /\ \A k \in Passkeys : [g EXCEPT !.prompt = k] \in PageRow
  BY DEF PageRow
<1>8. \A v \in {"email", "code"} :
        [g EXCEPT !.step = v] \in PageRow /\ [g EXCEPT !.busy = FALSE, !.step = v] \in PageRow
  BY DEF PageRow
<1>9. \A v \in {"chats", "users"} : [g EXCEPT !.view = v] \in PageRow
  BY DEF PageRow
<1> QED
  BY <1>3, <1>4, <1>5, <1>6, <1>7, <1>8, <1>9

LEMMA AfterType ==
  ASSUME TInv, NEW t \in Calls, NEW g \in PageRow
  PROVE  After(g, t) \in PageRow
<1> DEFINE q == request[t]
<1>0. New[t] \in Passkeys /\ New[t] \in Tokens /\ RequestOK(t)
  BY ServiceTypes DEF TInv
<1>1. CASE q.op = "get_session"
  <2> DEFINE h == IF reply[t] = "ok" THEN ShowWorkspace(g, memo[t].principal) ELSE ShowLogin(g)
  <2>1. h \in PageRow
    BY <1>0, <1>1, ShowWorkspaceType, ShowLoginType DEF RequestOK
  <2> HIDE DEF h
  <2>2. [h EXCEPT !.busy = FALSE] \in PageRow
    BY <2>1, PageEdits
  <2>3. RefreshSession(g, t) \in {h, [h EXCEPT !.busy = FALSE]}
    BY DEF RefreshSession, h
  <2> QED
    BY <1>1, <2>1, <2>2, <2>3 DEF After
<1>2. CASE q.op = "request_code"
  <2>1. g.step \in {"email", "code"}
    BY DEF PageRow
  <2>2. RequestCodeFor(g, t) \in PageRow
    BY <2>1, PageEdits DEF RequestCodeFor
  <2> QED
    BY <1>2, <2>2 DEF After
<1>3. CASE q.op = "verify_code"
  <2>1. VerifyCode(g, t) \in PageRow
    BY PageEdits, DoesType DEF VerifyCode, Todo
  <2> QED
    BY <1>3, <2>1 DEF After
<1>4. CASE q.op \in {"begin_login", "finish_login"}
  <2>1. AttemptConditionalPasskey(g, t) \in PageRow
    BY <1>0, PageEdits, DoesType DEF AttemptConditionalPasskey, Todo
  <2> QED
    BY <1>4, <2>1 DEF After
<1>5. CASE q.op \in {"begin_passkey", "finish_passkey"}
  <2>1. [op |-> "finish_passkey", ceremony |-> New[t], genuine |-> TRUE] \in Todo
    BY <1>0 DEF Todo
  <2>2. RegisterPasskey_(g, t) \in PageRow
    BY <2>1, PageEdits, DoesType DEF RegisterPasskey_
  <2> QED
    BY <1>5, <2>2 DEF After
<1>6. CASE q.op = "log_out"
  BY <1>6, ShowLoginType DEF After, LoggedOut
<1>7. CASE q.op = "chats"
  <2>1. [g EXCEPT !.empty = FALSE] \in PageRow /\ [g EXCEPT !.empty = TRUE] \in PageRow
    BY PageEdits
  <2>2. Loading([g EXCEPT !.empty = TRUE]) \in PageRow
    BY <2>1, LoadingType
  <2>3. SessionInvalid(g, t) \in PageRow
    BY ShowLoginType DEF SessionInvalid
  <2>4. LoadChats(g, t) \in PageRow
    BY <2>1, <2>2, <2>3 DEF LoadChats
  <2> QED
    BY <1>7, <2>4 DEF After
<1>8. CASE q.op = "administer"
  BY <1>8, ShowLoginType DEF After, SessionInvalid
<1>9. CASE q.op \notin {"get_session", "request_code", "verify_code", "begin_login", "finish_login",
                        "begin_passkey", "finish_passkey", "log_out", "chats", "administer"}
  <2>1. [op |-> "interact", authorization |-> New[t]] \in Todo
    BY <1>0 DEF Todo
  <2>2. q.op = "interact" =>
          [op |-> "callback", code |-> New[t], authorization |-> q.authorization] \in Todo
    BY <1>0 DEF RequestOK, QueryOK, Todo
  <2>3. Navigated(g, t) \in PageRow
    BY <2>1, <2>2, LoadingType, DoesType DEF Navigated
  <2> QED
    BY <1>9, <2>3 DEF After
<1> QED
  BY <1>1, <1>2, <1>3, <1>4, <1>5, <1>6, <1>7, <1>8, <1>9

LEMMA CookiesType ==
  ASSUME TInv, NEW t \in Calls, NEW j \in CookieRow
  PROVE  Cookies(j, t) \in CookieRow
<1>1. New[t] \in Sessions /\ New[t] \in Challenges /\ New[t] \in Tokens /\ memo[t].now \in Nat
  BY ServiceTypes
<1>2. /\ [j EXCEPT !.challenge = New[t]] \in CookieRow
      /\ [j EXCEPT !.session = New[t], !.challenge = None] \in CookieRow
      /\ [j EXCEPT !.session = New[t]] \in CookieRow
      /\ [j EXCEPT !.session = None] \in CookieRow
      /\ [j EXCEPT !.binding = [authorization |-> New[t], issued |-> memo[t].now]] \in CookieRow
      /\ [j EXCEPT !.binding = None, !.session = New[t]] \in CookieRow
      /\ [j EXCEPT !.binding = None, !.session = @] \in CookieRow
  BY <1>1 DEF CookieRow
<1>3. ChallengeRoute(j, t) \in CookieRow /\ VerifyRoute(j, t) \in CookieRow
  BY <1>2 DEF ChallengeRoute, VerifyRoute
<1>4. PasskeyVerify(j, t) \in CookieRow /\ SessionRoute(j, t) \in CookieRow
  BY <1>2 DEF PasskeyVerify, SessionRoute
<1>5. StartOidcAuthorization(j, t) \in CookieRow /\ OidcCallback(j, t) \in CookieRow
  BY <1>2 DEF StartOidcAuthorization, OidcCallback
<1> QED
  BY <1>3, <1>4, <1>5 DEF Cookies

-----------------------------------------------------------------------------
(* Every step keeps the types. *)

LEMMA TablesGrow ==
  ASSUME NEW S, NEW P, Grows(S, P)
  PROVE  TablesOK'
  BY DEF Grows, GrowAccounts, GrowChallenges, GrowSessions, GrowPasskeys, TablesOK

LEMMA UpsertType ==
  ASSUME TInv, NEW t \in Calls, NEW model \in {"code", "token"}, NEW authorization \in Tokens,
         NEW grant \in Tokens
  PROVE  Upsert(model, t, authorization, grant) \subseteq Artifacts
<1>1. clock + AuthorizationLifetime \in Nat
  BY ServiceTypes, ServiceAssumption
<1>2. memo[t].account \in Accounts \cup {None} /\ New[t] \in Tokens
  BY ServiceTypes DEF Memos
<1>3. [model |-> model, id |-> New[t], account |-> memo[t].account, authorization |-> authorization,
       grant |-> grant, used |-> FALSE, until |-> clock + AuthorizationLifetime] \in Artifacts
  BY <1>1, <1>2 DEF Artifacts
<1>4. artifacts \subseteq Artifacts
  BY DEF TInv
<1> QED
  BY <1>3, <1>4 DEF Upsert

LEMMA ArtifactTypes ==
  ASSUME TInv, NEW t \in Calls, Codes(t)
  PROVE  artifacts' \subseteq Artifacts
<1> DEFINE q == request[t]
<1>1. New[t] \in Tokens /\ artifacts \subseteq Artifacts
  BY ServiceTypes DEF TInv
<1>2. /\ q.op = "interact" => q.authorization \in Tokens
      /\ q.op = "callback" => q.authorization \in Tokens /\ q.code \in Tokens
  BY DEF TInv, RequestOK, QueryOK
<1>3. CASE q.op = "callback" /\ ConsumeArtifact(q.code, TRUE)
  <2>1. \A x \in Artifacts : [x EXCEPT !.used = TRUE] \in Artifacts
    BY DEF Artifacts
  <2> QED
    BY <1>1, <1>3, <2>1 DEF ConsumeArtifact, FindArtifact
<1>4. CASE q.op = "interact" /\ artifacts' = Upsert("code", t, q.authorization, New[t])
  BY <1>1, <1>2, <1>4, UpsertType
<1>5. CASE q.op = "callback" /\ artifacts' = Upsert("token", t, q.authorization, q.code)
  BY <1>1, <1>2, <1>5, UpsertType
<1> QED
  BY <1>1, <1>3, <1>4, <1>5 DEF Codes

LEMMA StepTypes ==
  ASSUME TInv, NEW t \in Calls, Step(t), UNCHANGED <<up, web>>
  PROVE  TInv'
<1>1. TablesOK'
  BY TablesGrow DEF Step, Writes
<1>2. windows' \subseteq passed'
  <2>1. windows \subseteq passed
    BY DEF TInv, TypeOK
  <2> QED
    BY <2>1 DEF Step, Limits, ConsumeWindow
<1>3. artifacts' \subseteq Artifacts
  BY ArtifactTypes DEF Step
<1>4. /\ request' = request /\ clock' = clock /\ mailed' = mailed
      /\ delivery' \in [Challenges -> {"none", "sending", "sent", "failing", "given_up", "lost"}]
      /\ reply[t] = "none" /\ at[t] \in Awaits /\ request[t].op # "none"
  BY DEF Step, Flow, Posts
<1>5. PICK m \in Memos : memo' = [memo EXCEPT ![t] = m] /\ m.now \in {memo[t].now, clock}
  BY DEF Step, Flow
<1>6. memo' \in [Calls -> Memos]
  BY <1>5 DEF TInv
<1>7. clock \in Nat /\ m.now <= clock
  <2>1. clock \in Nat /\ memo[t].now <= clock
    BY ServiceTypes
  <2> QED
    BY <1>5, <2>1
<1>8. \A u \in Calls : memo'[u].now <= clock'
  BY <1>4, <1>5, <1>7 DEF TInv, TypeOK
<1>9. \A u \in Calls : memo'[u].account \in Accounts \cup {None}
  BY <1>6 DEF Memos
<1>10. at' \in [Calls -> 0 .. 7]
  <2>1. CASE at' = at
    BY <2>1 DEF TInv, TypeOK
  <2>2. CASE at[t] < 7 /\ at' = [at EXCEPT ![t] = @ + 1]
    <3>1. at[t] + 1 \in 0 .. 7
      BY <1>4, <2>2 DEF Awaits
    <3> QED
      BY <2>2, <3>1 DEF TInv, TypeOK
  <2> QED
    BY <2>1, <2>2 DEF Step, Flow
<1>11. /\ reply' \in [Calls -> Replies \cup {"none"}]
       /\ \A u \in Calls \ {t} : reply'[u] = reply[u]
       /\ request[t].op = "get_session" /\ reply'[t] = "ok" => memo'[t].principal \in Principals
  BY DEF Step, Flow, TInv, TypeOK
<1>12. TypeOK'
  <2>1. heard' \subseteq {u \in Calls : reply'[u] # "none"}
    BY <1>4, <1>11 DEF web, TInv, TypeOK
  <2> QED
    BY <1>1, <1>2, <1>4, <1>8, <1>9, <1>10, <1>11, <2>1 DEF web, TInv, TypeOK
<1>13. ASSUME NEW u \in Calls
       PROVE  RequestOK(u)'
  <2>1. RequestOK(u)
    BY DEF TInv
  <2>2. u # t => reply'[u] = reply[u] /\ memo'[u] = memo[u]
    BY <1>5, <1>11 DEF TInv
  <2>3. from' = from
    BY DEF web
  <2> QED
    BY <1>4, <1>11, <2>1, <2>2, <2>3 DEF RequestOK, QueryOK
<1> QED
  BY <1>3, <1>4, <1>6, <1>12, <1>13 DEF TInv, web

\* A code is sent, arrives or is given up
LEMMA DeliverTypes ==
  ASSUME TInv, NEW c \in Challenges, Delivering(c) \/ ArriveLate(c), UNCHANGED <<up, web>>
  PROVE  TInv'
<1>1. UNCHANGED <<windows, passed, ceremonies, artifacts, calls, clock, web, up>>
  BY DEF Delivering, Deliver, GiveUp, InvalidateUndelivered, ArriveLate, stores
<1>2. TablesOK'
  <2>1. CASE UNCHANGED tables
    BY <2>1, TablesKept, TablesGrow
  <2>2. CASE InvalidateUndelivered(c)
    <3> DEFINE q == [op |-> "invalidate", challenge |-> c]
    <3>1. \A r : Perform(q, r) => Grows(FreshSession(q), FreshPasskey(q))
      <4>1. Given(q) /\ TablesOK
        BY DEF Given, TInv, TypeOK
      <4> HIDE DEF q
      <4> QED
        BY <4>1, PerformGrows
    <3>2. \/ UNCHANGED tables \/ \E r : Perform(q, r)
      BY <2>2 DEF InvalidateUndelivered, Ask
    <3> HIDE DEF q
    <3> QED
      BY <2>1, <3>1, <3>2, TablesGrow
  <2> QED
    BY <2>1, <2>2 DEF Delivering, Deliver, GiveUp, ArriveLate, stores
<1>3. /\ delivery' \in [Challenges -> {"none", "sending", "sent", "failing", "given_up", "lost"}]
      /\ mailed' \subseteq Challenges
  BY DEF Delivering, Deliver, GiveUp, InvalidateUndelivered, ArriveLate, TInv, TypeOK
<1>4. TypeOK'
  BY <1>1, <1>2, <1>3 DEF TInv, TypeOK, calls, web
<1>5. \A u \in Calls : RequestOK(u)'
  BY <1>1 DEF TInv, RequestOK, QueryOK, calls, web
<1> QED
  BY <1>1, <1>4, <1>5 DEF TInv, calls, web

LEMMA StopTypes ==
  ASSUME TInv, Stop, UNCHANGED web
  PROVE  TInv'
<1>1. UNCHANGED <<stores, request, at, memo, mailed, clock>> /\ up' = FALSE
  BY DEF Stop
<1>2. /\ reply' \in [Calls -> Replies \cup {"none"}]
      /\ \A u \in Calls : reply'[u] \in {reply[u], "lost"} /\ (request[u].op = "none" => reply'[u] = reply[u])
      /\ delivery' \in [Challenges -> {"none", "sending", "sent", "failing", "given_up", "lost"}]
  BY DEF Stop, TInv, TypeOK, Replies
<1>3. TypeOK'
  <2>1. TablesOK'
    BY <1>1, TablesKept, TablesGrow DEF stores
  <2>2. heard' \subseteq {u \in Calls : reply'[u] # "none"}
    BY <1>2 DEF TInv, TypeOK, web
  <2> QED
    BY <1>1, <1>2, <2>1, <2>2 DEF TInv, TypeOK, stores, web
<1>4. \A u \in Calls : RequestOK(u)'
  BY <1>1, <1>2 DEF TInv, RequestOK, QueryOK, web
<1> QED
  BY <1>1, <1>3, <1>4 DEF TInv, stores, web

LEMMA StartTypes ==
  ASSUME TInv, Start, UNCHANGED web
  PROVE  TInv'
<1>1. UNCHANGED <<windows, passed, ceremonies, artifacts, mail, calls, clock>> /\ up' \in BOOLEAN
  BY DEF Start, Bootstrap
<1>2. TablesOK'
  <2> DEFINE q == Bootstrapping
  <2>1. Given(q) /\ TablesOK
    BY ServiceAssumption DEF Bootstrapping, Given, TInv, TypeOK
  <2>2. UNCHANGED tables \/ \E r : Perform(q, r)
    BY DEF Start, Bootstrap, Ask
  <2> HIDE DEF q
  <2> QED
    BY <2>1, <2>2, PerformGrows, TablesKept, TablesGrow
<1>3. TypeOK'
  BY <1>1, <1>2 DEF TInv, TypeOK, calls, mail, web
<1>4. \A u \in Calls : RequestOK(u)'
  BY <1>1 DEF TInv, RequestOK, QueryOK, calls, web
<1> QED
  BY <1>1, <1>3, <1>4 DEF TInv, calls, web

LEMMA TickTypes ==
  ASSUME TInv, Tick, UNCHANGED web
  PROVE  TInv'
<1>1. UNCHANGED <<stores, mail, calls, up>> /\ clock' = clock + 1 /\ clock < MaxTime
  BY DEF Tick
<1>2. clock \in Nat /\ MaxTime \in Nat
  BY ServiceAssumption DEF TInv, TypeOK
<1>3. clock' \in 0 .. MaxTime
  BY <1>1, <1>2
<1>4. ASSUME NEW u \in Calls
      PROVE  memo'[u].account \in Accounts \cup {None} /\ memo'[u].now <= clock'
  <2>1. memo[u].now \in Nat /\ memo[u].now <= clock /\ memo' = memo /\ memo[u].account \in Accounts \cup {None}
    BY <1>1, ServiceTypes DEF calls, Memos
  <2> QED
    BY <1>1, <1>2, <2>1
<1>5. TablesOK'
  BY <1>1, TablesKept, TablesGrow DEF stores
<1>6. TypeOK'
  BY <1>1, <1>3, <1>4, <1>5 DEF TInv, TypeOK, calls, mail, web, stores
<1>7. \A u \in Calls : RequestOK(u)'
  BY <1>1 DEF TInv, RequestOK, QueryOK, calls, web
<1> QED
  BY <1>1, <1>6, <1>7 DEF TInv, calls, web, stores

LEMMA HearTypes ==
  ASSUME TInv, NEW t \in Calls, Hear(t)
  PROVE  TInv'
<1> DEFINE p == from[t].page
<1>1. p \in Pages /\ Browser[p] \in Clients
  <2>1. RequestOK(t) /\ request[t].op # "none"
    BY DEF Hear, TInv
  <2> QED
    BY <2>1, PagesAssumption DEF RequestOK
<1>2. UNCHANGED <<serviceVars, from, scene>> /\ heard' = heard \cup {t} /\ reply[t] # "none"
  BY DEF Hear
<1>3. jar' \in [Clients -> CookieRow]
  <2>1. jar \in [Clients -> CookieRow]
    BY DEF TInv, TypeOK
  <2>2. Cookies(jar[Browser[p]], t) \in CookieRow
    BY <1>1, <2>1, CookiesType
  <2>3. jar' = [jar EXCEPT ![Browser[p]] = Cookies(jar[Browser[p]], t)]
    BY DEF Hear
  <2> QED
    BY <2>1, <2>2, <2>3
<1>4. page' \in [Pages -> PageRow]
  <2>1. page \in [Pages -> PageRow]
    BY DEF TInv, TypeOK
  <2>2. After(page[p], t) \in PageRow
    BY <1>1, <2>1, AfterType
  <2>3. page' \in {page, [page EXCEPT ![p] = After(page[p], t)]}
    BY DEF Hear
  <2> QED
    BY <2>1, <2>2, <2>3
<1>5. left' \subseteq Sessions
  <2>1. left \subseteq Sessions /\ RequestOK(t)
    BY DEF TInv, TypeOK
  <2> QED
    BY <2>1 DEF Hear, RequestOK, QueryOK
<1>6. TypeOK'
  <2>1. TablesOK'
    BY <1>2, TablesKept, TablesGrow DEF serviceVars, stores
  <2> QED
    BY <1>2, <1>3, <1>4, <1>5, <2>1 DEF TInv, TypeOK, serviceVars, stores, calls, mail
<1>7. \A u \in Calls : RequestOK(u)'
  BY <1>2 DEF TInv, RequestOK, QueryOK, serviceVars, calls
<1> QED
  BY <1>2, <1>6, <1>7 DEF TInv, serviceVars, calls, stores

LEMMA PageTypes ==
  ASSUME TInv, UNCHANGED <<serviceVars, jar, from, heard, left, scene>>, page' \in [Pages -> PageRow]
  PROVE  TInv'
<1>1. TablesOK'
  BY TablesKept, TablesGrow DEF serviceVars, stores
<1>2. TypeOK'
  BY <1>1 DEF TInv, TypeOK, serviceVars, stores, calls, mail
<1>3. \A u \in Calls : RequestOK(u)'
  BY DEF TInv, RequestOK, QueryOK, serviceVars, calls
<1> QED
  BY <1>2, <1>3 DEF TInv, serviceVars, calls, stores

LEMMA SendsTypes ==
  ASSUME TInv, NEW p \in Pages, NEW t \in Calls, NEW q, QueryOK(q), q.op # "none",
         page' \in [Pages -> PageRow], Sends(t, p, q)
  PROVE  TInv'
<1>1. /\ request' = [request EXCEPT ![t] = q] /\ at' = [at EXCEPT ![t] = 1]
      /\ memo' = [memo EXCEPT ![t].now = clock] /\ reply' = [reply EXCEPT ![t] = First(q)]
      /\ DOMAIN from' = DOMAIN from /\ from'[t].page = p /\ \A u \in Calls \ {t} : from'[u] = from[u]
      /\ UNCHANGED <<stores, mail, clock, faults, up, jar, heard, left, scene>>
      /\ request[t].op = "none"
  BY DEF Sends, TInv
<1>2. First(q) \in Replies \cup {"none"} /\ (First(q) = "ok" => q.op = "log_out")
  BY DEF First, WithoutSession, Replies
<1>3. reply[t] = "none" /\ DOMAIN request = Calls
  BY <1>1 DEF TInv, RequestOK
<1>4. memo' \in [Calls -> Memos] /\ memo'[t].now = clock /\ \A u \in Calls \ {t} : memo'[u] = memo[u]
  <2>1. memo \in [Calls -> Memos] /\ [memo[t] EXCEPT !.now = clock] \in Memos
        /\ [memo[t] EXCEPT !.now = clock].now = clock
    BY ServiceTypes, MemoChanges DEF TInv
  <2> QED
    BY <1>1, <2>1
<1>5. ASSUME NEW u \in Calls
      PROVE  memo'[u].account \in Accounts \cup {None} /\ memo'[u].now <= clock'
  <2>1. clock \in Nat /\ clock' = clock /\ memo[u].now <= clock
    BY <1>1, ServiceTypes
  <2> QED
    BY <1>4, <2>1 DEF Memos
<1>6. TypeOK'
  <2>1. TablesOK'
    BY <1>1, TablesKept, TablesGrow DEF stores
  <2>2. reply' \in [Calls -> Replies \cup {"none"}] /\ at' \in [Calls -> 0 .. 7]
    BY <1>1, <1>2 DEF TInv, TypeOK
  <2>3. heard' \subseteq {u \in Calls : reply'[u] # "none"}
    BY <1>1, <1>3 DEF TInv, TypeOK
  <2> QED
    BY <1>1, <1>5, <2>1, <2>2, <2>3 DEF TInv, TypeOK, stores, mail
<1>7. ASSUME NEW u \in Calls
      PROVE  RequestOK(u)'
  <2>1. CASE u = t
    <3>1. request'[t] = q /\ reply'[t] = First(q)
      BY <1>1, <1>3 DEF TInv, TypeOK
    <3> QED
      BY <1>1, <1>2, <2>1, <3>1 DEF RequestOK, QueryOK
  <2>2. CASE u # t
    <3>1. request'[u] = request[u] /\ reply'[u] = reply[u] /\ memo'[u] = memo[u] /\ from'[u] = from[u]
      BY <1>1, <1>4, <2>2 DEF TInv, TypeOK
    <3>2. RequestOK(u)
      BY DEF TInv
    <3> QED
      BY <3>1, <3>2 DEF RequestOK, QueryOK
  <2> QED
    BY <2>1, <2>2
<1> QED
  BY <1>1, <1>4, <1>6, <1>7 DEF TInv, stores

\* A change that the pages may ask for, in whatever session
LEMMA ChangeGiven ==
  ASSUME TInv, NEW q \in scene.changes, NEW k \in Sessions, NEW s
  PROVE  ChangeOK([q EXCEPT !.session = s])
<1> DEFINE c == [q EXCEPT !.session = k]
           d == [q EXCEPT !.session = s]
<1>1. "session" \in DOMAIN q /\ c \in AdminRequests
  BY DEF TInv
<1>2. DOMAIN d = DOMAIN c /\ \A x \in DOMAIN c \ {"session"} : d[x] = c[x]
  OBVIOUS
<1> HIDE DEF c, d
<1>3. ChangeOK(c)
  BY <1>1 DEF AdminRequests, ChangeOK
<1>4. ChangeOK(d)
  BY <1>2, <1>3 DEF ChangeOK
<1> QED
  BY <1>4 DEF d

LEMMA PageGiven ==
  ASSUME TInv, NEW p \in Pages
  PROVE  /\ page \in [Pages -> PageRow] /\ page[p] \in PageRow
         /\ jar[Browser[p]] \in CookieRow
  BY PagesAssumption DEF TInv, TypeOK

LEMMA ActTypes ==
  ASSUME TInv, NEW p \in Pages, NEW t \in Calls, Acts(p, t)
  PROVE  TInv'
<1>0. /\ page \in [Pages -> PageRow] /\ page[p] \in PageRow /\ Jar(p) \in CookieRow
      /\ t \in Nat /\ New[t] \in Sessions
  BY PageGiven, PagesAssumption, ServiceTypes DEF Jar
<1>1. ASSUME NEW e, AsksForCode(p, e, t)
      PROVE  TInv'
  <2>1. page' = [page EXCEPT ![p] = [page[p] EXCEPT !.busy = TRUE,
                                      !.prompt = IF page[p].step = "email" THEN None ELSE @]]
    BY <1>0, <1>1 DEF AsksForCode
  <2>2. page' \in [Pages -> PageRow]
    BY <1>0, <2>1, PageEdits
  <2>3. Sends(t, p, [op |-> "request_code", email |-> e, client |-> Browser[p]])
    BY <1>1 DEF AsksForCode
  <2> QED
    BY <2>2, <2>3, SendsTypes DEF QueryOK
<1>2. ASSUME NEW c, TypesCode(p, c, t)
      PROVE  TInv'
  <2>1. page' = [page EXCEPT ![p] = [page[p] EXCEPT !.busy = TRUE]]
    BY <1>0, <1>2 DEF TypesCode
  <2>2. page' \in [Pages -> PageRow]
    BY <1>0, <2>1, PageEdits
  <2>3. Sends(t, p, [op |-> "verify_code", challenge |-> Jar(p).challenge,
                     right |-> c = Jar(p).challenge])
    BY <1>2 DEF TypesCode
  <2> QED
    BY <2>2, <2>3, SendsTypes DEF QueryOK
<1>3. ASSUME NEW k, NEW genuine, PicksPasskey(p, k, genuine, t)
      PROVE  TInv'
  <2>1. page' = [page EXCEPT ![p] = [page[p] EXCEPT !.prompt = None]]
    BY <1>0, <1>3 DEF PicksPasskey
  <2>2. page' \in [Pages -> PageRow]
    BY <1>0, <2>1, PageEdits
  <2>3. Sends(t, p, [op |-> "finish_login", client |-> Browser[p], ceremony |-> page[p].prompt,
                     passkey |-> k, genuine |-> genuine, count |-> t])
    BY <1>3 DEF PicksPasskey
  <2> QED
    BY <1>0, <2>2, <2>3, SendsTypes DEF QueryOK
<1>4. CASE AddsPasskey(p, t) \/ LogsOut(p, t)
  <2>1. Jar(p).session \in Sessions \cup {None} /\ page' \in [Pages -> PageRow]
    BY <1>0, <1>4 DEF CookieRow, AddsPasskey, LogsOut
  <2>2. \/ Sends(t, p, [op |-> "begin_passkey", session |-> Jar(p).session, client |-> Browser[p]])
        \/ Sends(t, p, [op |-> "log_out", session |-> Jar(p).session])
    BY <1>4 DEF AddsPasskey, LogsOut
  <2> QED
    BY <2>1, <2>2, SendsTypes DEF QueryOK
<1>5. CASE GoesToIssuer(p, t)
  <2>1. page' = [page EXCEPT ![p] = [page[p] EXCEPT !.shown = "away", !.life = @ + 1, !.todo = {},
                                                    !.prompt = None]]
    BY <1>0, <1>5 DEF GoesToIssuer
  <2>2. page' \in [Pages -> PageRow]
    BY <1>0, <2>1, PageEdits
  <2>3. Sends(t, p, [op |-> "start"])
    BY <1>5 DEF GoesToIssuer
  <2> QED
    BY <2>2, <2>3, SendsTypes DEF QueryOK
<1>6. ASSUME NEW q \in scene.changes, Changes(p, q, t)
      PROVE  TInv'
  <2> DEFINE d == [q EXCEPT !.session = Jar(p).session]
  <2>1. RequestsChange(p, q, t)
    BY <1>6 DEF Changes, AccountForm, StatusForm, SessionRevocationForm, DomainStatusForm,
                FunctionalGrantForm, ResetsByRoute, Run
  <2>2. ChangeOK(d)
    BY <1>0, ChangeGiven
  <2> HIDE DEF d
  <2>3. page' \in [Pages -> PageRow]
    BY <1>0, <2>1 DEF RequestsChange
  <2>4. Sends(t, p, [op |-> "administer", session |-> Jar(p).session, change |-> d])
    BY <2>1 DEF RequestsChange, d
  <2> QED
    BY <2>2, <2>3, <2>4, SendsTypes DEF QueryOK
<1>7. ASSUME NEW u \in Calls, OpensCallback(p, u, t)
      PROVE  TInv'
  <2> DEFINE q == [request[u] EXCEPT !.binding = Jar(p).binding]
  <2>1. RequestOK(u) /\ request[u].op = "callback"
    BY <1>7 DEF TInv, OpensCallback
  <2>2. Jar(p).binding \in Bindings \cup {None}
    BY <1>0 DEF CookieRow, Bindings
  <2>3. q \in [op : {"callback"}, code : Tokens, authorization : Tokens, binding : Bindings \cup {None}]
    BY <2>1, <2>2 DEF RequestOK, QueryOK
  <2>4. Sends(t, p, q) /\ page' \in [Pages -> PageRow]
    BY <1>0, <1>7 DEF OpensCallback
  <2> HIDE DEF q
  <2> QED
    BY <2>3, <2>4, SendsTypes DEF QueryOK
<1>8. ASSUME NEW u \in Calls, SendsAgain(p, u, t)
      PROVE  TInv'
  <2>1. QueryOK(request[u]) /\ request[u].op # "none"
    BY <1>8 DEF TInv, RequestOK, SendsAgain
  <2>2. Sends(t, p, request[u]) /\ page' \in [Pages -> PageRow]
    BY <1>0, <1>8 DEF SendsAgain
  <2> QED
    BY <2>1, <2>2, SendsTypes
<1> QED
  BY <1>1, <1>2, <1>3, <1>4, <1>5, <1>6, <1>7, <1>8 DEF Acts

LEMMA FollowTypes ==
  ASSUME TInv, NEW p \in Pages, NEW t \in Calls, NEW x \in page[p].todo, Follow(p, x, t)
  PROVE  TInv'
<1> DEFINE q == Asking(p, x)
<1>1. /\ page \in [Pages -> PageRow] /\ page[p] \in PageRow /\ Jar(p) \in CookieRow
      /\ x \in Todo
  BY PageGiven DEF Jar, PageRow
<1>2. page' = [page EXCEPT ![p] = [page[p] EXCEPT !.todo = @ \ {x}]]
  BY <1>1 DEF Follow
<1>3. page' \in [Pages -> PageRow]
  BY <1>1, <1>2, PageEdits
<1>4. QueryOK(q) /\ q.op # "none"
  <2>1. Jar(p).binding \in Bindings \cup {None}
    BY <1>1 DEF CookieRow, Bindings
  <2>2. CASE x.op = "callback"
    <3>1. x.code \in Tokens /\ x.authorization \in Tokens
      BY <1>1, <2>2 DEF Todo
    <3>2. q = [op |-> "callback", code |-> x.code, authorization |-> x.authorization,
               binding |-> Jar(p).binding]
      BY <2>2 DEF Asking
    <3> HIDE DEF q
    <3> QED
      BY <2>1, <3>1, <3>2 DEF QueryOK
  <2>3. CASE x.op = "interact"
    BY <1>1, <2>3 DEF Todo, Asking, QueryOK
  <2>4. CASE x.op = "finish_passkey"
    BY <2>4 DEF Asking, QueryOK
  <2>5. CASE x.op \in {"get_session", "chats", "begin_login"}
    BY <2>5 DEF Asking, QueryOK
  <2>6. x.op \in {"get_session", "chats", "begin_login", "finish_passkey", "interact", "callback"}
    BY <1>1 DEF Todo
  <2> QED
    BY <2>2, <2>3, <2>4, <2>5, <2>6
<1> HIDE DEF q
<1>5. Sends(t, p, q)
  BY DEF Follow, q
<1> QED
  BY <1>3, <1>4, <1>5, SendsTypes

LEMMA PageChangeTypes ==
  ASSUME TInv, NEW p \in Pages, NEW v \in {"chats", "users"}, Reload(p) \/ GoesBack(p) \/ SwitchesView(p, v)
  PROVE  TInv'
<1> DEFINE g == page[p]
<1>1. page \in [Pages -> PageRow] /\ g \in PageRow
  BY PageGiven
<1>2. \E h \in {Loading(g), [g EXCEPT !.step = "email"], Appears(g, [g EXCEPT !.view = v])} :
        page' = [page EXCEPT ![p] = h]
  BY <1>1 DEF Reload, GoesBack, SwitchesView
<1>3. Loading(g) \in PageRow /\ [g EXCEPT !.step = "email"] \in PageRow
      /\ Appears(g, [g EXCEPT !.view = v]) \in PageRow
  BY <1>1, LoadingType, PageEdits, AppearsType
<1>4. page' \in [Pages -> PageRow]
  BY <1>1, <1>2, <1>3
<1>5. UNCHANGED <<serviceVars, jar, from, heard, left, scene>>
  BY DEF Reload, GoesBack, SwitchesView
<1> QED
  BY <1>4, <1>5, PageTypes

LEMMA NextTypes ==
  ASSUME TInv, [Next]_vars
  PROVE  TInv'
<1>1. CASE UNCHANGED vars
  <2>1. TablesOK'
    BY <1>1, TablesKept, TablesGrow DEF vars, serviceVars, stores
  <2>2. TypeOK'
    BY <1>1, <2>1 DEF TInv, TypeOK, vars, web, serviceVars, stores, calls, mail
  <2>3. \A u \in Calls : RequestOK(u)'
    BY <1>1 DEF TInv, RequestOK, QueryOK, vars, web, serviceVars, calls
  <2> QED
    BY <1>1, <2>2, <2>3 DEF TInv, vars, web, serviceVars, calls, stores
<1>2. ASSUME NEW t \in Calls, Handle(t) \/ Route(t), UNCHANGED <<up, web>>
      PROVE  TInv'
  BY <1>2, HandleStep, StepTypes
<1>3. ASSUME NEW c \in Challenges, Delivering(c) \/ ArriveLate(c), UNCHANGED <<up, web>>
      PROVE  TInv'
  BY <1>3, DeliverTypes
<1>4. CASE (Stop \/ Start \/ Tick) /\ UNCHANGED web
  BY <1>4, StopTypes, StartTypes, TickTypes
<1>5. ASSUME NEW p \in Pages, NEW t \in Calls, Acts(p, t) \/ \E x \in page[p].todo : Follow(p, x, t)
      PROVE  TInv'
  BY <1>5, ActTypes, FollowTypes
<1>6. ASSUME NEW p \in Pages, Reload(p) \/ GoesBack(p) \/ \E v \in {"chats", "users"} : SwitchesView(p, v)
      PROVE  TInv'
  BY <1>6, PageChangeTypes
<1> QED
  BY <1>1, <1>2, <1>3, <1>4, <1>5, <1>6, HearTypes DEF Next

LEMMA InitTypes ==
  ASSUME Init
  PROVE  TInv
<1>1. PICK s \in Situations :
        /\ accounts = s.accounts /\ challenges = s.challenges
        /\ sessions = s.sessions /\ passkeys = s.passkeys
        /\ mailed = s.mailed /\ jar = s.jar /\ page = s.page
        /\ clock = s.clock /\ faults = s.faults
        /\ scene = [acts |-> s.acts, mails |-> s.mails, changes |-> s.changes, calls |-> s.calls,
                    readers |-> s.readers]
  BY DEF Init
<1>2. Opening(s)
  BY SituationsAssumption
<1>3. TablesOK /\ mailed \subseteq Challenges /\ clock \in 0 .. MaxTime
      /\ jar \in [Clients -> CookieRow] /\ page \in [Pages -> PageRow]
  BY <1>1, <1>2 DEF Opening, TablesOK, Table
<1>4. clock \in Nat
  BY <1>3, ServiceAssumption
<1>5. /\ up = TRUE /\ windows = {} /\ passed = {} /\ artifacts = {} /\ heard = {} /\ left = {}
      /\ delivery = [c \in Challenges |-> "none"]
      /\ request = [t \in Calls |-> NoCall] /\ at = [t \in Calls |-> 0]
      /\ memo = [t \in Calls |-> [now |-> 0, allowed |-> TRUE, account |-> None, count |-> 0,
                                  principal |-> None]]
      /\ reply = [t \in Calls |-> "none"] /\ from = [t \in Calls |-> None]
  BY DEF Init
<1>6. TypeOK
  BY <1>3, <1>4, <1>5 DEF TypeOK
<1>7. memo \in [Calls -> Memos]
  BY <1>5 DEF Memos
<1>8. \A t \in Calls : RequestOK(t)
  BY <1>5 DEF RequestOK, QueryOK, NoCall
<1>9. \A q \in scene.changes :
        "session" \in DOMAIN q /\ \A k \in Sessions : [q EXCEPT !.session = k] \in AdminRequests
  BY <1>1, <1>2 DEF Opening
<1> QED
  BY <1>5, <1>6, <1>7, <1>8, <1>9 DEF TInv

LEMMA Typed == Spec => []TInv
<1>1. Init => TInv
  BY InitTypes
<1>2. TInv /\ [Next]_vars => TInv'
  BY NextTypes
<1> QED
  BY <1>1, <1>2, PTL DEF Spec

(* Every value that the service, the back end and the pages hold is of its   *)
(* type: rows of the tables, answers, cookies, and what a page shows and     *)
(* will ask by itself.                                                       *)
THEOREM TypeCorrect == Spec => []TypeOK
<1>1. TInv => TypeOK
  BY DEF TInv
<1> QED
  BY <1>1, Typed, PTL

-----------------------------------------------------------------------------
(* The steps of the whole, by what they may do *)

\* Nothing is done in the name of a call, though it may be lost.
Idle ==
  /\ Grows({}, {})
  /\ UNCHANGED <<windows, passed, ceremonies, artifacts, request, at, memo, jar, from, left>>
  /\ clock' = clock \/ Tick
  /\ \A u \in Calls :
       \/ reply'[u] = reply[u]
       \/ reply[u] = "none" /\ request[u].op # "none" /\ reply'[u] = "lost"

\* What is sent from a page carries the cookies of its browser.
FromPage(p, q) ==
  /\ q.op # "none"
  /\ q.op = "log_out" => q.session = Jar(p).session
  /\ q.op = "callback" => q.binding = Jar(p).binding

LEMMA IdleSteps ==
  ASSUME TInv,
         \/ UNCHANGED vars
         \/ (\E c \in Challenges : Delivering(c) \/ ArriveLate(c)) /\ UNCHANGED <<up, web>>
         \/ (Stop \/ Start \/ Tick) /\ UNCHANGED web
         \/ \E p \in Pages : Reload(p) \/ GoesBack(p) \/ \E v \in {"chats", "users"} : SwitchesView(p, v)
  PROVE  Idle
<1>1. ASSUME UNCHANGED tables, UNCHANGED <<windows, passed, ceremonies, artifacts, request, at, memo, jar, from, left>>,
             clock' = clock \/ Tick, reply' = reply
      PROVE  Idle
  BY <1>1, TablesKept DEF Idle
<1>2. CASE UNCHANGED vars
  BY <1>1, <1>2 DEF vars, web, serviceVars, stores, calls
<1>3. ASSUME NEW q, Given(q), FreshSession(q) = {}, FreshPasskey(q) = {}, UNCHANGED tables \/ \E r : Perform(q, r)
      PROVE  Grows({}, {})
  <2>1. TablesOK
    BY DEF TInv, TypeOK
  <2> QED
    BY <1>3, <2>1, TablesKept, PerformGrows
<1>4. ASSUME NEW c \in Challenges, Delivering(c) \/ ArriveLate(c), UNCHANGED <<up, web>>
      PROVE  Idle
  <2>1. UNCHANGED <<windows, passed, ceremonies, artifacts, calls, clock, web>>
    BY <1>4 DEF Delivering, Deliver, GiveUp, InvalidateUndelivered, ArriveLate, stores
  <2>2. CASE UNCHANGED tables
    BY <1>1, <2>1, <2>2 DEF calls, web
  <2>3. CASE InvalidateUndelivered(c)
    <3> DEFINE q == [op |-> "invalidate", challenge |-> c]
    <3>1. Given(q) /\ FreshSession(q) = {} /\ FreshPasskey(q) = {}
      BY DEF Given, FreshSession, FreshPasskey
    <3>2. UNCHANGED tables \/ \E r : Perform(q, r)
      BY <2>3 DEF InvalidateUndelivered, Ask
    <3> HIDE DEF q
    <3>3. Grows({}, {})
      BY <1>3, <3>1, <3>2
    <3> QED
      BY <2>1, <3>3 DEF Idle, calls, web
  <2> QED
    BY <1>4, <2>2, <2>3 DEF Delivering, Deliver, GiveUp, ArriveLate, stores
<1>5. CASE Stop /\ UNCHANGED web
  <2>1. UNCHANGED <<stores, request, at, memo, clock, web>>
    BY <1>5 DEF Stop
  <2>2. \A u \in Calls :
          \/ reply'[u] = reply[u]
          \/ reply[u] = "none" /\ request[u].op # "none" /\ reply'[u] = "lost"
    BY <1>5 DEF Stop
  <2> QED
    BY <2>1, <2>2, TablesKept DEF Idle, stores, web
<1>6. CASE Start /\ UNCHANGED web
  <2> DEFINE q == Bootstrapping
  <2>1. Given(q) /\ FreshSession(q) = {} /\ FreshPasskey(q) = {}
    BY ServiceAssumption DEF Bootstrapping, Given, FreshSession, FreshPasskey
  <2>2. UNCHANGED tables \/ \E r : Perform(q, r)
    BY <1>6 DEF Start, Bootstrap, Ask
  <2> HIDE DEF q
  <2>3. Grows({}, {})
    BY <1>3, <2>1, <2>2
  <2> QED
    BY <1>6, <2>3 DEF Idle, Start, calls, web
<1>7. CASE Tick /\ UNCHANGED web
  BY <1>1, <1>7 DEF Tick, stores, calls, web
<1>8. ASSUME NEW p \in Pages, Reload(p) \/ GoesBack(p) \/ \E v \in {"chats", "users"} : SwitchesView(p, v)
      PROVE  Idle
  BY <1>1, <1>8 DEF Reload, GoesBack, SwitchesView, serviceVars, stores, calls
<1> QED
  BY <1>2, <1>4, <1>5, <1>6, <1>7, <1>8

LEMMA SentSteps ==
  ASSUME TInv, NEW p \in Pages, NEW t \in Calls, Acts(p, t) \/ \E x \in page[p].todo : Follow(p, x, t)
  PROVE  \E q : Sends(t, p, q) /\ FromPage(p, q)
<1>1. ASSUME NEW x \in page[p].todo, Follow(p, x, t)
      PROVE  \E q : Sends(t, p, q) /\ FromPage(p, q)
  <2>1. x.op \in {"get_session", "chats", "begin_login", "finish_passkey", "interact", "callback"}
    BY PageGiven DEF PageRow, Todo
  <2>2. FromPage(p, Asking(p, x))
    BY <2>1 DEF FromPage, Asking
  <2> QED
    BY <1>1, <2>2 DEF Follow
<1>2. ASSUME NEW q, q.op \notin {"none", "log_out", "callback"}, Sends(t, p, q)
      PROVE  \E d : Sends(t, p, d) /\ FromPage(p, d)
  BY <1>2 DEF FromPage
<1>3. CASE \E e \in Emails : AsksForCode(p, e, t)
  BY <1>2, <1>3 DEF AsksForCode
<1>4. CASE \E c \in mailed \cup {None} : TypesCode(p, c, t)
  BY <1>2, <1>4 DEF TypesCode
<1>5. CASE \E k \in DOMAIN passkeys, genuine \in BOOLEAN : PicksPasskey(p, k, genuine, t)
  BY <1>2, <1>5 DEF PicksPasskey
<1>6. CASE AddsPasskey(p, t) \/ GoesToIssuer(p, t)
  BY <1>2, <1>6 DEF AddsPasskey, GoesToIssuer
<1>7. CASE LogsOut(p, t)
  BY <1>7 DEF LogsOut, FromPage
<1>8. ASSUME NEW c \in scene.changes, Changes(p, c, t)
      PROVE  \E q : Sends(t, p, q) /\ FromPage(p, q)
  BY <1>2, <1>8 DEF Changes, AccountForm, StatusForm, SessionRevocationForm, DomainStatusForm,
                    FunctionalGrantForm, ResetsByRoute, Run, RequestsChange
<1>9. ASSUME NEW u \in Calls, OpensCallback(p, u, t)
      PROVE  \E q : Sends(t, p, q) /\ FromPage(p, q)
  <2> DEFINE q == [request[u] EXCEPT !.binding = Jar(p).binding]
  <2>1. RequestOK(u) /\ request[u].op = "callback"
    BY <1>9 DEF TInv, OpensCallback
  <2>2. q.op = "callback" /\ q.binding = Jar(p).binding
    BY <2>1 DEF RequestOK, QueryOK
  <2>3. Sends(t, p, q)
    BY <1>9 DEF OpensCallback
  <2> HIDE DEF q
  <2> QED
    BY <2>2, <2>3 DEF FromPage
<1>10. ASSUME NEW u \in Calls, SendsAgain(p, u, t)
       PROVE  \E q : Sends(t, p, q) /\ FromPage(p, q)
  BY <1>2, <1>10 DEF SendsAgain
<1> QED
  BY <1>1, <1>3, <1>4, <1>5, <1>6, <1>7, <1>8, <1>9, <1>10 DEF Acts

LEMMA NextSteps ==
  ASSUME TInv, [Next]_vars
  PROVE  \/ \E t \in Calls : Step(t) /\ UNCHANGED web
         \/ Idle
         \/ \E t \in Calls : Hear(t)
         \/ \E p \in Pages, t \in Calls : \E q : Sends(t, p, q) /\ FromPage(p, q)
<1>1. ASSUME NEW t \in Calls, Handle(t) \/ Route(t), UNCHANGED <<up, web>>
      PROVE  Step(t) /\ UNCHANGED web
  BY <1>1, HandleStep
<1> QED
  BY <1>1, IdleSteps, SentSteps DEF Next

\* What is the same of the other calls
LEMMA OtherCalls ==
  ASSUME TInv, NEW t \in Calls, Step(t)
  PROVE  /\ request' = request /\ clock' = clock /\ reply[t] = "none" /\ request[t].op # "none"
         /\ \A u \in Calls \ {t} : reply'[u] = reply[u] /\ at'[u] = at[u] /\ memo'[u] = memo[u]
         /\ at[t] \in Awaits
         /\ \/ at[t] < 7 /\ at'[t] = at[t] + 1 /\ reply'[t] = "none"
            \/ at'[t] = at[t] /\ reply'[t] \in Replies
         /\ memo'[t].now \in {memo[t].now, clock}
<1>1. DOMAIN at = Calls /\ DOMAIN reply = Calls /\ DOMAIN memo = Calls
  BY ServiceTypes
<1>2. /\ request' = request /\ clock' = clock /\ reply[t] = "none" /\ request[t].op # "none"
      /\ at[t] \in Awaits
      /\ \/ reply' = reply /\ at[t] < 7 /\ at' = [at EXCEPT ![t] = @ + 1]
         \/ at' = at /\ \E r \in Replies : reply' = [reply EXCEPT ![t] = r]
  BY DEF Step, Flow
<1>3. PICK m \in Memos : memo' = [memo EXCEPT ![t] = m] /\ m.now \in {memo[t].now, clock}
  BY DEF Step, Flow
<1>4. memo'[t] = m /\ \A u \in Calls \ {t} : memo'[u] = memo[u]
  BY <1>1, <1>3
<1>5. CASE reply' = reply /\ at[t] < 7 /\ at' = [at EXCEPT ![t] = @ + 1]
  <2>1. at'[t] = at[t] + 1 /\ \A u \in Calls \ {t} : at'[u] = at[u]
    BY <1>1, <1>5
  <2> QED
    BY <1>2, <1>3, <1>4, <1>5, <2>1
<1>6. CASE at' = at /\ \E r \in Replies : reply' = [reply EXCEPT ![t] = r]
  <2>1. reply'[t] \in Replies /\ \A u \in Calls \ {t} : reply'[u] = reply[u]
    BY <1>1, <1>6
  <2> QED
    BY <1>2, <1>3, <1>4, <1>6, <2>1
<1> QED
  BY <1>2, <1>5, <1>6

LEMMA Sent ==
  ASSUME TInv, NEW p \in Pages, NEW t \in Calls, NEW q, Sends(t, p, q)
  PROVE  /\ request'[t] = q /\ reply'[t] = First(q) /\ at'[t] = 1 /\ memo'[t].now = clock
         /\ from'[t].page = p
         /\ request[t].op = "none" /\ reply[t] = "none"
         /\ \A u \in Calls \ {t} :
              /\ request'[u] = request[u] /\ reply'[u] = reply[u] /\ at'[u] = at[u]
              /\ memo'[u] = memo[u] /\ from'[u] = from[u]
         /\ UNCHANGED <<stores, clock, jar, left>>
<1>1. DOMAIN at = Calls /\ DOMAIN reply = Calls /\ DOMAIN memo = Calls /\ DOMAIN request = Calls
  BY ServiceTypes
<1>2. /\ request' = [request EXCEPT ![t] = q] /\ at' = [at EXCEPT ![t] = 1]
      /\ reply' = [reply EXCEPT ![t] = First(q)] /\ request[t].op = "none"
      /\ UNCHANGED <<stores, clock, jar, left>>
  BY DEF Sends
<1>3. memo' = [memo EXCEPT ![t].now = clock] /\ memo[t] \in Memos
  BY ServiceTypes DEF Sends
<1>4. memo'[t].now = clock /\ \A u \in Calls \ {t} : memo'[u] = memo[u]
  BY <1>1, <1>3 DEF Memos
<1>5. from'[t].page = p /\ \A u \in Calls \ {t} : from'[u] = from[u]
  BY DEF Sends, TInv
<1>6. reply[t] = "none"
  BY <1>2 DEF TInv, RequestOK
<1> QED
  BY <1>1, <1>2, <1>4, <1>5, <1>6

LEMMA Heard ==
  ASSUME TInv, NEW t \in Calls, Hear(t)
  PROVE  /\ UNCHANGED <<tables, windows, passed, ceremonies, artifacts, calls, clock, from>>
         /\ reply[t] # "none" /\ request[t].op # "none"
         /\ from[t].page \in Pages /\ Browser[from[t].page] \in Clients
         /\ jar'[Browser[from[t].page]] = Cookies(jar[Browser[from[t].page]], t)
         /\ jar[Browser[from[t].page]] \in CookieRow
         /\ \A b \in Clients \ {Browser[from[t].page]} : jar'[b] = jar[b]
         /\ left' = left \cup (IF request[t].op = "log_out" /\ reply[t] = "ok"
                               THEN {request[t].session} \ {None} ELSE {})
<1> DEFINE p == from[t].page
<1>1. p \in Pages /\ Browser[p] \in Clients
  <2>1. RequestOK(t) /\ request[t].op # "none"
    BY DEF Hear, TInv
  <2> QED
    BY <2>1, PagesAssumption DEF RequestOK
<1>2. jar \in [Clients -> CookieRow]
  BY DEF TInv, TypeOK
<1>3. jar' = [jar EXCEPT ![Browser[p]] = Cookies(jar[Browser[p]], t)]
  BY DEF Hear
<1> QED
  BY <1>1, <1>2, <1>3 DEF Hear, serviceVars, stores

-----------------------------------------------------------------------------
(* What a call makes is new *)

\* What a call makes is stored once it has answered, and not before.
FreshInv == \A t \in Calls : Granted(t) => reply[t] # "none"

\* Rows stay, sessions and passkeys with their accounts.
Keeps ==
  /\ DOMAIN sessions \subseteq DOMAIN sessions' /\ DOMAIN passkeys \subseteq DOMAIN passkeys'
  /\ \A s \in DOMAIN sessions :
       /\ sessions'[s].account = sessions[s].account
       /\ sessions[s].revoked => sessions'[s].revoked
  /\ \A k \in DOMAIN passkeys : passkeys'[k].account = passkeys[k].account

\* A row that a call adds is the one that it makes.
LEMMA StepKeeps ==
  ASSUME TInv, FreshInv, NEW t \in Calls, Step(t)
  PROVE  /\ Keeps
         /\ DOMAIN sessions' \subseteq DOMAIN sessions \cup {New[t]}
         /\ DOMAIN passkeys' \subseteq DOMAIN passkeys \cup {New[t]}
         /\ \A u \in Calls \ {t} :
              /\ New[u] \in DOMAIN sessions' => New[u] \in DOMAIN sessions
              /\ New[u] \in DOMAIN passkeys' => New[u] \in DOMAIN passkeys
<1>1. New[t] \notin DOMAIN sessions /\ New[t] \notin DOMAIN passkeys
  BY OtherCalls DEF FreshInv, Granted
<1>2. Grows({New[t]}, {New[t]})
  BY DEF Step, Writes
<1>3. \A u \in Calls \ {t} : New[u] # New[t]
  BY ServiceAssumption
<1> QED
  BY <1>1, <1>2, <1>3 DEF Grows, GrowSessions, GrowPasskeys, Keeps

LEMMA IdleKeeps ==
  ASSUME TInv, Idle
  PROVE  /\ Keeps /\ DOMAIN sessions' = DOMAIN sessions /\ DOMAIN passkeys' = DOMAIN passkeys
         /\ \A u \in Calls :
              /\ reply'[u] # "none" /\ reply'[u] # reply[u] => reply'[u] = "lost"
              /\ reply[u] # "none" => reply'[u] = reply[u]
  BY DEF Idle, Grows, GrowSessions, GrowPasskeys, Keeps

LEMMA SameKeeps ==
  ASSUME UNCHANGED tables
  PROVE  Keeps
  BY DEF tables, Keeps

LEMMA FreshStep ==
  ASSUME TInv, FreshInv, [Next]_vars
  PROVE  FreshInv'
<1>1. ASSUME NEW t \in Calls, Step(t)
      PROVE  FreshInv'
  <2>1. ASSUME NEW u \in Calls \ {t}, Granted(u)'
        PROVE  reply'[u] # "none"
    BY <1>1, <2>1, StepKeeps, OtherCalls DEF FreshInv, Granted
  <2>2. ASSUME Granted(t)'
        PROVE  reply'[t] # "none"
    <3>1. New[t] \notin DOMAIN sessions /\ New[t] \notin DOMAIN passkeys
      BY <1>1, OtherCalls DEF FreshInv, Granted
    <3> QED
      BY <1>1, <2>2, <3>1 DEF Step, Writes, Granted
  <2> QED
    BY <2>1, <2>2 DEF FreshInv
<1>2. CASE Idle
  BY <1>2, IdleKeeps DEF FreshInv, Granted
<1>3. ASSUME NEW t \in Calls, Hear(t)
      PROVE  FreshInv'
  BY <1>3, Heard DEF FreshInv, Granted, tables, calls
<1>4. ASSUME NEW p \in Pages, NEW t \in Calls, NEW q, Sends(t, p, q)
      PROVE  FreshInv'
  BY <1>4, Sent DEF FreshInv, Granted, stores, tables
<1> QED
  BY <1>1, <1>2, <1>3, <1>4, NextSteps

LEMMA FreshStart == Init => FreshInv
<1> SUFFICES ASSUME Init PROVE FreshInv
  OBVIOUS
<1>1. PICK s \in Situations : sessions = s.sessions /\ passkeys = s.passkeys
  BY DEF Init
<1>2. Opening(s)
  BY SituationsAssumption
<1> QED
  BY <1>1, <1>2 DEF Opening, FreshInv, Granted

-----------------------------------------------------------------------------
(* Sessions that are left *)

Ended(s) == s \in DOMAIN sessions /\ sessions[s].revoked

\* A logout is of a stored session, which is over when the answer is good.
LeaveInv ==
  /\ \A s \in left : Ended(s)
  /\ \A b \in Clients : jar[b].session \in DOMAIN sessions \cup {None}
  /\ \A t \in Calls :
       /\ request[t].op = "log_out" =>
            /\ request[t].session \in DOMAIN sessions \cup {None}
            /\ reply[t] = "ok" /\ request[t].session # None => Ended(request[t].session)
       /\ request[t].op \in {"verify_code", "finish_login", "callback"} /\ reply[t] = "ok" =>
            New[t] \in DOMAIN sessions

LEMMA Ending == ASSUME Keeps, NEW s, Ended(s) PROVE Ended(s)'
  BY DEF Keeps, Ended

LEMMA SessionCookie ==
  ASSUME NEW j \in CookieRow, NEW t \in Calls
  PROVE  \/ Cookies(j, t).session \in {j.session, None}
         \/ /\ Cookies(j, t).session = New[t]
            /\ request[t].op \in {"verify_code", "finish_login", "callback"} /\ reply[t] = "ok"
<1>1. CASE request[t].op \notin {"request_code", "verify_code", "finish_login", "log_out", "start", "callback"}
  BY <1>1 DEF Cookies
<1>2. CASE request[t].op \in {"request_code", "start"}
  BY <1>2 DEF Cookies, ChallengeRoute, StartOidcAuthorization, CookieRow
<1>3. CASE request[t].op \in {"verify_code", "finish_login"}
  BY <1>3 DEF Cookies, VerifyRoute, PasskeyVerify, CookieRow
<1>4. CASE request[t].op \in {"log_out", "callback"}
  BY <1>4 DEF Cookies, SessionRoute, OidcCallback, CookieRow
<1> QED
  BY <1>1, <1>2, <1>3, <1>4

LEMMA FirstAnswer ==
  ASSUME NEW q, First(q) = "ok"
  PROVE  q.op = "log_out" /\ q.session = None
  BY DEF First, WithoutSession

LEMMA LeaveStep ==
  ASSUME TInv, FreshInv, LeaveInv, [Next]_vars
  PROVE  LeaveInv'
<1> DEFINE Signing == {"verify_code", "finish_login", "callback"}
           Leaving(t) ==
             /\ request[t].op = "log_out" =>
                  /\ request[t].session \in DOMAIN sessions \cup {None}
                  /\ reply[t] = "ok" /\ request[t].session # None => Ended(request[t].session)
             /\ request[t].op \in Signing /\ reply[t] = "ok" => New[t] \in DOMAIN sessions
<1>0. /\ \A u \in Calls : Leaving(u)
      /\ \A s \in left : Ended(s)
      /\ \A b \in Clients : jar[b].session \in DOMAIN sessions \cup {None}
  BY DEF LeaveInv
<1>1. ASSUME Keeps, NEW u \in Calls, request'[u] = request[u],
             reply'[u] = reply[u] \/ reply'[u] = "lost"
      PROVE  Leaving(u)'
  BY <1>0, <1>1, Ending DEF Keeps
<1>2. ASSUME Keeps
      PROVE  /\ left' = left => \A s \in left' : Ended(s)'
             /\ jar' = jar => \A b \in Clients : jar'[b].session \in DOMAIN sessions' \cup {None}
  BY <1>0, <1>2, Ending DEF Keeps
<1>3. ASSUME NEW t \in Calls, Step(t), UNCHANGED web
      PROVE  LeaveInv'
  <2>1. Keeps
    BY <1>3, StepKeeps
  <2>2. \A u \in Calls \ {t} : Leaving(u)'
    BY <1>1, <1>3, <2>1, OtherCalls
  <2>3. Leaving(t)'
    <3>1. request'[t] = request[t] /\ Leaving(t)
      BY <1>0, <1>3, OtherCalls
    <3>2. CASE request[t].op = "log_out"
      <4>1. request[t].session \in DOMAIN sessions' \cup {None}
        BY <2>1, <3>1, <3>2 DEF Keeps
      <4>2. ASSUME reply'[t] = "ok", request[t].session # None
            PROVE  Ended(request[t].session)'
        BY <1>3, <3>1, <3>2, <4>1, <4>2, <2>1 DEF Step, Writes, Ended, Keeps
      <4> QED
        BY <3>1, <3>2, <4>1, <4>2 DEF Ended
    <3>3. CASE request[t].op # "log_out"
      BY <1>3, <3>1, <3>3 DEF Step, Writes
    <3> QED
      BY <3>2, <3>3
  <2>4. left' = left /\ jar' = jar
    BY <1>3 DEF web
  <2>5. \A u \in Calls : Leaving(u)'
    BY <2>2, <2>3
  <2> QED
    BY <1>2, <2>1, <2>4, <2>5 DEF LeaveInv
<1>4. CASE Idle
  <2>1. Keeps
    BY <1>4, IdleKeeps
  <2>2. left' = left /\ jar' = jar /\ request' = request
    BY <1>4 DEF Idle
  <2>3. \A u \in Calls : Leaving(u)'
    BY <1>1, <1>4, <2>1, <2>2 DEF Idle
  <2> QED
    BY <1>2, <2>1, <2>2, <2>3 DEF LeaveInv
<1>5. ASSUME NEW t \in Calls, Hear(t)
      PROVE  LeaveInv'
  <2>1. Keeps /\ UNCHANGED <<tables, calls>>
    BY <1>5, Heard, SameKeeps
  <2>2. \A u \in Calls : Leaving(u)'
    BY <1>1, <2>1 DEF calls
  <2>3. \A s \in left' : Ended(s)'
    <3>1. \A s \in left' : Ended(s)
      BY <1>0, <1>5, Heard
    <3> QED
      BY <2>1, <3>1, Ending
  <2>4. \A b \in Clients : jar'[b].session \in DOMAIN sessions' \cup {None}
    <3> DEFINE d == Browser[from[t].page]
    <3>1. d \in Clients /\ jar[d] \in CookieRow /\ jar'[d] = Cookies(jar[d], t)
          /\ \A b \in Clients \ {d} : jar'[b] = jar[b]
      BY <1>5, Heard
    <3>2. jar'[d].session \in DOMAIN sessions \cup {None}
      BY <1>0, <3>1, SessionCookie
    <3>3. sessions' = sessions
      BY <2>1 DEF tables
    <3> HIDE DEF d
    <3> QED
      BY <1>0, <3>1, <3>2, <3>3
  <2> QED
    BY <2>2, <2>3, <2>4 DEF LeaveInv
<1>6. ASSUME NEW p \in Pages, NEW t \in Calls, NEW q, Sends(t, p, q), FromPage(p, q)
      PROVE  LeaveInv'
  <2>1. Keeps /\ sessions' = sessions /\ left' = left /\ jar' = jar
    BY <1>6, Sent, SameKeeps DEF stores, tables
  <2>2. \A u \in Calls \ {t} : Leaving(u)'
    BY <1>1, <1>6, <2>1, Sent
  <2>3. Leaving(t)'
    <3>1. request'[t] = q /\ reply'[t] = First(q)
      BY <1>6, Sent
    <3>2. q.op = "log_out" => q.session \in DOMAIN sessions \cup {None}
      BY <1>0, <1>6, PagesAssumption DEF FromPage, Jar
    <3> QED
      BY <2>1, <3>1, <3>2, FirstAnswer
  <2>4. \A u \in Calls : Leaving(u)'
    BY <2>2, <2>3
  <2> QED
    BY <1>2, <2>1, <2>4 DEF LeaveInv
<1> QED
  BY <1>3, <1>4, <1>5, <1>6, NextSteps

LEMMA LeaveStart == Init => LeaveInv
<1> SUFFICES ASSUME Init PROVE LeaveInv
  OBVIOUS
<1>1. PICK s \in Situations : sessions = s.sessions /\ jar = s.jar
  BY DEF Init
<1>2. Opening(s)
  BY SituationsAssumption
<1>3. /\ left = {}
      /\ \A t \in Calls : request[t].op = "none"
  BY DEF Init, NoCall
<1>4. \A b \in Clients : jar[b].session \in DOMAIN sessions \cup {None}
  BY <1>1, <1>2 DEF Opening
<1> QED
  BY <1>3, <1>4 DEF LeaveInv

(* A session that a page was told is logged out is over and stays so,        *)
(* whatever failed or was repeated on the way, and however many other calls  *)
(* work on the same account.                                                 *)
THEOREM LoggedOutIsOver == Spec => []LogoutEnds
<1>1. Init => FreshInv /\ LeaveInv
  BY FreshStart, LeaveStart
<1>2. TInv /\ FreshInv /\ LeaveInv /\ [Next]_vars => FreshInv' /\ LeaveInv'
  BY FreshStep, LeaveStep
<1>3. LeaveInv => LogoutEnds
  BY DEF LeaveInv, LogoutEnds, Ended, Kept
<1> QED
  BY <1>1, <1>2, <1>3, Typed, PTL DEF Spec

-----------------------------------------------------------------------------
(* Windows of the limiters *)

AtLimiter(t) == reply[t] = "none" /\ at[t] # 0 /\ at[t] <= LimitsOf(request[t].op)

\* What was let through: late by the delay at most, and forgotten only when its
\* window is over.
PassedOK(y) ==
  /\ y.key[1] \in Dimensions /\ y.now \in Nat /\ y.at \in Nat
  /\ y.at <= y.now + MaxDelay /\ y.at <= clock
  /\ y \in windows \/ y.now + Rules[y.key[1]].window <= clock

WindowInv ==
  /\ IsFiniteSet(passed)
  /\ \A y \in passed : PassedOK(y)
  /\ \A t \in Calls : AtLimiter(t) => clock <= memo[t].now + MaxDelay

\* What WindowsHold counts for x
Within(P, x) ==
  {y \in P : /\ y.key = x.key /\ y.at <= x.at
             /\ y.at + Rules[x.key[1]].window > x.at + MaxDelay}

LEMMA RuleTypes ==
  ASSUME NEW d \in Dimensions
  PROVE  Rules[d].limit \in Nat \ {0} /\ Rules[d].window \in Nat \ {0} /\ MaxDelay \in Nat
  BY ServiceAssumption

LEMMA LimiterTimes ==
  ASSUME TInv, WindowInv, [Next]_vars, NEW u \in Calls, AtLimiter(u)'
  PROVE  clock' <= memo'[u].now + MaxDelay
<1>0. clock \in Nat /\ memo[u].now \in Nat /\ MaxDelay \in Nat
  BY ServiceTypes, ServiceAssumption
<1>1. ASSUME NEW t \in Calls, Step(t)
      PROVE  clock' <= memo'[u].now + MaxDelay
  <2>1. CASE u # t
    BY <1>1, <2>1, OtherCalls DEF WindowInv, AtLimiter
  <2>2. CASE u = t
    <3>1. /\ request'[u] = request[u] /\ clock' = clock /\ reply[u] = "none" /\ at[u] \in Awaits
          /\ at'[u] = at[u] + 1 /\ memo'[u].now \in {memo[u].now, clock}
      BY <1>1, <2>2, OtherCalls DEF AtLimiter, Replies
    <3>2. AtLimiter(u)
      <4>1. PICK n \in Nat : n = LimitsOf(request[u].op)
        BY LimitsBound
      <4>2. PICK i \in Nat : i = at[u] /\ i # 0
        BY <3>1 DEF Awaits
      <4> QED
        BY <3>1, <4>1, <4>2 DEF AtLimiter
    <3> QED
      BY <1>0, <3>1, <3>2 DEF WindowInv
  <2> QED
    BY <2>1, <2>2
<1>2. CASE Idle
  <2>1. UNCHANGED <<request, at, memo>> /\ AtLimiter(u)
    BY <1>2 DEF Idle, AtLimiter
  <2>2. CASE Tick
    <3>1. at[u] \in 1 .. LimitsOf(request[u].op)
      <4>1. PICK n \in Nat : n = LimitsOf(request[u].op)
        BY LimitsBound
      <4>2. PICK i \in Nat : i = at[u]
        BY ServiceTypes
      <4> QED
        BY <2>1, <4>1, <4>2 DEF AtLimiter
    <3>2. clock < memo[u].now + MaxDelay /\ clock' = clock + 1
      BY <2>1, <2>2, <3>1 DEF Tick, AtLimiter
    <3> QED
      BY <1>0, <2>1, <3>2
  <2> QED
    BY <1>2, <2>1, <2>2 DEF Idle, WindowInv
<1>3. ASSUME NEW t \in Calls, Hear(t)
      PROVE  clock' <= memo'[u].now + MaxDelay
  BY <1>3, Heard DEF WindowInv, AtLimiter, calls
<1>4. ASSUME NEW p \in Pages, NEW t \in Calls, NEW q, Sends(t, p, q)
      PROVE  clock' <= memo'[u].now + MaxDelay
  <2>1. CASE u = t
    BY <1>0, <1>4, <2>1, Sent
  <2>2. CASE u # t
    BY <1>4, <2>2, Sent DEF WindowInv, AtLimiter
  <2> QED
    BY <2>1, <2>2
<1> QED
  BY <1>1, <1>2, <1>3, <1>4, NextSteps

\* One more request is let through.
LEMMA PassingKeeps ==
  ASSUME TInv, WindowInv, NEW t \in Calls, AtLimiter(t), clock' = clock,
         NEW d \in Dimensions, NEW v, NEW allowed \in BOOLEAN, ConsumeWindow(t, <<d, v>>, allowed)
  PROVE  IsFiniteSet(passed') /\ \A y \in passed' : PassedOK(y)'
<1> DEFINE now == memo[t].now
           key == <<d, v>>
           kept == {x \in windows : x.key = key => Counted(x, now)}
           e == [key |-> key, by |-> t, now |-> now, at |-> clock]
<1>1. /\ windows' = IF allowed THEN kept \cup {e} ELSE kept
      /\ passed' = IF allowed THEN passed \cup {e} ELSE passed
  BY DEF ConsumeWindow
<1>2. now \in Nat /\ clock \in Nat /\ now <= clock /\ MaxDelay \in Nat
  BY ServiceTypes, ServiceAssumption
<1>3. e.key = key /\ key[1] = d /\ e.now = now /\ e.at = clock
  OBVIOUS
<1>4. clock <= now + MaxDelay
  BY DEF WindowInv
<1>5. \A x : Counted(x, now) = (x.now + Rules[x.key[1]].window > now)
  BY DEF Counted
<1> HIDE DEF now, key, e
<1>6. IsFiniteSet(passed')
  BY <1>1, FS_AddElement DEF WindowInv
<1>7. ASSUME NEW y \in passed
      PROVE  PassedOK(y)'
  <2>1. PassedOK(y)
    BY DEF WindowInv
  <2>2. Rules[y.key[1]].window \in Nat
    BY <2>1, RuleTypes DEF PassedOK
  <2>3. ASSUME y \in windows, y \notin kept
        PROVE  y.now + Rules[y.key[1]].window <= clock
    <3>1. ~Counted(y, now)
      BY <2>3
    <3>2. ~(y.now + Rules[y.key[1]].window > now) /\ y.now \in Nat
      BY <1>5, <2>1, <3>1 DEF PassedOK
    <3> QED
      BY <1>2, <2>2, <3>2
  <2> QED
    BY <1>1, <2>1, <2>3 DEF PassedOK
<1>8. ASSUME allowed, NEW y, y = e
      PROVE  PassedOK(y)'
  BY <1>1, <1>2, <1>3, <1>4, <1>8 DEF PassedOK
<1> QED
  BY <1>1, <1>6, <1>7, <1>8

\* Within a window of real time there are no more than the script counted.
LEMMA PassingHolds ==
  ASSUME TInv, WindowInv, WindowsHold, NEW t \in Calls, clock' = clock,
         NEW d \in Dimensions, NEW v, NEW allowed \in BOOLEAN, ConsumeWindow(t, <<d, v>>, allowed)
  PROVE  WindowsHold'
<1> DEFINE now == memo[t].now
           key == <<d, v>>
           kept == {x \in windows : x.key = key => Counted(x, now)}
           counted == {y \in kept : y.key = key}
           e == [key |-> key, by |-> t, now |-> now, at |-> clock]
<1>1. passed' = passed \/ (passed' = passed \cup {e} /\ ~Full(Cardinality(counted), d))
  BY DEF ConsumeWindow
<1>2. now \in Nat /\ clock \in Nat /\ now <= clock /\ MaxDelay \in Nat
      /\ Rules[d].window \in Nat /\ Rules[d].limit \in Nat
  BY ServiceTypes, RuleTypes
<1>3. e.key = key /\ key[1] = d /\ e.at = clock
  OBVIOUS
<1>4. \A x : Counted(x, now) = (x.now + Rules[x.key[1]].window > now)
  BY DEF Counted
<1> HIDE DEF now, key, e
<1>5. CASE passed' = passed
  BY <1>5 DEF WindowsHold
<1>6. CASE passed' = passed \cup {e} /\ ~Full(Cardinality(counted), d)
  <2>1. IsFiniteSet(counted) /\ windows \subseteq passed
    <3>1. windows \subseteq passed /\ IsFiniteSet(passed) /\ counted \subseteq windows
      BY DEF TInv, TypeOK, WindowInv
    <3> QED
      BY <3>1, FS_Subset
  <2>2. IsFiniteSet(counted \cup {e}) /\ Cardinality(counted \cup {e}) <= Rules[d].limit
    <3>1. Cardinality(counted) \in Nat /\ Cardinality(counted) < Rules[d].limit
      BY <1>2, <1>6, <2>1, FS_CardinalityType DEF Full
    <3>2. /\ IsFiniteSet(counted \cup {e})
          /\ \/ Cardinality(counted \cup {e}) = Cardinality(counted)
             \/ Cardinality(counted \cup {e}) = Cardinality(counted) + 1
      BY <2>1, FS_AddElement
    <3> QED
      BY <1>2, <3>1, <3>2
  <2>3. ASSUME NEW x \in passed', x.key = key, x.at = clock
        PROVE  Cardinality(Within(passed', x)) <= Rules[x.key[1]].limit
    <3>1. ASSUME NEW y \in passed, y \in Within(passed', x)
          PROVE  y \in counted
      <4>1. PassedOK(y)
        BY DEF WindowInv
      <4>2. y.key = key /\ y.at + Rules[d].window > clock + MaxDelay
        BY <1>3, <2>3, <3>1 DEF Within
      <4>3. /\ y.at \in Nat /\ y.now \in Nat /\ y.at <= y.now + MaxDelay
            /\ y \in windows \/ y.now + Rules[d].window <= clock
        BY <1>3, <4>1, <4>2 DEF PassedOK
      <4>4. y.now + Rules[d].window > clock
        BY <1>2, <4>2, <4>3
      <4>5. y \in windows /\ y.now + Rules[d].window > now
        BY <1>2, <4>3, <4>4
      <4> QED
        BY <1>3, <1>4, <4>2, <4>5
    <3>2. Within(passed', x) \subseteq counted \cup {e}
      <4>1. Within(passed', x) \subseteq passed \cup {e}
        BY <1>6 DEF Within
      <4> QED
        BY <3>1, <4>1
    <3>3. Cardinality(Within(passed', x)) <= Cardinality(counted \cup {e})
          /\ Cardinality(Within(passed', x)) \in Nat /\ Cardinality(counted \cup {e}) \in Nat
      BY <2>2, <3>2, FS_Subset, FS_CardinalityType
    <3> QED
      BY <1>2, <1>3, <2>2, <2>3, <3>3
  <2>4. ASSUME NEW x \in passed', ~(x.key = key /\ x.at = clock)
        PROVE  Cardinality(Within(passed', x)) <= Rules[x.key[1]].limit
    <3>1. x \in passed /\ PassedOK(x)
      BY <1>3, <1>6, <2>4 DEF WindowInv
    <3>2. e \notin Within(passed', x)
      <4>1. ASSUME e \in Within(passed', x)
            PROVE  FALSE
        <5>1. x.key = key /\ clock <= x.at
          BY <1>3, <4>1 DEF Within
        <5>2. x.at \in Nat /\ x.at <= clock
          BY <3>1 DEF PassedOK
        <5> QED
          BY <1>2, <2>4, <5>1, <5>2
      <4> QED
        BY <4>1
    <3>3. Within(passed', x) = Within(passed, x)
      BY <1>6, <3>2 DEF Within
    <3> QED
      BY <3>1, <3>3 DEF WindowsHold, Within
  <2> QED
    BY <2>3, <2>4 DEF WindowsHold, Within
<1> QED
  BY <1>1, <1>5, <1>6

LEMMA WindowStep ==
  ASSUME TInv, WindowInv, WindowsHold, [Next]_vars
  PROVE  WindowInv' /\ WindowsHold'
<1>0. clock \in Nat /\ IsFiniteSet(passed) /\ \A y \in passed : PassedOK(y)
  BY ServiceTypes DEF WindowInv, TInv, TypeOK
<1>1. ASSUME UNCHANGED <<windows, passed>>, clock' \in {clock, clock + 1}
      PROVE  WindowsHold' /\ IsFiniteSet(passed') /\ \A y \in passed' : PassedOK(y)'
  <2>1. ASSUME NEW y \in passed
        PROVE  PassedOK(y)'
    <3>1. PassedOK(y) /\ Rules[y.key[1]].window \in Nat
      BY <1>0, RuleTypes DEF PassedOK
    <3>2. y.at <= clock' /\ (y.now + Rules[y.key[1]].window <= clock => y.now + Rules[y.key[1]].window <= clock')
      BY <1>0, <1>1, <3>1 DEF PassedOK
    <3> QED
      BY <1>1, <3>1, <3>2 DEF PassedOK
  <2> QED
    BY <1>0, <1>1, <2>1 DEF WindowsHold
<1>2. ASSUME NEW t \in Calls, Step(t)
      PROVE  WindowsHold' /\ IsFiniteSet(passed') /\ \A y \in passed' : PassedOK(y)'
  <2>1. clock' = clock
    BY <1>2, OtherCalls
  <2>2. CASE UNCHANGED <<windows, passed>>
    BY <1>1, <2>1, <2>2
  <2>3. ASSUME NEW d \in Dimensions, NEW v, NEW allowed \in BOOLEAN,
               at[t] <= LimitsOf(request[t].op), ConsumeWindow(t, <<d, v>>, allowed)
        PROVE  WindowsHold' /\ IsFiniteSet(passed') /\ \A y \in passed' : PassedOK(y)'
    <3>1. AtLimiter(t)
      BY <1>2, <2>3, OtherCalls DEF AtLimiter, Awaits
    <3> QED
      BY <2>1, <2>3, <3>1, PassingKeeps, PassingHolds
  <2> QED
    BY <1>2, <2>2, <2>3 DEF Step, Limits
<1>3. ASSUME Idle
      PROVE  WindowsHold' /\ IsFiniteSet(passed') /\ \A y \in passed' : PassedOK(y)'
  <2>1. UNCHANGED <<windows, passed>>
    BY <1>3 DEF Idle
  <2>2. clock' \in {clock, clock + 1}
    BY <1>3 DEF Idle, Tick
  <2> QED
    BY <1>1, <2>1, <2>2
<1>4. ASSUME NEW t \in Calls, Hear(t)
      PROVE  WindowsHold' /\ IsFiniteSet(passed') /\ \A y \in passed' : PassedOK(y)'
  BY <1>1, <1>4, Heard
<1>5. ASSUME NEW p \in Pages, NEW t \in Calls, NEW q, Sends(t, p, q)
      PROVE  WindowsHold' /\ IsFiniteSet(passed') /\ \A y \in passed' : PassedOK(y)'
  BY <1>1, <1>5, Sent DEF stores
<1>6. \A u \in Calls : AtLimiter(u)' => clock' <= memo'[u].now + MaxDelay
  BY LimiterTimes
<1> QED
  BY <1>2, <1>3, <1>4, <1>5, <1>6, NextSteps DEF WindowInv

LEMMA WindowStart == Init => WindowInv /\ WindowsHold
<1> SUFFICES ASSUME Init PROVE WindowInv /\ WindowsHold
  OBVIOUS
<1>1. passed = {} /\ \A t \in Calls : at[t] = 0
  BY DEF Init
<1> QED
  BY <1>1, FS_EmptySet DEF WindowInv, WindowsHold, AtLimiter

(* For any rules, delays and clocks: no key is let through more often than   *)
(* its rule says within a window of real time, short of how late a process   *)
(* reaches the limiter, though each counts from the time that it read before *)
(* and the script drops what is old by the time of whoever asks.             *)
THEOREM LimitersHold == Spec => []WindowsHold
<1>1. TInv /\ WindowInv /\ WindowsHold /\ [Next]_vars => WindowInv' /\ WindowsHold'
  BY WindowStep
<1> QED
  BY <1>1, WindowStart, Typed, PTL DEF Spec

-----------------------------------------------------------------------------
(* Ceremonies *)

Beginnings == {"begin_login", "begin_passkey"}
Later == {4, 5, 6, 7}

\* Call t has taken the ceremony that it names.
Took(t) == request[t].op \in Finishing /\ at[t] \in Later

\* Call b has begun, and answered, the ceremony id.
Began(b, id) == request[b].op \in Beginnings /\ New[b] = id /\ reply[b] # "none"

\* A ceremony that is kept was begun by the client, and in the session, that it
\* names; what is taken is gone, and was begun by who took it.
BegunBy(c) ==
  \E b \in Calls :
    /\ Began(b, c.id) /\ request[b].client = c.client
    /\ c.kind = "registration" => request[b].op = "begin_passkey" /\ request[b].session = c.session
Gone(t) == \A c \in ceremonies : c.id # request[t].ceremony
ByBeginner(t) ==
  \E b \in Calls :
    /\ Began(b, request[t].ceremony) /\ request[b].client = request[t].client
    /\ request[t].op = "finish_passkey" => request[b].session = request[t].session

CeremonyInv ==
  /\ \A c \in ceremonies : BegunBy(c)
  /\ \A t \in Calls : Took(t) => Gone(t) /\ ByBeginner(t)
  /\ \A t, u \in Calls : Took(t) /\ Took(u) /\ request[t].ceremony = request[u].ceremony => t = u

\* The third await is where a handler comes to be late.
LEMMA LaterSteps ==
  ASSUME TInv, NEW t \in Calls, Step(t), NEW u \in Calls
  PROVE  /\ at'[u] \in Later => at[u] \in Later \/ (u = t /\ at[t] = 3 /\ at'[t] = 4)
         /\ at[u] \in Later => at'[u] \in Later
<1>1. CASE u # t
  <2>1. at'[u] = at[u]
    BY <1>1, OtherCalls
  <2> QED
    BY <1>1, <2>1
<1>2. CASE u = t
  <2>1. PICK i \in Awaits : i = at[t]
    BY OtherCalls
  <2>2. at'[t] = i \/ (i < 7 /\ at'[t] = i + 1)
    BY <2>1, OtherCalls
  <2>3. /\ at'[t] \in Later => i \in Later \/ (i = 3 /\ at'[t] = 4)
        /\ i \in Later => at'[t] \in Later
    BY <2>1, <2>2 DEF Awaits, Later
  <2> QED
    BY <1>2, <2>1, <2>3
<1> QED
  BY <1>1, <1>2

\* Where no ceremony is begun or taken
LEMMA CeremonyKept ==
  ASSUME CeremonyInv, ceremonies' = ceremonies,
         \A u \in Calls : Took(u)' => Took(u) /\ request'[u] = request[u],
         \A u \in Calls : request[u].op \in Beginnings /\ reply[u] # "none" =>
                            request'[u] = request[u] /\ reply'[u] = reply[u]
  PROVE  CeremonyInv'
<1>1. ASSUME NEW b \in Calls, NEW id, Began(b, id)
      PROVE  Began(b, id)' /\ request'[b] = request[b]
  BY <1>1 DEF Began
<1>2. \A c \in ceremonies' : BegunBy(c)'
  BY <1>1 DEF CeremonyInv, BegunBy
<1>3. \A u \in Calls : Took(u)' => Gone(u)' /\ ByBeginner(u)'
  BY <1>1 DEF CeremonyInv, Gone, ByBeginner
<1>4. \A u, v \in Calls : Took(u)' /\ Took(v)' /\ request'[u].ceremony = request'[v].ceremony => u = v
  BY DEF CeremonyInv
<1> QED
  BY <1>2, <1>3, <1>4 DEF CeremonyInv

LEMMA CeremonyHandled ==
  ASSUME TInv, CeremonyInv, NEW t \in Calls, Step(t)
  PROVE  CeremonyInv'
<1> DEFINE q == request[t]
<1>1. request' = request /\ reply[t] = "none"
      /\ \A u \in Calls : reply[u] # "none" => reply'[u] = reply[u]
  BY OtherCalls
<1>2. ASSUME NEW b \in Calls, NEW id, Began(b, id)
      PROVE  Began(b, id)' /\ b # t
  BY <1>1, <1>2 DEF Began
<1>3. \A c \in ceremonies : BegunBy(c)'
  BY <1>1, <1>2 DEF CeremonyInv, BegunBy
<1>4. ASSUME NEW u \in Calls, ByBeginner(u)
      PROVE  ByBeginner(u)' /\ request[u].ceremony # New[t]
  <2>1. PICK b \in Calls :
          /\ Began(b, request[u].ceremony) /\ request[b].client = request[u].client
          /\ request[u].op = "finish_passkey" => request[b].session = request[u].session
    BY <1>4 DEF ByBeginner
  <2>2. Began(b, request[u].ceremony)' /\ b # t
    BY <1>1, <1>2, <2>1 DEF Began
  <2>3. New[b] = request[u].ceremony
    BY <2>1 DEF Began
  <2>4. New[b] # New[t]
    BY <2>2, ServiceAssumption
  <2> QED
    BY <1>1, <2>1, <2>2, <2>3, <2>4 DEF ByBeginner
<1>5. \A u \in Calls :
        Took(u)' => Took(u) \/ (u = t /\ q.op \in Finishing /\ at[t] = 3 /\ at'[t] = 4)
  BY <1>1, LaterSteps DEF Took
<1>6. CASE ~(q.op \in Finishing /\ at[t] = 3 /\ at'[t] = 4)
  <2>1. \A c \in ceremonies' : c \in ceremonies \/ (BegunBy(c)' /\ c.id = New[t])
    <3>1. ASSUME q.op \in Beginnings, reply'[t] # "none", NEW kind, NEW account,
                 NEW session \in IF q.op = "begin_passkey" THEN {q.session} ELSE {None},
                 kind = IF q.op = "begin_login" THEN "authentication" ELSE "registration",
                 NEW c, c = Ceremony(t, kind, account, session)
          PROVE  BegunBy(c)' /\ c.id = New[t]
      <4>1. c.id = New[t] /\ c.kind = kind /\ c.client = q.client /\ c.session = session
        BY <3>1 DEF Ceremony
      <4>2. kind = "registration" => q.op = "begin_passkey" /\ session = q.session
        BY <3>1 DEF Beginnings
      <4> QED
        BY <1>1, <3>1, <4>1, <4>2 DEF BegunBy, Began
    <3>2. CASE ceremonies' \subseteq ceremonies
      BY <3>2
    <3>3. ASSUME q.op \in Beginnings, reply'[t] # "none",
                 \E kind, account :
                   \E session \in IF q.op = "begin_passkey" THEN {q.session} ELSE {None} :
                     /\ kind = IF q.op = "begin_login" THEN "authentication" ELSE "registration"
                     /\ ceremonies' \subseteq ceremonies \cup {Ceremony(t, kind, account, session)}
          PROVE  \A c \in ceremonies' : c \in ceremonies \/ (BegunBy(c)' /\ c.id = New[t])
      <4>1. PICK kind, account :
              \E session \in IF q.op = "begin_passkey" THEN {q.session} ELSE {None} :
                /\ kind = IF q.op = "begin_login" THEN "authentication" ELSE "registration"
                /\ ceremonies' \subseteq ceremonies \cup {Ceremony(t, kind, account, session)}
        BY <3>3
      <4>2. PICK session \in IF q.op = "begin_passkey" THEN {q.session} ELSE {None} :
              /\ kind = IF q.op = "begin_login" THEN "authentication" ELSE "registration"
              /\ ceremonies' \subseteq ceremonies \cup {Ceremony(t, kind, account, session)}
        BY <4>1
      <4>3. \A c : c = Ceremony(t, kind, account, session) => BegunBy(c)' /\ c.id = New[t]
        BY <3>1, <3>3, <4>2
      <4> QED
        BY <4>2, <4>3
    <3> QED
      BY <1>6, <3>2, <3>3 DEF Step, Ceremonies, Beginnings
  <2>2. \A u \in Calls : Took(u)' => Took(u)
    BY <1>5, <1>6
  <2>3. \A c \in ceremonies' : BegunBy(c)'
    BY <1>3, <2>1
  <2>4. ASSUME NEW u \in Calls, Took(u)
        PROVE  Gone(u)' /\ ByBeginner(u)'
    <3>1. Gone(u) /\ ByBeginner(u)
      BY <2>4 DEF CeremonyInv
    <3>2. ByBeginner(u)' /\ request[u].ceremony # New[t]
      BY <1>4, <3>1
    <3> QED
      BY <1>1, <2>1, <3>1, <3>2 DEF Gone
  <2> QED
    BY <1>1, <2>2, <2>3, <2>4 DEF CeremonyInv
<1>7. CASE q.op \in Finishing /\ at[t] = 3 /\ at'[t] = 4
  <2>1. /\ ceremonies' = Take(q.ceremony)
        /\ \E c \in ceremonies :
             /\ c.id = q.ceremony /\ c.client = q.client
             /\ q.op = "finish_login" => c.kind = "authentication"
             /\ q.op = "finish_passkey" => c.kind = "registration" /\ c.session = q.session
    BY <1>7 DEF Step, Ceremonies, Finishing
  <2>2. PICK c \in ceremonies :
          /\ c.id = q.ceremony /\ c.client = q.client
          /\ q.op = "finish_passkey" => c.kind = "registration" /\ c.session = q.session
    BY <2>1
  <2>3. BegunBy(c)
    BY DEF CeremonyInv
  <2>4. ByBeginner(t)
    BY <2>2, <2>3 DEF BegunBy, ByBeginner
  <2>5. ceremonies' \subseteq ceremonies /\ Gone(t)'
    BY <1>1, <2>1 DEF Take, Gone
  <2>6. \A u \in Calls : Took(u)' => Took(u) \/ u = t
    BY <1>5
  <2>7. ASSUME NEW u \in Calls, Took(u)
        PROVE  request[u].ceremony # q.ceremony /\ Gone(u)' /\ ByBeginner(u)'
    <3>1. Gone(u) /\ ByBeginner(u)
      BY <2>7 DEF CeremonyInv
    <3>2. request[u].ceremony # q.ceremony
      BY <2>2, <3>1 DEF Gone
    <3>3. Gone(u)'
      BY <1>1, <2>5, <3>1 DEF Gone
    <3> QED
      BY <1>4, <3>1, <3>2, <3>3
  <2>8. \A d \in ceremonies' : BegunBy(d)'
    BY <1>3, <2>5
  <2>9. ByBeginner(t)'
    BY <1>4, <2>4
  <2>10. \A u \in Calls : Took(u)' => Gone(u)' /\ ByBeginner(u)'
    BY <2>5, <2>6, <2>7, <2>9
  <2>11. ASSUME NEW u \in Calls, NEW v \in Calls, Took(u)', Took(v)',
                request'[u].ceremony = request'[v].ceremony
         PROVE  u = v
    <3>1. Took(u) /\ Took(v) => u = v
      BY <1>1, <2>11 DEF CeremonyInv
    <3> QED
      BY <1>1, <2>6, <2>7, <2>11, <3>1
  <2> QED
    BY <2>8, <2>10, <2>11 DEF CeremonyInv
<1> QED
  BY <1>6, <1>7

LEMMA CeremonyStep ==
  ASSUME TInv, CeremonyInv, [Next]_vars
  PROVE  CeremonyInv'
<1>1. CASE Idle
  <2>1. UNCHANGED <<ceremonies, request, at>> /\ \A u \in Calls : reply[u] # "none" => reply'[u] = reply[u]
    BY <1>1 DEF Idle
  <2> QED
    BY <2>1, CeremonyKept DEF Took
<1>2. ASSUME NEW t \in Calls, Hear(t)
      PROVE  CeremonyInv'
  BY <1>2, Heard, CeremonyKept DEF calls, Took
<1>3. ASSUME NEW p \in Pages, NEW t \in Calls, NEW q, Sends(t, p, q)
      PROVE  CeremonyInv'
  <2>1. ceremonies' = ceremonies /\ at'[t] = 1 /\ request[t].op = "none"
        /\ \A u \in Calls \ {t} : request'[u] = request[u] /\ reply'[u] = reply[u] /\ at'[u] = at[u]
    BY <1>3, Sent DEF stores
  <2> QED
    BY <2>1, CeremonyKept DEF Took, Later, Beginnings
<1> QED
  BY <1>1, <1>2, <1>3, CeremonyHandled, NextSteps

-----------------------------------------------------------------------------
(* Authorization codes *)

\* Call t has used up the code that it names.
Redeemed(t) == request[t].op = "callback" /\ at[t] \in Later

Issued(id) == \E i \in Calls : request[i].op = "interact" /\ New[i] = id /\ reply[i] # "none"

Spent(t) ==
  \A x \in artifacts : x.model = "code" /\ x.id = request[t].code => x.used \/ x.until <= clock

\* A stored code was issued; one that is used up was issued, too, and is of no
\* use to anybody else.
CodeInv ==
  /\ \A x \in artifacts : x.model = "code" => Issued(x.id)
  /\ \A t \in Calls : Redeemed(t) => Issued(request[t].code) /\ Spent(t)
  /\ \A t, u \in Calls : Redeemed(t) /\ Redeemed(u) /\ request[t].code = request[u].code => t = u

\* Where no code is issued or used
LEMMA CodeKept ==
  ASSUME TInv, CodeInv, artifacts' = artifacts, clock' \in {clock, clock + 1},
         \A u \in Calls : Redeemed(u)' => Redeemed(u) /\ request'[u] = request[u],
         \A u \in Calls : request[u].op = "interact" /\ reply[u] # "none" =>
                            request'[u] = request[u] /\ reply'[u] = reply[u]
  PROVE  CodeInv'
<1>1. ASSUME NEW id, Issued(id)
      PROVE  Issued(id)'
  BY <1>1 DEF Issued
<1>2. \A x \in artifacts' : x.model = "code" => Issued(x.id)'
  BY <1>1 DEF CodeInv
<1>3. ASSUME NEW u \in Calls, Redeemed(u)'
      PROVE  Issued(request[u].code)' /\ Spent(u)'
  <2>1. Redeemed(u) /\ request'[u] = request[u]
    BY <1>3
  <2>2. Issued(request[u].code) /\ Spent(u)
    BY <2>1 DEF CodeInv
  <2>3. Issued(request[u].code)'
    BY <2>1, <2>2 DEF Issued
  <2>4. Spent(u)'
    <3>1. \A x \in artifacts : x.until \in Nat
      BY DEF TInv, Artifacts
    <3>2. clock \in Nat
      BY DEF TInv, TypeOK
    <3>3. \A x \in artifacts : x.until <= clock => x.until <= clock'
      BY <3>1, <3>2
    <3> QED
      BY <2>1, <2>2, <3>3 DEF Spent
  <2> QED
    BY <2>3, <2>4
<1>4. \A u, v \in Calls : Redeemed(u)' /\ Redeemed(v)' /\ request'[u].code = request'[v].code => u = v
  BY DEF CodeInv
<1> QED
  BY <1>2, <1>3, <1>4 DEF CodeInv

LEMMA CodeHandled ==
  ASSUME TInv, CodeInv, NEW t \in Calls, Step(t)
  PROVE  CodeInv'
<1> DEFINE q == request[t]
           Code(x) == x.model = "code"
<1>1. request' = request /\ reply[t] = "none" /\ clock' = clock /\ clock \in Nat
      /\ \A u \in Calls : reply[u] # "none" => reply'[u] = reply[u]
  BY OtherCalls, ServiceTypes
<1>2. ASSUME NEW id, Issued(id)
      PROVE  Issued(id)' /\ id # New[t]
  <2>1. PICK i \in Calls : request[i].op = "interact" /\ New[i] = id /\ reply[i] # "none"
    BY <1>2 DEF Issued
  <2>2. New[i] # New[t]
    BY <1>1, <2>1, ServiceAssumption
  <2> QED
    BY <1>1, <2>1, <2>2 DEF Issued
<1>3. \A u \in Calls :
        Redeemed(u)' => Redeemed(u) \/ (u = t /\ q.op = "callback" /\ at[t] = 3 /\ at'[t] = 4)
  BY <1>1, LaterSteps DEF Redeemed
<1>4. ASSUME q.op = "callback", ConsumeArtifact(q.code, TRUE)
      PROVE  /\ \E y \in artifacts : Code(y) /\ y.id = q.code /\ ~y.used /\ ~(y.until <= clock)
             /\ \A x \in artifacts' :
                  \/ x \in artifacts /\ (Code(x) /\ x.id = q.code => x.used \/ x.until <= clock)
                  \/ /\ x.used
                     /\ \E y \in artifacts : x.id = y.id /\ x.model = y.model
  <2> DEFINE found == {x \in FindArtifact("code", q.code) : ConsumableArtifact(x)}
  <2>1. found # {} /\ artifacts' = (artifacts \ found) \cup {[x EXCEPT !.used = TRUE] : x \in found}
    BY <1>4 DEF ConsumeArtifact
  <2>2. \A x \in artifacts : x \in Artifacts /\ x.until \in Nat
    BY DEF TInv, Artifacts
  <2>3. \A x : x \in found <=>
                 x \in artifacts /\ Code(x) /\ x.id = q.code /\ clock < x.until /\ ~x.used
    BY DEF FindArtifact, ConsumableArtifact
  <2>4. \A x \in found : LET y == [x EXCEPT !.used = TRUE] IN y.used /\ y.id = x.id /\ y.model = x.model
    BY <2>2, <2>3 DEF Artifacts
  <2> HIDE DEF found
  <2>5. \A x \in artifacts : x \in found => ~(x.until <= clock)
    BY <1>1, <2>2, <2>3
  <2>6. \A x \in artifacts \ found : Code(x) /\ x.id = q.code => x.used \/ x.until <= clock
    BY <1>1, <2>2, <2>3
  <2>7. \E y \in artifacts : Code(y) /\ y.id = q.code /\ ~y.used /\ ~(y.until <= clock)
    BY <2>1, <2>3, <2>5
  <2>8. ASSUME NEW x \in artifacts'
        PROVE  \/ x \in artifacts /\ (Code(x) /\ x.id = q.code => x.used \/ x.until <= clock)
               \/ x.used /\ \E y \in artifacts : x.id = y.id /\ x.model = y.model
    <3>1. CASE x \in artifacts \ found
      BY <2>6, <3>1
    <3>2. CASE \E y \in found : x = [y EXCEPT !.used = TRUE]
      BY <2>3, <2>4, <3>2
    <3> QED
      BY <2>1, <3>1, <3>2
  <2> QED
    BY <2>7, <2>8
<1>5. ASSUME NEW model, NEW grant, NEW x \in Upsert(model, t, q.authorization, grant), x \notin artifacts
      PROVE  x.model = model /\ x.id = New[t]
  BY <1>5 DEF Upsert
\* What may be stored after the step
<1>6. ASSUME NEW x \in artifacts', Code(x)
      PROVE  \/ x \in artifacts
             \/ x.id = New[t] /\ q.op = "interact" /\ reply'[t] # "none"
             \/ x.used /\ \E y \in artifacts : x.id = y.id /\ y.model = "code"
  <2>1. CASE artifacts' \subseteq artifacts
    BY <2>1
  <2>2. CASE q.op = "interact" /\ reply'[t] # "none" /\ artifacts' = Upsert("code", t, q.authorization, New[t])
    BY <1>5, <2>2
  <2>3. CASE q.op = "callback" /\ artifacts' = Upsert("token", t, q.authorization, q.code)
    BY <1>5, <1>6, <2>3
  <2>4. CASE q.op = "callback" /\ ConsumeArtifact(q.code, TRUE)
    BY <1>4, <1>6, <2>4
  <2> QED
    BY <2>1, <2>2, <2>3, <2>4 DEF Step, Codes
<1>7. ASSUME NEW x \in artifacts', Code(x)
      PROVE  Issued(x.id)'
  <2>1. CASE \E y \in artifacts : x.id = y.id /\ y.model = "code"
    BY <1>2, <2>1 DEF CodeInv
  <2>2. CASE x.id = New[t] /\ q.op = "interact" /\ reply'[t] # "none"
    BY <1>1, <2>2 DEF Issued
  <2> QED
    BY <1>6, <1>7, <2>1, <2>2
<1>8. ASSUME NEW u \in Calls, Redeemed(u)
      PROVE  Issued(request[u].code)' /\ Spent(u)'
  <2>1. Issued(request[u].code) /\ Spent(u)
    BY <1>8 DEF CodeInv
  <2>2. Issued(request[u].code)' /\ request[u].code # New[t]
    BY <1>1, <1>2, <2>1 DEF Issued
  <2>3. ASSUME NEW x \in artifacts', Code(x), x.id = request[u].code
        PROVE  x.used \/ x.until <= clock
    BY <1>6, <2>1, <2>2, <2>3 DEF Spent
  <2> QED
    BY <1>1, <2>2, <2>3 DEF Spent
<1>9. CASE ~(q.op = "callback" /\ at[t] = 3 /\ at'[t] = 4)
  BY <1>1, <1>3, <1>7, <1>8, <1>9 DEF CodeInv
<1>10. CASE q.op = "callback" /\ at[t] = 3 /\ at'[t] = 4
  <2>1. ConsumeArtifact(q.code, TRUE)
    <3>1. at[t] # 2 /\ at[t] # 4 /\ q.op # "interact"
      BY <1>10
    <3> QED
      BY <1>10, <3>1 DEF Step, Codes
  <2>2. PICK y \in artifacts : Code(y) /\ y.id = q.code /\ ~y.used /\ ~(y.until <= clock)
    BY <1>4, <1>10, <2>1
  <2>3. Issued(q.code)
    BY <2>2 DEF CodeInv
  <2>4. Issued(q.code)' /\ Spent(t)'
    <3>1. Issued(q.code)'
      BY <1>1, <1>2, <2>3 DEF Issued
    <3>2. \A x \in artifacts' : Code(x) /\ x.id = q.code => x.used \/ x.until <= clock
      BY <1>4, <1>10, <2>1
    <3> QED
      BY <1>1, <3>1, <3>2 DEF Spent
  <2>5. \A u \in Calls : Redeemed(u) => request[u].code # q.code
    BY <2>2 DEF CodeInv, Spent
  <2>6. \A u \in Calls : Redeemed(u)' => Redeemed(u) \/ u = t
    BY <1>3
  <2>7. \A u \in Calls : Redeemed(u)' => Issued(request[u].code)' /\ Spent(u)'
    BY <1>1, <1>8, <2>4, <2>6
  <2>8. ASSUME NEW u \in Calls, NEW v \in Calls, Redeemed(u)', Redeemed(v)',
               request'[u].code = request'[v].code
        PROVE  u = v
    <3>1. Redeemed(u) /\ Redeemed(v) => u = v
      BY <1>1, <2>8 DEF CodeInv
    <3> QED
      BY <1>1, <2>5, <2>6, <2>8, <3>1
  <2> QED
    BY <1>7, <2>7, <2>8 DEF CodeInv
<1> QED
  BY <1>9, <1>10

LEMMA CodeStep ==
  ASSUME TInv, CodeInv, [Next]_vars
  PROVE  CodeInv'
<1>1. CASE Idle
  <2>1. UNCHANGED <<artifacts, request, at>> /\ \A u \in Calls : reply[u] # "none" => reply'[u] = reply[u]
    BY <1>1 DEF Idle
  <2>2. clock' \in {clock, clock + 1}
    BY <1>1 DEF Idle, Tick
  <2> QED
    BY <2>1, <2>2, CodeKept DEF Redeemed
<1>2. ASSUME NEW t \in Calls, Hear(t)
      PROVE  CodeInv'
  BY <1>2, Heard, CodeKept DEF calls, Redeemed
<1>3. ASSUME NEW p \in Pages, NEW t \in Calls, NEW q, Sends(t, p, q)
      PROVE  CodeInv'
  <2>1. artifacts' = artifacts /\ clock' = clock /\ at'[t] = 1 /\ request[t].op = "none"
        /\ \A u \in Calls \ {t} : request'[u] = request[u] /\ reply'[u] = reply[u] /\ at'[u] = at[u]
    BY <1>3, Sent DEF stores
  <2> QED
    BY <2>1, CodeKept DEF Redeemed, Later
<1> QED
  BY <1>1, <1>2, <1>3, CodeHandled, NextSteps

-----------------------------------------------------------------------------
(* Bindings of an authorization to a browser *)

\* A page of browser b began the authorization.
BoundTo(binding, b) ==
  \E s \in Calls :
    request[s].op = "start" /\ New[s] = binding.authorization /\ Browser[from[s].page] = b

OfBrowser(t) ==
  /\ request[t].binding # None => BoundTo(request[t].binding, Browser[from[t].page])
  /\ at[t] \notin {0, 1} =>
       request[t].binding # None /\ request[t].authorization = request[t].binding.authorization

JarBound(b) == jar[b].binding # None => BoundTo(jar[b].binding, b)

BindingInv ==
  /\ \A b \in Clients : JarBound(b)
  /\ \A t \in Calls : request[t].op = "callback" => OfBrowser(t)

LEMMA BindingCookie ==
  ASSUME NEW j \in CookieRow, NEW t \in Calls
  PROVE  \/ Cookies(j, t).binding \in {j.binding, None}
         \/ request[t].op = "start" /\ Cookies(j, t).binding.authorization = New[t]
<1>1. CASE request[t].op \notin {"request_code", "verify_code", "finish_login", "log_out", "start", "callback"}
  BY <1>1 DEF Cookies
<1>2. CASE request[t].op \in {"request_code", "log_out"}
  BY <1>2 DEF Cookies, ChallengeRoute, SessionRoute, CookieRow
<1>3. CASE request[t].op \in {"verify_code", "finish_login"}
  BY <1>3 DEF Cookies, VerifyRoute, PasskeyVerify, CookieRow
<1>4. CASE request[t].op \in {"start", "callback"}
  BY <1>4 DEF Cookies, StartOidcAuthorization, OidcCallback, CookieRow
<1> QED
  BY <1>1, <1>2, <1>3, <1>4

LEMMA BindingStep ==
  ASSUME TInv, BindingInv, [Next]_vars
  PROVE  BindingInv'
<1>1. ASSUME \A s \in Calls : request[s].op = "start" => request'[s] = request[s] /\ from'[s] = from[s],
             NEW binding, NEW b, BoundTo(binding, b)
      PROVE  BoundTo(binding, b)'
  BY <1>1 DEF BoundTo
<1>2. ASSUME jar' = jar,
             \A s \in Calls : request[s].op = "start" => request'[s] = request[s] /\ from'[s] = from[s]
      PROVE  \A b \in Clients : JarBound(b)'
  BY <1>2 DEF BindingInv, JarBound, BoundTo
<1>3. ASSUME NEW u \in Calls, request'[u] = request[u], from'[u] = from[u],
             at'[u] \in {0, 1} \/ at[u] \notin {0, 1},
             \A s \in Calls : request[s].op = "start" => request'[s] = request[s] /\ from'[s] = from[s],
             request[u].op = "callback"
      PROVE  OfBrowser(u)'
  BY <1>3 DEF BindingInv, OfBrowser, BoundTo
<1>4. ASSUME NEW t \in Calls, Step(t), UNCHANGED web
      PROVE  BindingInv'
  <2>1. request' = request /\ from' = from /\ jar' = jar
    BY <1>4, OtherCalls DEF web
  <2>2. \A b \in Clients : JarBound(b)'
    BY <1>2, <2>1
  <2>3. ASSUME NEW u \in Calls, request[u].op = "callback", u # t \/ ~(at[t] = 1 /\ at'[t] = 2)
        PROVE  OfBrowser(u)'
    <3>1. at'[u] \in {0, 1} \/ at[u] \notin {0, 1}
      <4>1. CASE u # t
        <5>1. at'[u] = at[u]
          BY <1>4, <4>1, OtherCalls
        <5> QED
          BY <5>1
      <4>2. CASE u = t
        <5>1. PICK i \in Awaits : i = at[t]
          BY <1>4, OtherCalls
        <5>2. at'[t] = i \/ at'[t] = i + 1
          BY <1>4, <5>1, OtherCalls
        <5>3. i \notin {0, 1} \/ (i = 1 /\ at'[t] \in {1, 2})
          BY <5>1, <5>2 DEF Awaits
        <5> QED
          BY <2>3, <4>2, <5>1, <5>3
      <4> QED
        BY <4>1, <4>2
    <3> QED
      BY <1>3, <2>1, <2>3, <3>1
  <2>4. ASSUME request[t].op = "callback", at[t] = 1, at'[t] = 2
        PROVE  OfBrowser(t)'
    <3>1. request[t].binding # None /\ request[t].authorization = request[t].binding.authorization
      BY <1>4, <2>4 DEF Step, Binds
    <3>2. BoundTo(request[t].binding, Browser[from[t].page])
      BY <2>4, <3>1 DEF BindingInv, OfBrowser
    <3> QED
      BY <2>1, <3>1, <3>2 DEF OfBrowser, BoundTo
  <2>5. \A u \in Calls : request[u].op = "callback" => OfBrowser(u)'
    BY <2>3, <2>4
  <2> QED
    BY <2>1, <2>2, <2>5 DEF BindingInv
<1>5. CASE Idle
  <2>1. UNCHANGED <<request, from, jar, at>>
    BY <1>5 DEF Idle
  <2>2. \A b \in Clients : JarBound(b)'
    BY <1>2, <2>1
  <2>3. \A u \in Calls : request[u].op = "callback" => OfBrowser(u)'
    BY <1>3, <2>1
  <2> QED
    BY <2>1, <2>2, <2>3 DEF BindingInv
<1>6. ASSUME NEW t \in Calls, Hear(t)
      PROVE  BindingInv'
  <2> DEFINE d == Browser[from[t].page]
  <2>1. UNCHANGED <<request, from, at>>
    BY <1>6, Heard DEF calls
  <2>2. \A u \in Calls : request[u].op = "callback" => OfBrowser(u)'
    BY <1>3, <2>1
  <2>3. d \in Clients /\ jar[d] \in CookieRow /\ jar'[d] = Cookies(jar[d], t)
        /\ \A b \in Clients \ {d} : jar'[b] = jar[b]
    BY <1>6, Heard
  <2>4. ASSUME jar'[d].binding # None
        PROVE  BoundTo(jar'[d].binding, d)
    <3>1. CASE jar'[d].binding = jar[d].binding
      BY <2>3, <2>4, <3>1 DEF BindingInv, JarBound
    <3>2. CASE request[t].op = "start" /\ jar'[d].binding.authorization = New[t]
      BY <3>2 DEF BoundTo
    <3> QED
      BY <2>3, <2>4, <3>1, <3>2, BindingCookie
  <2>5. ASSUME NEW b \in Clients, jar'[b].binding # None
        PROVE  BoundTo(jar'[b].binding, b)
    <3>1. CASE b = d
      BY <2>4, <2>5, <3>1
    <3>2. CASE b # d
      BY <2>3, <2>5, <3>2 DEF BindingInv, JarBound
    <3> QED
      BY <3>1, <3>2
  <2> HIDE DEF d
  <2>6. \A b \in Clients : JarBound(b)'
    BY <2>1, <2>5 DEF JarBound, BoundTo
  <2> QED
    BY <2>1, <2>2, <2>6 DEF BindingInv
<1>7. ASSUME NEW p \in Pages, NEW t \in Calls, NEW q, Sends(t, p, q), FromPage(p, q)
      PROVE  BindingInv'
  <2>1. /\ request'[t] = q /\ at'[t] = 1 /\ from'[t].page = p /\ request[t].op = "none" /\ jar' = jar
        /\ \A u \in Calls \ {t} : request'[u] = request[u] /\ at'[u] = at[u] /\ from'[u] = from[u]
    BY <1>7, Sent
  <2>2. \A s \in Calls : request[s].op = "start" => request'[s] = request[s] /\ from'[s] = from[s]
    BY <2>1
  <2>3. \A b \in Clients : JarBound(b)'
    BY <1>2, <2>1, <2>2
  <2>4. ASSUME NEW u \in Calls \ {t}, request'[u].op = "callback"
        PROVE  OfBrowser(u)'
    BY <1>3, <2>1, <2>2, <2>4
  <2>5. ASSUME q.op = "callback"
        PROVE  OfBrowser(t)'
    <3>1. q.binding = jar[Browser[p]].binding /\ Browser[p] \in Clients
      BY <1>7, <2>5, PagesAssumption DEF FromPage, Jar
    <3>2. q.binding # None => BoundTo(q.binding, Browser[p])
      BY <3>1 DEF BindingInv, JarBound
    <3>3. q.binding # None => BoundTo(q.binding, Browser[p])'
      BY <2>2, <3>2 DEF BoundTo
    <3> QED
      BY <2>1, <3>3 DEF OfBrowser, BoundTo
  <2>6. \A u \in Calls : request'[u].op = "callback" => OfBrowser(u)'
    BY <2>1, <2>4, <2>5
  <2> QED
    BY <2>3, <2>6 DEF BindingInv
<1> QED
  BY <1>4, <1>5, <1>6, <1>7, NextSteps

-----------------------------------------------------------------------------
(* What stands behind a session or a passkey that a call has made *)

SessionBacked(t) ==
  New[t] \in DOMAIN sessions =>
    \/ request[t].op = "verify_code" \/ Redeemed(t)
    \/ request[t].op = "finish_login" /\ Took(t)

PasskeyBacked(t) ==
  New[t] \in DOMAIN passkeys =>
    /\ request[t].op = "finish_passkey" /\ Took(t) /\ request[t].session \in DOMAIN sessions
    /\ passkeys[New[t]].account = sessions[request[t].session].account

GrantInv == \A t \in Calls : SessionBacked(t) /\ PasskeyBacked(t)

LEMMA GrantKept ==
  ASSUME GrantInv, Keeps, NEW u \in Calls, request'[u] = request[u], at[u] \in Later => at'[u] \in Later,
         New[u] \in DOMAIN sessions' => New[u] \in DOMAIN sessions,
         New[u] \in DOMAIN passkeys' => New[u] \in DOMAIN passkeys
  PROVE  SessionBacked(u)' /\ PasskeyBacked(u)'
<1>1. SessionBacked(u) /\ PasskeyBacked(u)
  BY DEF GrantInv
<1>2. (Redeemed(u) => Redeemed(u)') /\ (Took(u) => Took(u)')
  BY DEF Redeemed, Took
<1>3. SessionBacked(u)'
  BY <1>1, <1>2 DEF SessionBacked
<1>4. PasskeyBacked(u)'
  BY <1>1, <1>2 DEF PasskeyBacked, Keeps
<1> QED
  BY <1>3, <1>4

LEMMA GrantHandled ==
  ASSUME TInv, FreshInv, GrantInv, NEW t \in Calls, Step(t)
  PROVE  GrantInv'
<1>1. Keeps /\ request' = request
      /\ \A u \in Calls \ {t} :
           /\ New[u] \in DOMAIN sessions' => New[u] \in DOMAIN sessions
           /\ New[u] \in DOMAIN passkeys' => New[u] \in DOMAIN passkeys
  BY StepKeeps, OtherCalls
<1>2. \A u \in Calls \ {t} : SessionBacked(u)' /\ PasskeyBacked(u)'
  BY <1>1, GrantKept, LaterSteps
<1>3. New[t] \notin DOMAIN sessions /\ New[t] \notin DOMAIN passkeys
  BY OtherCalls DEF FreshInv, Granted
<1>4. reply'[t] # "none" => at'[t] = at[t]
  BY OtherCalls
<1>5. SessionBacked(t)'
  <2>1. ASSUME New[t] \in DOMAIN sessions'
        PROVE  /\ \/ request[t].op = "verify_code"
                  \/ request[t].op = "finish_login" /\ at[t] = 5
                  \/ request[t].op = "callback" /\ at[t] = 7
               /\ reply'[t] # "none"
    BY <1>3, <2>1 DEF Step, Writes
  <2> QED
    BY <1>1, <1>4, <2>1 DEF SessionBacked, Redeemed, Took, Later, Finishing
<1>6. PasskeyBacked(t)'
  <2>1. ASSUME New[t] \in DOMAIN passkeys'
        PROVE  /\ request[t].op = "finish_passkey" /\ at[t] = 4 /\ reply'[t] # "none"
               /\ request[t].session \in DOMAIN sessions
               /\ passkeys'[New[t]].account = sessions[request[t].session].account
    BY <1>3, <2>1 DEF Step, Writes
  <2> QED
    BY <1>1, <1>4, <2>1 DEF PasskeyBacked, Took, Later, Finishing, Keeps
<1> QED
  BY <1>2, <1>5, <1>6 DEF GrantInv

LEMMA GrantStep ==
  ASSUME TInv, FreshInv, GrantInv, [Next]_vars
  PROVE  GrantInv'
<1>1. CASE Idle
  <2>1. /\ UNCHANGED <<request, at>> /\ Keeps
        /\ DOMAIN sessions' = DOMAIN sessions /\ DOMAIN passkeys' = DOMAIN passkeys
    BY <1>1, IdleKeeps DEF Idle
  <2> QED
    BY <2>1, GrantKept DEF GrantInv
<1>2. ASSUME NEW t \in Calls, Hear(t)
      PROVE  GrantInv'
  <2>1. UNCHANGED <<tables, request, at>>
    BY <1>2, Heard DEF calls
  <2> QED
    BY <2>1, SameKeeps, GrantKept DEF GrantInv, tables
<1>3. ASSUME NEW p \in Pages, NEW t \in Calls, NEW q, Sends(t, p, q)
      PROVE  GrantInv'
  <2>1. /\ UNCHANGED tables /\ reply[t] = "none"
        /\ \A u \in Calls \ {t} : request'[u] = request[u] /\ at'[u] = at[u]
    BY <1>3, Sent DEF stores
  <2>2. \A u \in Calls \ {t} : SessionBacked(u)' /\ PasskeyBacked(u)'
    BY <2>1, SameKeeps, GrantKept DEF tables
  <2>3. New[t] \notin DOMAIN sessions' /\ New[t] \notin DOMAIN passkeys'
    BY <2>1 DEF FreshInv, Granted, tables
  <2> QED
    BY <2>2, <2>3 DEF GrantInv, SessionBacked, PasskeyBacked
<1> QED
  BY <1>1, <1>2, <1>3, GrantHandled, NextSteps

-----------------------------------------------------------------------------
(* Grants *)

GrantStrengthening == FreshInv /\ CeremonyInv /\ CodeInv /\ BindingInv /\ GrantInv

LEMMA GrantStart == Init => GrantStrengthening
<1> SUFFICES ASSUME Init PROVE GrantStrengthening
  OBVIOUS
<1>1. PICK s \in Situations : sessions = s.sessions /\ passkeys = s.passkeys /\ jar = s.jar
  BY DEF Init
<1>2. Opening(s)
  BY SituationsAssumption
<1>3. /\ \A b \in Clients : jar[b].binding = None
      /\ \A t \in Calls : New[t] \notin DOMAIN sessions /\ New[t] \notin DOMAIN passkeys
  BY <1>1, <1>2 DEF Opening
<1>4. ceremonies = {} /\ artifacts = {} /\ \A t \in Calls : request[t].op = "none"
  BY DEF Init, NoCall
<1>5. CeremonyInv /\ CodeInv /\ BindingInv /\ GrantInv
  BY <1>3, <1>4
     DEF CeremonyInv, Took, Finishing, CodeInv, Redeemed, BindingInv, JarBound, GrantInv,
         SessionBacked, PasskeyBacked
<1> QED
  BY <1>5, FreshStart DEF GrantStrengthening

LEMMA BeginningIs ==
  ASSUME NEW b \in Calls
  PROVE  Beginning(New[b]) = b
  BY ServiceAssumption DEF Beginning

\* Who has made something took the ceremony or used up the code.
LEMMA GrantedBy ==
  ASSUME GrantInv, NEW t \in Calls, Granted(t)
  PROVE  /\ request[t].op \in Finishing => Took(t)
         /\ request[t].op = "callback" => Redeemed(t)
         /\ request[t].op = "finish_passkey" =>
              passkeys[New[t]].account = sessions[request[t].session].account
<1>1. SessionBacked(t) /\ PasskeyBacked(t)
  BY DEF GrantInv
<1>2. CASE New[t] \in DOMAIN passkeys
  BY <1>1, <1>2 DEF PasskeyBacked
<1>3. CASE New[t] \notin DOMAIN passkeys
  <2>1. New[t] \in DOMAIN sessions
    BY <1>3 DEF Granted
  <2>2. \/ request[t].op = "verify_code" \/ Redeemed(t)
        \/ request[t].op = "finish_login" /\ Took(t)
    BY <1>1, <2>1 DEF SessionBacked
  <2> QED
    BY <2>2 DEF Redeemed, Finishing
<1> QED
  BY <1>2, <1>3

LEMMA GrantsFollow ==
  ASSUME CeremonyInv, CodeInv, BindingInv, GrantInv
  PROVE  GrantedOnceToWhoBegan
<1>1. ASSUME NEW t \in Calls, NEW u \in Calls, Granted(t), Granted(u),
             \/ request[t].op = "callback" /\ request[u].op = "callback" /\ request[t].code = request[u].code
             \/ request[t].op \in Finishing /\ request[u].op \in Finishing
                /\ request[t].ceremony = request[u].ceremony
      PROVE  t = u
  <2>1. CASE request[t].op = "callback" /\ request[u].op = "callback" /\ request[t].code = request[u].code
    <3>1. Redeemed(t) /\ Redeemed(u)
      BY <1>1, <2>1, GrantedBy
    <3> QED
      BY <2>1, <3>1 DEF CodeInv
  <2>2. CASE request[t].op \in Finishing /\ request[u].op \in Finishing /\ request[t].ceremony = request[u].ceremony
    <3>1. Took(t) /\ Took(u)
      BY <1>1, <2>2, GrantedBy
    <3> QED
      BY <2>2, <3>1 DEF CeremonyInv
  <2> QED
    BY <1>1, <2>1, <2>2
<1>2. ASSUME NEW t \in Calls, Granted(t), request[t].op \in Finishing
      PROVE  LET b == Beginning(request[t].ceremony)
             IN  /\ request[b].client = request[t].client
                 /\ request[t].op = "finish_passkey" =>
                      /\ request[b].session = request[t].session
                      /\ passkeys[New[t]].account = sessions[request[b].session].account
  <2>1. Took(t)
    BY <1>2, GrantedBy
  <2>2. PICK b \in Calls :
          /\ Began(b, request[t].ceremony) /\ request[b].client = request[t].client
          /\ request[t].op = "finish_passkey" => request[b].session = request[t].session
    BY <2>1 DEF CeremonyInv, ByBeginner
  <2>3. Beginning(request[t].ceremony) = b
    BY <2>2, BeginningIs DEF Began
  <2>4. request[t].op = "finish_passkey" =>
          passkeys[New[t]].account = sessions[request[t].session].account
    BY <1>2, GrantedBy
  <2> QED
    BY <2>2, <2>3, <2>4
<1>3. ASSUME NEW t \in Calls, Granted(t), request[t].op = "callback"
      PROVE  Browser[from[Beginning(request[t].authorization)].page] = Browser[from[t].page]
  <2>1. Redeemed(t) /\ OfBrowser(t)
    BY <1>3, GrantedBy DEF BindingInv
  <2>2. at[t] \notin {0, 1}
    BY <2>1 DEF Redeemed, Later
  <2>3. /\ BoundTo(request[t].binding, Browser[from[t].page])
        /\ request[t].authorization = request[t].binding.authorization
    BY <2>1, <2>2 DEF OfBrowser
  <2>4. PICK s \in Calls :
          New[s] = request[t].authorization /\ Browser[from[s].page] = Browser[from[t].page]
    BY <2>3 DEF BoundTo
  <2> QED
    BY <2>4, BeginningIs
<1> QED
  BY <1>1, <1>2, <1>3 DEF GrantedOnceToWhoBegan, Finishing

(* A ceremony or an authorization code brings at most one session or passkey *)
(* about, however many requests come with it and however their handlers      *)
(* interleave, and only for the browser, and in registration the session,    *)
(* that began it.                                                            *)
THEOREM GrantsAreOnceToWhoBegan == Spec => []GrantedOnceToWhoBegan
<1>1. TInv /\ GrantStrengthening /\ [Next]_vars => GrantStrengthening'
  BY FreshStep, CeremonyStep, CodeStep, BindingStep, GrantStep DEF GrantStrengthening
<1>2. GrantStrengthening => GrantedOnceToWhoBegan
  BY GrantsFollow DEF GrantStrengthening
<1> QED
  BY <1>1, <1>2, GrantStart, Typed, PTL DEF Spec

=============================================================================
