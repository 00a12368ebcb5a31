---------------------------- MODULE MessageWrite ----------------------------
(***************************************************************************)
(* The message write path of kovcheg: the PostgreSQL transaction behind    *)
(*   SELECT ... FROM kovcheg.create_text_message_for_session(...)          *)
(* run by many API instances at once, together with the administrative     *)
(* transactions that change who may post.                                  *)
(*                                                                         *)
(* PostgreSQL runs every statement at READ COMMITTED: a statement sees     *)
(* what was committed when it started.  One action below is one statement  *)
(* (or a run of statements between which nothing another transaction can   *)
(* do matters) of one call.  Row locks and the advisory lock a call holds  *)
(* until it ends are derived from its phase: see the Holds operators.      *)
(* An administrative transaction is one action, its commit: before that    *)
(* its row locks only make others wait; the lock orders that can make      *)
(* transactions wait for each other in a circle are not this module's      *)
(* concern.                                                                *)
(*                                                                         *)
(* Definitions named X_<change> are mutants: X with one plausible mistake. *)
(* No behaviour uses them; they show that the properties can fail.         *)
(***************************************************************************)
EXTENDS Integers, FiniteSets

CONSTANTS
  Chat,          \* chats
  Person,        \* accounts of kind 'person'
  Persona,       \* accounts of kind 'synthetic_system'
  Key,           \* client idempotency keys
  Body,          \* contents; the sha-256 fingerprint of a content stands for it
  DomainStatus,  \* values of kovcheg.domain_status
  Call,          \* executions of create_text_message_for_session
  Requests,      \* the requests clients may send
  RuledChat,     \* chats with rows in chat_domain_capability_rules
  ReadRule,      \* <<chat, status>> whose rule has can_read
  WriteRule,     \* <<chat, status>> whose rule has can_write
  MaxChanges     \* bound on administrative transactions

Account == Person \cup Persona

Request == [chat: Chat, operator: Person, sender: Account, key: Key, body: Body]

(* A request names a persona to act as, or its operator is the sender. *)
Sound(r) == r.sender \in Persona \/ r.sender = r.operator

ASSUME RequestsAssumption ==
  Requests \subseteq Request /\ \A r \in Requests : Sound(r)
ASSUME KindsAssumption == Person \cap Persona = {}
ASSUME RulesAssumption ==
  /\ RuledChat \subseteq Chat
  /\ ReadRule \subseteq RuledChat \X DomainStatus
  /\ WriteRule \subseteq ReadRule
ASSUME BoundAssumption == MaxChanges \in Nat

VARIABLES
  (* authorization facts, committed *)
  active,      \* accounts with status 'active'
  live,        \* persons whose session is not revoked
  granted,     \* <<operator, persona>> with an active operator grant
  domain,      \* the domain status of each person
  member,      \* <<chat, account>> with an active membership
  poster,      \* <<chat, account>> the posting policy of the chat admits
  periods,     \* rows of chat_membership_periods
  changes,     \* administrative transactions so far
  (* the message store, committed *)
  next,        \* chat_counters.next_sequence
  messages,    \* rows of messages
  outbox,      \* message.created rows of outbox_events
  audit,       \* message.created rows of audit_events
  (* calls *)
  request,     \* what each call was asked to do
  phase,       \* the statement each call runs next
  sequence,    \* chat_sequence of the row a call inserted or found, or 0
  wrote,       \* uncommitted writes of each call
  answer       \* what the caller got back

authority == <<active, live, granted, domain, member, poster, periods, changes>>
store == <<next, messages, outbox, audit>>
calls == <<request, phase, sequence, wrote, answer>>
vars == <<authority, store, calls>>

Message == [chat: Chat, sender: Account, key: Key, body: Body, seq: Nat]
OutboxEvent == [chat: Chat, sender: Account, seq: Nat]
AuditEvent == [chat: Chat, actor: Person, seq: Nat]
Period == [chat: Chat, account: Account, after: Nat, upto: Nat, open: BOOLEAN]

Phase == {"operator", "session", "grant", "check", "key", "recheck",
          "insert", "events", "commit", "done"}
Answer == {"none", "created", "replayed", "rejected", "lost"}

-----------------------------------------------------------------------------
(* The message, outbox and audit rows of a call; actor is the operator, and *)
(* the public sender is the persona when the call acts as one.              *)
MessageOf(t) == [chat |-> request[t].chat, sender |-> request[t].sender,
                 key |-> request[t].key, body |-> request[t].body,
                 seq |-> sequence[t]]
OutboxEventOf_Operator(t) == [chat |-> request[t].chat, sender |-> request[t].operator,
                              seq |-> sequence[t]]
OutboxEventOf(t) == [chat |-> request[t].chat, sender |-> request[t].sender,
                     seq |-> sequence[t]]
AuditEventOf(t) == [chat |-> request[t].chat, actor |-> request[t].operator,
                    seq |-> sequence[t]]

ActsAs(t) == request[t].sender # request[t].operator

SameKey(x, y) == x.chat = y.chat /\ x.sender = y.sender /\ x.key = y.key

(* The FOR SHARE row locks of a call, held until its transaction ends. *)
HoldsAccount(t, a) ==
  \/ a = request[t].operator /\ phase[t] \notin {"operator", "done"}
  \/ /\ ActsAs(t) /\ a = request[t].sender
     /\ phase[t] \notin {"operator", "session", "grant", "done"}
HoldsSession_NotLocked(t, p) == FALSE
HoldsSession(t, p) ==
  p = request[t].operator /\ phase[t] \notin {"operator", "session", "done"}
HoldsGrant(t, p, s) ==
  /\ ActsAs(t) /\ p = request[t].operator /\ s = request[t].sender
  /\ phase[t] \notin {"operator", "session", "grant", "done"}

HoldsKey_SessionLock(t) == phase[t] \in {"recheck", "insert", "events", "commit", "done"}

(* The advisory transaction lock on the idempotency key of a call. *)
HoldsKey(t) == phase[t] \in {"recheck", "insert", "events", "commit"}

(* The row lock on the counter of its chat that a call's UPDATE took. *)
HoldsCounter(t) == "message" \in wrote[t]

(* can_account_post_to_chat; poster stands for the posting policy, the *)
(* chat administrators and the platform roles a policy admits.         *)
CanPost(a, c) ==
  /\ a \in active
  /\ <<c, a>> \in member
  /\ (a \in Person /\ c \in RuledChat) => <<c, domain[a]>> \in WriteRule
  /\ <<c, a>> \in poster

-----------------------------------------------------------------------------
Goto(t, p) == phase' = [phase EXCEPT ![t] = p]

(* A transaction that ends without a commit leaves none of its writes. *)
RollBack(t, a) ==
  /\ Goto(t, "done")
  /\ wrote' = [wrote EXCEPT ![t] = {}]
  /\ answer' = [answer EXCEPT ![t] = a]
  /\ UNCHANGED <<authority, store, request, sequence>>

Proceed(t, p) ==
  /\ Goto(t, p)
  /\ UNCHANGED <<authority, store, request, sequence, wrote, answer>>

(* FOR SHARE of the operator's account, which must be an active person. *)
LockOperator(t) ==
  /\ phase[t] = "operator"
  /\ IF request[t].operator \in active
     THEN Proceed(t, "session") ELSE RollBack(t, "rejected")

(* FOR SHARE of the session, which must not be revoked. Whether p_now, read *)
(* from the API's clock before the call, is inside the session's window is  *)
(* left open: the window may have closed at any time.                       *)
LockSession(t) ==
  /\ phase[t] = "session"
  /\ \/ /\ request[t].operator \in live
        /\ Proceed(t, IF ActsAs(t) THEN "grant" ELSE "check")
     \/ RollBack(t, "rejected")

(* FOR SHARE of the persona's account and of the exact operator grant. *)
LockGrant(t) ==
  /\ phase[t] = "grant"
  /\ IF /\ request[t].sender \in active
        /\ <<request[t].operator, request[t].sender>> \in granted
     THEN Proceed(t, "check") ELSE RollBack(t, "rejected")

(* write_text_message: operator and public sender must both be able to post. *)
CheckPosting(t) ==
  /\ phase[t] = "check"
  /\ IF /\ CanPost(request[t].operator, request[t].chat)
        /\ CanPost(request[t].sender, request[t].chat)
     THEN Proceed(t, "key") ELSE RollBack(t, "rejected")

ClaimKey_NoWait(t) ==
  /\ phase[t] = "key"
  /\ IF \E m \in messages : SameKey(m, request[t])
     THEN RollBack(t, "rejected") ELSE Proceed(t, "recheck")

ClaimKey_AnyBody(t) ==
  /\ phase[t] = "key"
  /\ \A u \in Call \ {t} : HoldsKey(u) => ~SameKey(request[u], request[t])
  /\ LET found == {m \in messages : SameKey(m, request[t])}
     IN  \/ found = {} /\ Proceed(t, "recheck")
         \/ \E m \in found :
              /\ Goto(t, "commit")
              /\ sequence' = [sequence EXCEPT ![t] = m.seq]
              /\ UNCHANGED <<authority, store, request, wrote, answer>>

(* assign_chat_sequence, first half: wait for the idempotency key, then look *)
(* for the message it already made. A retry of the same content ends as a    *)
(* replay of that row; other content is refused.                             *)
ClaimKey(t) ==
  /\ phase[t] = "key"
  /\ \A u \in Call \ {t} : HoldsKey(u) => ~SameKey(request[u], request[t])
  /\ LET found == {m \in messages : SameKey(m, request[t])}
     IN  \/ /\ found = {}
            /\ Proceed(t, "recheck")
         \/ \E m \in found :
              IF m.body = request[t].body
              THEN /\ Goto(t, "commit")
                   /\ sequence' = [sequence EXCEPT ![t] = m.seq]
                   /\ UNCHANGED <<authority, store, request, wrote, answer>>
              ELSE RollBack(t, "rejected")

(* assign_chat_sequence: the sender is checked again under the key's lock. *)
RecheckPosting(t) ==
  /\ phase[t] = "recheck"
  /\ IF CanPost(request[t].sender, request[t].chat)
     THEN Proceed(t, "insert") ELSE RollBack(t, "rejected")

InsertMessage_FromSequence(t) ==
  /\ phase[t] = "insert"
  /\ Goto(t, "events")
  /\ sequence' = [sequence EXCEPT ![t] = next[request[t].chat]]
  /\ next' = [next EXCEPT ![request[t].chat] = @ + 1]
  /\ wrote' = [wrote EXCEPT ![t] = {"message"}]
  /\ UNCHANGED <<authority, messages, outbox, audit, request, answer>>

(* allocate_chat_sequence waits for the counter's row lock and takes the next *)
(* number; the row goes in with that number, and its first version with it.   *)
InsertMessage(t) ==
  /\ phase[t] = "insert"
  /\ \A u \in Call : HoldsCounter(u) => request[u].chat # request[t].chat
  /\ Goto(t, "events")
  /\ sequence' = [sequence EXCEPT ![t] = next[request[t].chat]]
  /\ wrote' = [wrote EXCEPT ![t] = {"message"}]
  /\ UNCHANGED <<authority, store, request, answer>>

(* The outbox row, then the audit row. *)
WriteEvents(t) ==
  /\ phase[t] = "events"
  /\ Goto(t, "commit")
  /\ wrote' = [wrote EXCEPT ![t] = @ \cup {"events"}]
  /\ UNCHANGED <<authority, store, request, sequence, answer>>

(* The transaction commits. The caller learns it, or loses the connection. *)
Commit(t) ==
  /\ phase[t] = "commit"
  /\ IF "message" \in wrote[t]
     THEN /\ messages' = messages \cup {MessageOf(t)}
          /\ next' = [next EXCEPT ![request[t].chat] = sequence[t] + 1]
     ELSE UNCHANGED <<messages, next>>
  /\ IF "events" \in wrote[t]
     THEN /\ outbox' = outbox \cup {OutboxEventOf(t)}
          /\ audit' = audit \cup {AuditEventOf(t)}
     ELSE UNCHANGED <<outbox, audit>>
  /\ Goto(t, "done")
  /\ wrote' = [wrote EXCEPT ![t] = {}]
  /\ \E a \in {IF "message" \in wrote[t] THEN "created" ELSE "replayed", "lost"} :
       answer' = [answer EXCEPT ![t] = a]
  /\ UNCHANGED <<authority, request, sequence>>

(* A statement fails, the API or the connection dies: everything is undone. *)
Fail(t) == phase[t] # "done" /\ RollBack(t, "lost")

-----------------------------------------------------------------------------
(* Administrative transactions, at their commit. *)
Change == changes < MaxChanges /\ changes' = changes + 1

(* admin_set_auth_account_status: the account row is locked FOR UPDATE, and *)
(* deactivation revokes the sessions.                                       *)
Deactivate(p) ==
  /\ Change
  /\ \A t \in Call : ~HoldsAccount(t, p) /\ ~HoldsSession(t, p)
  /\ active' = active \ {p}
  /\ live' = live \ {p}
  /\ UNCHANGED <<granted, domain, member, poster, periods, store, calls>>

(* Sign-out, or an administrator's revocation of a session. *)
RevokeSession(p) ==
  /\ Change
  /\ \A t \in Call : ~HoldsSession(t, p)
  /\ live' = live \ {p}
  /\ UNCHANGED <<active, granted, domain, member, poster, periods, store, calls>>

(* admin_grant_system_persona_operator locks both accounts and the grant. *)
GrantPersona(p, s) ==
  /\ Change
  /\ \A t \in Call : ~HoldsAccount(t, p) /\ ~HoldsAccount(t, s)
  /\ {p, s} \subseteq active /\ <<p, s>> \notin granted
  /\ granted' = granted \cup {<<p, s>>}
  /\ UNCHANGED <<active, live, domain, member, poster, periods, store, calls>>

RevokePersona_NoWait(p, s) ==
  /\ Change
  /\ granted' = granted \ {<<p, s>>}
  /\ UNCHANGED <<active, live, domain, member, poster, periods, store, calls>>

(* admin_revoke_system_persona_operator updates the grant row only. *)
RevokePersona(p, s) ==
  /\ Change
  /\ \A t \in Call : ~HoldsGrant(t, p, s)
  /\ granted' = granted \ {<<p, s>>}
  /\ UNCHANGED <<active, live, domain, member, poster, periods, store, calls>>

(* set_chat_administrator_for_session and the platform role grants change who *)
(* the posting policy admits, and take no lock a posting call takes.          *)
ChangePosting(c, p) ==
  /\ Change
  /\ \E admitted \in {poster \cup {<<c, p>>}, poster \ {<<c, p>>}} : poster' = admitted
  /\ UNCHANGED <<active, live, granted, domain, member, periods, store, calls>>

(* track_chat_membership_period: the boundary is the last allocated sequence, *)
(* read from the counter without a lock.                                      *)
Boundary_BeforeLast(c) == next[c] - 2
Boundary(c) == next[c] - 1
Opened_FromStart(c, p) == [chat |-> c, account |-> p, after |-> 0, upto |-> 0, open |-> TRUE]
Opened(c, p) == [chat |-> c, account |-> p, after |-> Boundary(c), upto |-> 0, open |-> TRUE]
Closed(d) == [d EXCEPT !.upto = Boundary(d.chat), !.open = FALSE]

(* admin_set_domain_status: every ruled chat the new status can read is joined *)
(* (again), every other one is left. No lock of a posting call is needed.      *)
SetDomainStatus(p, d) ==
  LET readable == {c \in RuledChat : <<c, d>> \in ReadRule}
      joined == {c \in readable : <<c, p>> \notin member}
      left == {c \in RuledChat \ readable : <<c, p>> \in member}
      ended == {e \in periods : e.account = p /\ e.chat \in left /\ e.open}
  IN  /\ Change
      /\ domain' = [domain EXCEPT ![p] = d]
      /\ member' = (member \ (left \X {p})) \cup (joined \X {p})
      /\ periods' = (periods \ ended) \cup {Closed(e) : e \in ended}
                      \cup {Opened(c, p) : c \in joined}
      /\ UNCHANGED <<active, live, granted, poster, store, calls>>

-----------------------------------------------------------------------------
(* Everyone starts active, in every chat, with posting rights; persons have a *)
(* live session and a domain status that can write.                           *)
Init ==
  /\ active = Account
  /\ live = Person
  /\ granted = Person \X Persona
  /\ domain \in [Person -> {d \in DomainStatus : RuledChat \X {d} \subseteq WriteRule}]
  /\ member = Chat \X Account
  /\ poster = Chat \X Account
  /\ periods = [chat: Chat, account: Account, after: {0}, upto: {0}, open: {TRUE}]
  /\ changes = 0
  /\ next = [c \in Chat |-> 1]
  /\ messages = {} /\ outbox = {} /\ audit = {}
  /\ request \in [Call -> Requests]
  /\ phase = [t \in Call |-> "operator"]
  /\ sequence = [t \in Call |-> 0]
  /\ wrote = [t \in Call |-> {}]
  /\ answer = [t \in Call |-> "none"]

Step(t) ==
  \/ LockOperator(t) \/ LockSession(t) \/ LockGrant(t) \/ CheckPosting(t)
  \/ ClaimKey(t) \/ RecheckPosting(t) \/ InsertMessage(t) \/ WriteEvents(t)
  \/ Commit(t)

Administer ==
  \/ \E p \in Person : Deactivate(p) \/ RevokeSession(p)
  \/ \E p \in Person, s \in Persona : GrantPersona(p, s) \/ RevokePersona(p, s)
  \/ \E c \in Chat, p \in Person : ChangePosting(c, p)
  \/ \E p \in Person, d \in DomainStatus : SetDomainStatus(p, d)

Next == (\E t \in Call : Step(t) \/ Fail(t)) \/ Administer

Spec == Init /\ [][Next]_vars

-----------------------------------------------------------------------------
TypeOK ==
  /\ active \in SUBSET Account /\ live \in SUBSET Person
  /\ granted \in SUBSET (Person \X Persona)
  /\ domain \in [Person -> DomainStatus]
  /\ member \in SUBSET (Chat \X Account) /\ poster \in SUBSET (Chat \X Account)
  /\ periods \in SUBSET Period
  /\ changes \in Nat
  /\ next \in [Chat -> Nat \ {0}]
  /\ messages \in SUBSET Message
  /\ outbox \in SUBSET OutboxEvent /\ audit \in SUBSET AuditEvent
  /\ request \in [Call -> Requests]
  /\ phase \in [Call -> Phase]
  /\ sequence \in [Call -> Nat]
  /\ wrote \in [Call -> SUBSET {"message", "events"}]
  /\ answer \in [Call -> Answer]

(* The committed sequences of a chat are exactly 1 .. next_sequence - 1, each *)
(* used once: rolled back and replayed calls leave no hole, and a reader that *)
(* follows afterSequence can trust that nothing will appear behind it.        *)
SequencesHaveNoGaps ==
  /\ \A m \in messages : m.seq \in 1 .. next[m.chat] - 1
  /\ \A c \in Chat : \A n \in 1 .. next[c] - 1 :
       \E m \in messages : m.chat = c /\ m.seq = n
  /\ \A m, n \in messages : m.chat = n.chat /\ m.seq = n.seq => m = n

(* However many calls with one (chat, sender, client key) race, fail and are *)
(* retried, at most one message comes of them.                               *)
OneMessagePerKey == \A m, n \in messages : SameKey(m, n) => m = n

(* The row locks of a call keep true what it was authorized by. *)
AuthorityLocked ==
  \A t \in Call :
    /\ HoldsAccount(t, request[t].operator) => request[t].operator \in active
    /\ HoldsSession(t, request[t].operator) => request[t].operator \in live
    /\ HoldsGrant(t, request[t].operator, request[t].sender)
       => <<request[t].operator, request[t].sender>> \in granted

(* One call at a time has a number of a chat that is not committed: the next. *)
CounterLocked ==
  /\ \A t \in Call : HoldsCounter(t) => sequence[t] = next[request[t].chat]
  /\ \A t, u \in Call :
       HoldsCounter(t) /\ HoldsCounter(u) /\ request[t].chat = request[u].chat => t = u

(* One call at a time works on a key. What it found there stays so: nothing, *)
(* if it is writing the message, and the row it repeats, if it is a replay.  *)
KeyLocked ==
  /\ \A t, u \in Call :
       HoldsKey(t) /\ HoldsKey(u) /\ SameKey(request[t], request[u]) => t = u
  /\ \A t \in Call :
       /\ phase[t] \in {"recheck", "insert", "events"} \/ HoldsCounter(t)
          => \A m \in messages : ~SameKey(m, request[t])
       /\ phase[t] = "commit" /\ ~HoldsCounter(t) => MessageOf(t) \in messages

(* The locks of a call protect what it relies on until its transaction ends. *)
LocksProtectCalls == AuthorityLocked /\ CounterLocked /\ KeyLocked

(* Outbox and audit hold exactly one message.created event per message, the  *)
(* outbox naming the public sender and the audit a person who may act as it. *)
EventsMatchMessages ==
  /\ outbox = {[chat |-> m.chat, sender |-> m.sender, seq |-> m.seq] : m \in messages}
  /\ \A m \in messages : \E e \in audit : e.chat = m.chat /\ e.seq = m.seq
  /\ \A e, f \in audit : e.chat = f.chat /\ e.seq = f.seq => e = f
  /\ \A e \in audit : \E m \in messages :
       /\ e.chat = m.chat /\ e.seq = m.seq
       /\ m.sender \in Persona \/ m.sender = e.actor

(* A caller told "created" or "replayed" finds exactly its content in the    *)
(* chat, and of all calls with one key at most one is told "created".        *)
AnswersMatchMessages ==
  /\ \A t \in Call : answer[t] \in {"created", "replayed"} => MessageOf(t) \in messages
  /\ \A t, u \in Call :
       /\ answer[t] = "created" /\ answer[u] = "created"
       /\ SameKey(request[t], request[u])
       => t = u

(* The membership periods of an account in a chat never overlap, and one is  *)
(* open exactly while the membership is active, although the boundary is read *)
(* from the counter while posting calls are running.                          *)
PeriodsAreOrdered ==
  /\ \A d, e \in periods :
       d.chat = e.chat /\ d.account = e.account /\ d # e
       => \/ ~d.open /\ d.upto <= e.after
          \/ ~e.open /\ e.upto <= d.after
  /\ \A d \in periods : ~d.open => d.after <= d.upto
  /\ \A c \in Chat, a \in Account :
       <<c, a>> \in member
       <=> \E d \in periods : d.chat = c /\ d.account = a /\ d.open

(* Messages become visible in the order of their sequences: a message that   *)
(* commits comes after everything already readable in its chat.              *)
CommitsFollowSequence ==
  [][\A m \in messages', n \in messages :
       m \notin messages /\ m.chat = n.chat => m.seq > n.seq]_vars

(* At the moment a message commits, its operator is still active with a live *)
(* session, and still holds the persona it speaks as: a revocation either    *)
(* waits for the message or stops it.                                        *)
CommittedWithAuthority ==
  [][\A t \in Call :
       "message" \in wrote[t] /\ messages' # messages /\ phase'[t] # phase[t]
       => /\ request[t].operator \in active'
          /\ request[t].operator \in live'
          /\ ActsAs(t) => <<request[t].operator, request[t].sender>> \in granted']_vars

(* The write path implements the log it promises: a call takes effect when it *)
(* commits, at the end of its chat.                                           *)
LogOf ==
  [c \in Chat |-> [i \in 1 .. next[c] - 1 |->
     LET m == CHOOSE x \in messages : x.chat = c /\ x.seq = i
     IN  [sender |-> m.sender, key |-> m.key, body |-> m.body]]]
Log == INSTANCE MessageLog WITH log <- LogOf
ImplementsLog == Log!Spec

(* Calls never wait for each other in a circle: while one has not ended, some *)
(* call's next statement can run, whatever keys, counters and rows are held.   *)
CallsNeverStall ==
  (\E t \in Call : phase[t] # "done") => \E t \in Call : ENABLED Step(t)
=============================================================================
