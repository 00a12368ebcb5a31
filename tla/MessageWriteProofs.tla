------------------------- MODULE MessageWriteProofs -------------------------
(***************************************************************************)
(* Theorems about MessageWrite, for any sets of chats, accounts, calls and *)
(* requests and any number of administrative transactions.                 *)
(***************************************************************************)
EXTENDS MessageWrite, SequenceTheorems, TLAPS

-----------------------------------------------------------------------------
(* Type correctness. *)

LEMMA RollBackType ==
  ASSUME TypeOK, NEW t \in Call, NEW a \in Answer, RollBack(t, a)
  PROVE  TypeOK'
BY DEF TypeOK, RollBack, Goto, Phase, authority, store

LEMMA ProceedType ==
  ASSUME TypeOK, NEW t \in Call, NEW p \in Phase, Proceed(t, p)
  PROVE  TypeOK'
BY DEF TypeOK, Proceed, Goto, authority, store

LEMMA RequestFacts ==
  ASSUME TypeOK, NEW t \in Call
  PROVE  /\ request[t] \in Request
         /\ Sound(request[t])
         /\ MessageOf(t) \in Message
         /\ OutboxEventOf(t) \in OutboxEvent
         /\ AuditEventOf(t) \in AuditEvent
BY RequestsAssumption DEF TypeOK, Request, MessageOf, Message, OutboxEventOf, OutboxEvent,
   AuditEventOf, AuditEvent

LEMMA StepType ==
  ASSUME TypeOK, NEW t \in Call, Step(t)
  PROVE  TypeOK'
<1>1. CASE LockOperator(t)
  BY <1>1, RollBackType, ProceedType DEF LockOperator, Phase, Answer
<1>2. CASE LockSession(t)
  BY <1>2, RollBackType, ProceedType DEF LockSession, Phase, Answer
<1>3. CASE LockGrant(t)
  BY <1>3, RollBackType, ProceedType DEF LockGrant, Phase, Answer
<1>4. CASE CheckPosting(t)
  BY <1>4, RollBackType, ProceedType DEF CheckPosting, Phase, Answer
<1>5. CASE ClaimKey(t)
  <2>1. CASE Proceed(t, "recheck")
    BY <2>1, ProceedType DEF Phase
  <2>2. CASE RollBack(t, "rejected")
    BY <2>2, RollBackType DEF Answer
  <2>3. CASE \E m \in messages :
               /\ Goto(t, "commit")
               /\ sequence' = [sequence EXCEPT ![t] = m.seq]
               /\ UNCHANGED <<authority, store, request, wrote, answer>>
    BY <2>3 DEF TypeOK, Goto, Phase, Message, authority, store
  <2> QED BY <1>5, <2>1, <2>2, <2>3 DEF ClaimKey
<1>6. CASE RecheckPosting(t)
  BY <1>6, RollBackType, ProceedType DEF RecheckPosting, Phase, Answer
<1>7. CASE InsertMessage(t)
  BY <1>7, RequestFacts DEF InsertMessage, TypeOK, Goto, Phase, Request, authority, store
<1>8. CASE WriteEvents(t)
  BY <1>8 DEF WriteEvents, TypeOK, Goto, Phase, authority, store
<1>9. CASE Commit(t)
  <2>1. /\ messages' \in SUBSET Message /\ outbox' \in SUBSET OutboxEvent
        /\ audit' \in SUBSET AuditEvent
    BY <1>9, RequestFacts DEF Commit, TypeOK
  <2>2. next' \in [Chat -> Nat \ {0}]
    BY <1>9, RequestFacts DEF Commit, TypeOK, Request
  <2>3. answer' \in [Call -> Answer]
    BY <1>9 DEF Commit, TypeOK, Answer
  <2>4. phase' \in [Call -> Phase] /\ wrote' \in [Call -> SUBSET {"message", "events"}]
    BY <1>9 DEF Commit, TypeOK, Goto, Phase
  <2> QED BY <1>9, <2>1, <2>2, <2>3, <2>4 DEF Commit, TypeOK, authority
<1> QED BY <1>1, <1>2, <1>3, <1>4, <1>5, <1>6, <1>7, <1>8, <1>9 DEF Step

LEMMA DomainType ==
  ASSUME TypeOK, NEW p \in Person, NEW d \in DomainStatus, SetDomainStatus(p, d)
  PROVE  TypeOK'
<1> DEFINE readable == {c \in RuledChat : <<c, d>> \in ReadRule}
           joined == {c \in readable : <<c, p>> \notin member}
           left == {c \in RuledChat \ readable : <<c, p>> \in member}
           ended == {e \in periods : e.account = p /\ e.chat \in left /\ e.open}
<1>1. readable \subseteq Chat /\ joined \subseteq Chat /\ left \subseteq Chat
      /\ ended \subseteq periods
  BY RulesAssumption
<1>2. member' \in SUBSET (Chat \X Account)
  BY <1>1 DEF SetDomainStatus, TypeOK, Account
<1>3. ASSUME NEW e \in periods PROVE Closed(e) \in Period
  <2>1. e \in Period /\ e.chat \in Chat /\ Boundary(e.chat) \in Nat
    BY DEF TypeOK, Boundary, Period
  <2> QED BY <2>1 DEF Closed, Period
<1>4. \A c \in Chat : Opened(c, p) \in Period
  BY DEF TypeOK, Opened, Boundary, Period, Account
<1>5. periods' = (periods \ ended) \cup {Closed(e) : e \in ended}
                  \cup {Opened(c, p) : c \in joined}
  BY DEF SetDomainStatus
<1>6. periods' \in SUBSET Period
  BY <1>1, <1>3, <1>4, <1>5 DEF TypeOK
<1>7. domain' \in [Person -> DomainStatus] /\ changes' \in Nat
  BY DEF SetDomainStatus, TypeOK, Change
<1> QED BY <1>2, <1>6, <1>7 DEF SetDomainStatus, TypeOK, store, calls

LEMMA AdministerType ==
  ASSUME TypeOK, Administer
  PROVE  TypeOK'
<1>1. ASSUME NEW p \in Person, Deactivate(p) \/ RevokeSession(p)
      PROVE  TypeOK'
  BY <1>1 DEF TypeOK, Deactivate, RevokeSession, Change, store, calls
<1>2. ASSUME NEW p \in Person, NEW s \in Persona, GrantPersona(p, s) \/ RevokePersona(p, s)
      PROVE  TypeOK'
  BY <1>2 DEF TypeOK, GrantPersona, RevokePersona, Change, store, calls
<1>3. ASSUME NEW c \in Chat, NEW p \in Person, ChangePosting(c, p)
      PROVE  TypeOK'
  BY <1>3 DEF TypeOK, ChangePosting, Change, Account, store, calls
<1> QED BY <1>1, <1>2, <1>3, DomainType DEF Administer

LEMMA InitType == Init => TypeOK
<1> SUFFICES ASSUME Init PROVE TypeOK
  OBVIOUS
<1>1. periods = [chat: Chat, account: Account, after: {0}, upto: {0}, open: {TRUE}]
  BY DEF Init
<1>2. periods \in SUBSET Period
  <2> SUFFICES ASSUME NEW e \in periods PROVE e \in Period
    OBVIOUS
  <2>1. PICK c \in Chat, a \in Account :
          e = [chat |-> c, account |-> a, after |-> 0, upto |-> 0, open |-> TRUE]
    BY <1>1
  <2> QED BY <2>1 DEF Period
<1>3. /\ active \in SUBSET Account /\ live \in SUBSET Person
      /\ granted \in SUBSET (Person \X Persona)
      /\ domain \in [Person -> DomainStatus]
      /\ member \in SUBSET (Chat \X Account) /\ poster \in SUBSET (Chat \X Account)
  BY DEF Init, Account
<1>4. /\ changes \in Nat
      /\ next \in [Chat -> Nat \ {0}]
      /\ messages \in SUBSET Message
      /\ outbox \in SUBSET OutboxEvent /\ audit \in SUBSET AuditEvent
  BY DEF Init
<1>5. /\ request \in [Call -> Requests]
      /\ phase \in [Call -> Phase]
      /\ sequence \in [Call -> Nat]
      /\ wrote \in [Call -> SUBSET {"message", "events"}]
      /\ answer \in [Call -> Answer]
  BY DEF Init, Phase, Answer
<1> QED BY <1>2, <1>3, <1>4, <1>5 DEF TypeOK

LEMMA NextType == TypeOK /\ [Next]_vars => TypeOK'
<1> SUFFICES ASSUME TypeOK, [Next]_vars PROVE TypeOK'
  OBVIOUS
<1>1. ASSUME NEW t \in Call, Fail(t) PROVE TypeOK'
  BY <1>1, RollBackType DEF Fail, Answer
<1>2. CASE Next
  BY <1>1, <1>2, StepType, AdministerType DEF Next
<1>3. CASE UNCHANGED vars
  BY <1>3 DEF TypeOK, vars, authority, store, calls
<1> QED BY <1>2, <1>3

(* Every reachable state is well typed. *)
THEOREM TypeCorrect == Spec => []TypeOK
BY InitType, NextType, PTL DEF Spec

-----------------------------------------------------------------------------
(* The inductive invariant.  None of the store's properties is inductive by  *)
(* itself: that a commit fills the next number, once per key, rests on what  *)
(* the locks of the committing call protect, and the locks of a call follow  *)
(* from how far it is.                                                       *)
PhasesAgree ==
  \A t \in Call :
    /\ phase[t] = "events" => wrote[t] = {"message"}
    /\ phase[t] = "commit" => wrote[t] \in {{}, {"message", "events"}}
    /\ phase[t] \notin {"events", "commit"} => wrote[t] = {}
    /\ answer[t] # "none" => phase[t] = "done"

Store == SequencesHaveNoGaps /\ OneMessagePerKey /\ EventsMatchMessages

IInv == TypeOK /\ PhasesAgree /\ LocksProtectCalls /\ Store /\ AnswersMatchMessages

LEMMA StoreUnchanged ==
  ASSUME Store, UNCHANGED store
  PROVE  Store'
BY DEF Store, SequencesHaveNoGaps, OneMessagePerKey, EventsMatchMessages, store

LEMMA RollBackInv ==
  ASSUME IInv, NEW t \in Call, NEW a \in Answer \ {"created", "replayed"}, RollBack(t, a)
  PROVE  IInv'
<1> USE DEF IInv
<1>1. TypeOK'
  BY RollBackType
<1>2. PhasesAgree'
  BY DEF PhasesAgree, RollBack, Goto, TypeOK
<1>3. AuthorityLocked'
  BY DEF LocksProtectCalls, AuthorityLocked, HoldsAccount, HoldsSession, HoldsGrant, ActsAs,
     RollBack, Goto, TypeOK, authority
<1>4. CounterLocked'
  BY DEF LocksProtectCalls, CounterLocked, HoldsCounter, RollBack, Goto, TypeOK, store
<1>5. KeyLocked'
  BY DEF LocksProtectCalls, KeyLocked, HoldsKey, HoldsCounter, MessageOf, SameKey,
     RollBack, Goto, TypeOK, store
<1>6. Store'
  BY StoreUnchanged DEF RollBack
<1>7. AnswersMatchMessages'
  BY DEF AnswersMatchMessages, MessageOf, RollBack, TypeOK, store
<1> QED BY <1>1, <1>2, <1>3, <1>4, <1>5, <1>6, <1>7 DEF LocksProtectCalls

(* The statements that authorize a call take its row locks one by one. *)
LEMMA AuthorizeInv ==
  ASSUME IInv, NEW t \in Call, NEW p \in {"session", "grant", "check", "key"},
         Proceed(t, p),
         phase[t] \in {"operator", "session", "grant", "check"},
         p = "session" => request[t].operator \in active,
         p \in {"grant", "check"} /\ phase[t] = "session" => request[t].operator \in live,
         p = "check" /\ phase[t] = "session" => ~ActsAs(t),
         phase[t] = "grant" => <<request[t].operator, request[t].sender>> \in granted,
         p = "session" => phase[t] = "operator",
         p = "grant" => phase[t] = "session",
         p = "check" => phase[t] \in {"session", "grant"},
         p = "key" => phase[t] = "check"
  PROVE  IInv'
<1> USE DEF IInv
<1>1. TypeOK'
  BY ProceedType DEF Phase
<1>2. PhasesAgree'
  BY DEF PhasesAgree, Proceed, Goto, TypeOK
<1>3. AuthorityLocked'
  BY DEF LocksProtectCalls, AuthorityLocked, HoldsAccount, HoldsSession, HoldsGrant, ActsAs,
     Proceed, Goto, TypeOK, authority
<1>4. CounterLocked'
  BY DEF LocksProtectCalls, CounterLocked, HoldsCounter, Proceed, TypeOK, store
<1>5. KeyLocked'
  BY DEF LocksProtectCalls, KeyLocked, HoldsKey, HoldsCounter, MessageOf, SameKey,
     Proceed, Goto, TypeOK, store
<1>6. Store'
  BY StoreUnchanged DEF Proceed
<1>7. AnswersMatchMessages'
  BY DEF AnswersMatchMessages, MessageOf, Proceed, TypeOK, store
<1> QED BY <1>1, <1>2, <1>3, <1>4, <1>5, <1>6, <1>7 DEF LocksProtectCalls

LEMMA ClaimKeyInv ==
  ASSUME IInv, NEW t \in Call, ClaimKey(t)
  PROVE  IInv'
<1> USE DEF IInv
<1>1. CASE {m \in messages : SameKey(m, request[t])} = {} /\ Proceed(t, "recheck")
  <2>1. TypeOK'
    BY <1>1, ProceedType DEF Phase
  <2>2. PhasesAgree'
    BY <1>1 DEF ClaimKey, PhasesAgree, Proceed, Goto, TypeOK
  <2>3. AuthorityLocked'
    BY <1>1 DEF ClaimKey, LocksProtectCalls, AuthorityLocked, HoldsAccount, HoldsSession,
       HoldsGrant, ActsAs, Proceed, Goto, TypeOK, authority
  <2>4. CounterLocked'
    BY <1>1 DEF LocksProtectCalls, CounterLocked, HoldsCounter, Proceed, TypeOK, store
  <2>5. KeyLocked'
    BY <1>1 DEF ClaimKey, LocksProtectCalls, KeyLocked, HoldsKey, HoldsCounter, MessageOf,
       SameKey, Proceed, Goto, TypeOK, store
  <2>6. Store'
    BY <1>1, StoreUnchanged DEF Proceed
  <2>7. AnswersMatchMessages'
    BY <1>1 DEF AnswersMatchMessages, MessageOf, Proceed, TypeOK, store
  <2> QED BY <2>1, <2>2, <2>3, <2>4, <2>5, <2>6, <2>7 DEF LocksProtectCalls
<1>2. ASSUME NEW m \in messages, SameKey(m, request[t]), m.body = request[t].body,
             Goto(t, "commit"), sequence' = [sequence EXCEPT ![t] = m.seq],
             UNCHANGED <<authority, store, request, wrote, answer>>
      PROVE  IInv'
  <2>0. m = [chat |-> request[t].chat, sender |-> request[t].sender,
             key |-> request[t].key, body |-> request[t].body, seq |-> m.seq]
        /\ m.seq \in Nat
    BY <1>2 DEF TypeOK, Message, SameKey
  <2>1. TypeOK'
    BY <1>2, <2>0 DEF TypeOK, Goto, Phase, authority, store
  <2>2. PhasesAgree'
    BY <1>2 DEF ClaimKey, PhasesAgree, Goto, TypeOK
  <2>3. AuthorityLocked'
    BY <1>2 DEF ClaimKey, LocksProtectCalls, AuthorityLocked, HoldsAccount, HoldsSession,
       HoldsGrant, ActsAs, Goto, TypeOK, authority
  <2>4. CounterLocked'
    BY <1>2 DEF ClaimKey, PhasesAgree, LocksProtectCalls, CounterLocked, HoldsCounter, TypeOK,
       store
  <2>5. KeyLocked'
    BY <1>2, <2>0 DEF ClaimKey, PhasesAgree, LocksProtectCalls, KeyLocked, HoldsKey,
       HoldsCounter, MessageOf, SameKey, Goto, TypeOK, store
  <2>6. Store'
    BY <1>2, StoreUnchanged
  <2>7. AnswersMatchMessages'
    BY <1>2 DEF ClaimKey, PhasesAgree, AnswersMatchMessages, MessageOf, TypeOK, store
  <2> QED BY <2>1, <2>2, <2>3, <2>4, <2>5, <2>6, <2>7 DEF LocksProtectCalls
<1>3. CASE RollBack(t, "rejected")
  BY <1>3, RollBackInv DEF Answer
<1> QED BY <1>1, <1>2, <1>3 DEF ClaimKey

LEMMA RecheckInv ==
  ASSUME IInv, NEW t \in Call, RecheckPosting(t)
  PROVE  IInv'
<1> USE DEF IInv
<1>1. CASE Proceed(t, "insert")
  <2>1. TypeOK'
    BY <1>1, ProceedType DEF Phase
  <2>2. PhasesAgree'
    BY <1>1 DEF RecheckPosting, PhasesAgree, Proceed, Goto, TypeOK
  <2>3. AuthorityLocked'
    BY <1>1 DEF RecheckPosting, LocksProtectCalls, AuthorityLocked, HoldsAccount, HoldsSession,
       HoldsGrant, ActsAs, Proceed, Goto, TypeOK, authority
  <2>4. CounterLocked'
    BY <1>1 DEF LocksProtectCalls, CounterLocked, HoldsCounter, Proceed, TypeOK, store
  <2>5. KeyLocked'
    BY <1>1 DEF RecheckPosting, LocksProtectCalls, KeyLocked, HoldsKey, HoldsCounter,
       MessageOf, SameKey, Proceed, Goto, TypeOK, store
  <2>6. Store'
    BY <1>1, StoreUnchanged DEF Proceed
  <2>7. AnswersMatchMessages'
    BY <1>1 DEF AnswersMatchMessages, MessageOf, Proceed, TypeOK, store
  <2> QED BY <2>1, <2>2, <2>3, <2>4, <2>5, <2>6, <2>7 DEF LocksProtectCalls
<1>2. CASE RollBack(t, "rejected")
  BY <1>2, RollBackInv DEF Answer
<1> QED BY <1>1, <1>2 DEF RecheckPosting

LEMMA InsertInv ==
  ASSUME IInv, NEW t \in Call, InsertMessage(t)
  PROVE  IInv'
<1> USE DEF IInv
<1>1. TypeOK'
  BY StepType DEF Step
<1>2. PhasesAgree'
  BY DEF InsertMessage, PhasesAgree, Goto, TypeOK
<1>3. AuthorityLocked'
  BY DEF InsertMessage, LocksProtectCalls, AuthorityLocked, HoldsAccount, HoldsSession,
     HoldsGrant, ActsAs, Goto, TypeOK, authority
<1>4. CounterLocked'
  BY DEF InsertMessage, LocksProtectCalls, CounterLocked, HoldsCounter, TypeOK, store
<1>5. KeyLocked'
  BY DEF InsertMessage, LocksProtectCalls, KeyLocked, HoldsKey, HoldsCounter, MessageOf,
     SameKey, Goto, TypeOK, store
<1>6. Store'
  BY StoreUnchanged DEF InsertMessage
<1>7. AnswersMatchMessages'
  BY DEF InsertMessage, PhasesAgree, AnswersMatchMessages, MessageOf, TypeOK, store
<1> QED BY <1>1, <1>2, <1>3, <1>4, <1>5, <1>6, <1>7 DEF LocksProtectCalls

LEMMA EventsInv ==
  ASSUME IInv, NEW t \in Call, WriteEvents(t)
  PROVE  IInv'
<1> USE DEF IInv
<1>1. TypeOK'
  BY StepType DEF Step
<1>2. PhasesAgree'
  BY DEF WriteEvents, PhasesAgree, Goto, TypeOK
<1>3. AuthorityLocked'
  BY DEF WriteEvents, LocksProtectCalls, AuthorityLocked, HoldsAccount, HoldsSession,
     HoldsGrant, ActsAs, Goto, TypeOK, authority
<1>4. CounterLocked'
  BY DEF WriteEvents, LocksProtectCalls, CounterLocked, HoldsCounter, TypeOK, store
<1>5. KeyLocked'
  BY DEF WriteEvents, PhasesAgree, LocksProtectCalls, KeyLocked, HoldsKey, HoldsCounter,
     MessageOf, SameKey, Goto, TypeOK, store
<1>6. Store'
  BY StoreUnchanged DEF WriteEvents
<1>7. AnswersMatchMessages'
  BY DEF WriteEvents, AnswersMatchMessages, MessageOf, TypeOK, store
<1> QED BY <1>1, <1>2, <1>3, <1>4, <1>5, <1>6, <1>7 DEF LocksProtectCalls

(* A call that commits its message appends it to its chat. *)
LEMMA AppendInv ==
  ASSUME IInv, NEW t \in Call, Commit(t), "message" \in wrote[t]
  PROVE  IInv'
<1> DEFINE r == request[t]
           new == MessageOf(t)
<1> USE DEF IInv
<1>0. /\ r \in Request /\ Sound(r) /\ new \in Message
      /\ wrote[t] = {"message", "events"} /\ phase[t] = "commit"
  BY RequestFacts DEF Commit, PhasesAgree
<1>1. /\ messages' = messages \cup {new}
      /\ next' = [next EXCEPT ![r.chat] = sequence[t] + 1]
      /\ outbox' = outbox \cup {OutboxEventOf(t)}
      /\ audit' = audit \cup {AuditEventOf(t)}
      /\ request' = request /\ sequence' = sequence
      /\ wrote' = [wrote EXCEPT ![t] = {}]
      /\ phase' = [phase EXCEPT ![t] = "done"]
      /\ \E a \in {"created", "lost"} : answer' = [answer EXCEPT ![t] = a]
      /\ UNCHANGED authority
  BY <1>0 DEF Commit, Goto
<1>2. sequence[t] = next[r.chat] /\ next[r.chat] \in Nat \ {0} /\ r.chat \in Chat
  BY <1>0 DEF LocksProtectCalls, CounterLocked, HoldsCounter, TypeOK, Request
<1>3. \A m \in messages : ~SameKey(m, r)
  BY <1>0 DEF LocksProtectCalls, KeyLocked, HoldsCounter
<1>4. /\ next'[r.chat] = next[r.chat] + 1
      /\ \A c \in Chat \ {r.chat} : next'[c] = next[c]
      /\ new.chat = r.chat /\ new.seq = next[r.chat] /\ new.sender = r.sender
      /\ new.key = r.key /\ new.body = r.body
  BY <1>1, <1>2 DEF TypeOK, MessageOf
<1>5. \A m \in messages : m \in Message /\ m.chat \in Chat /\ m.seq \in 1 .. next[m.chat] - 1
                          /\ next[m.chat] \in Nat
  BY DEF TypeOK, Message, Store, SequencesHaveNoGaps
<1>6. TypeOK'
  BY StepType DEF Step
<1>7. PhasesAgree'
  BY <1>1 DEF PhasesAgree, TypeOK
<1>8. LocksProtectCalls'
  <2>1. AuthorityLocked'
    BY <1>1 DEF LocksProtectCalls, AuthorityLocked, HoldsAccount, HoldsSession, HoldsGrant,
       ActsAs, TypeOK, authority
  <2>2. CounterLocked'
    <3>1. ASSUME NEW u \in Call, HoldsCounter(u)'
          PROVE  u # t /\ HoldsCounter(u) /\ request[u].chat # r.chat /\ request[u].chat \in Chat
      <4>1. u # t /\ HoldsCounter(u)
        BY <1>1, <3>1 DEF HoldsCounter, TypeOK
      <4> QED BY <4>1, <1>0, RequestFacts DEF HoldsCounter, LocksProtectCalls, CounterLocked,
            Request
    <3> QED BY <3>1, <1>1, <1>4 DEF LocksProtectCalls, CounterLocked
  <2>3. KeyLocked'
    <3>1. ASSUME NEW u \in Call, HoldsKey(u)'
          PROVE  u # t /\ HoldsKey(u) /\ ~SameKey(request[u], r)
      <4>1. u # t /\ HoldsKey(u)
        BY <1>1, <3>1 DEF HoldsKey, TypeOK
      <4> QED BY <4>1, <1>0 DEF HoldsKey, LocksProtectCalls, KeyLocked
    <3>2. \A u, v \in Call :
            HoldsKey(u)' /\ HoldsKey(v)' /\ SameKey(request[u], request[v])' => u = v
      BY <3>1, <1>1 DEF LocksProtectCalls, KeyLocked, SameKey
    <3>3. ASSUME NEW u \in Call,
                 phase'[u] \in {"recheck", "insert", "events"} \/ HoldsCounter(u)',
                 NEW m \in messages'
          PROVE  ~SameKey(m, request'[u])
      <4>1. HoldsKey(u)' /\ u # t
        BY <1>1, <1>7, <3>3 DEF HoldsKey, HoldsCounter, PhasesAgree, TypeOK
      <4>2. phase[u] \in {"recheck", "insert", "events"} \/ HoldsCounter(u)
        BY <1>1, <3>3, <4>1 DEF HoldsCounter, TypeOK
      <4>3. CASE m \in messages
        BY <4>2, <4>3, <1>1 DEF LocksProtectCalls, KeyLocked
      <4>4. CASE m = new
        BY <4>4, <4>1, <3>1, <1>1, <1>4 DEF SameKey
      <4> QED BY <4>3, <4>4, <1>1
    <3>4. ASSUME NEW u \in Call, phase'[u] = "commit", ~HoldsCounter(u)'
          PROVE  MessageOf(u)' \in messages'
      <4>1. u # t /\ phase[u] = "commit" /\ ~HoldsCounter(u) /\ MessageOf(u)' = MessageOf(u)
        BY <3>4, <1>1 DEF HoldsCounter, MessageOf, TypeOK
      <4> QED BY <4>1, <1>1 DEF LocksProtectCalls, KeyLocked
    <3> QED BY <3>2, <3>3, <3>4 DEF KeyLocked
  <2> QED BY <2>1, <2>2, <2>3 DEF LocksProtectCalls
<1>9. Store'
  <2>1. SequencesHaveNoGaps'
    <3>1. \A m \in messages' : m.seq \in 1 .. next'[m.chat] - 1
      BY <1>1, <1>2, <1>4, <1>5
    <3>2. ASSUME NEW c \in Chat, NEW n \in 1 .. next'[c] - 1
          PROVE  \E m \in messages' : m.chat = c /\ m.seq = n
      <4>1. CASE n \in 1 .. next[c] - 1
        BY <4>1, <1>1 DEF Store, SequencesHaveNoGaps
      <4>2. CASE n \notin 1 .. next[c] - 1
        <5>1. c = r.chat /\ n = next[r.chat]
          BY <4>2, <1>2, <1>4
        <5> QED BY <5>1, <1>1, <1>4
      <4> QED BY <4>1, <4>2
    <3>3. \A m, n \in messages' : m.chat = n.chat /\ m.seq = n.seq => m = n
      <4>1. \A m \in messages : ~(m.chat = new.chat /\ m.seq = new.seq)
        BY <1>2, <1>4, <1>5
      <4> QED BY <4>1, <1>1 DEF Store, SequencesHaveNoGaps
    <3> QED BY <3>1, <3>2, <3>3 DEF SequencesHaveNoGaps
  <2>2. OneMessagePerKey'
    BY <1>1, <1>3, <1>4 DEF Store, OneMessagePerKey, SameKey
  <2>3. EventsMatchMessages'
    <3> DEFINE ev(m) == [chat |-> m.chat, sender |-> m.sender, seq |-> m.seq]
               a == AuditEventOf(t)
    <3>1. OutboxEventOf(t) = ev(new)
      BY <1>2, <1>4 DEF OutboxEventOf
    <3>2. outbox' = {ev(m) : m \in messages'}
      BY <3>1, <1>1 DEF Store, EventsMatchMessages
    <3>3. a.chat = new.chat /\ a.seq = new.seq /\ a.actor = r.operator
          /\ (new.sender \in Persona \/ new.sender = a.actor)
      BY <1>0, <1>2, <1>4 DEF AuditEventOf, Sound
    <3>4. \A m \in messages' : \E e \in audit' : e.chat = m.chat /\ e.seq = m.seq
      BY <3>3, <1>1 DEF Store, EventsMatchMessages
    <3>5. \A e \in audit : ~(e.chat = a.chat /\ e.seq = a.seq)
      <4>1. ASSUME NEW e \in audit PROVE ~(e.chat = a.chat /\ e.seq = a.seq)
        <5>1. PICK m \in messages : e.chat = m.chat /\ e.seq = m.seq
          BY DEF Store, EventsMatchMessages
        <5> QED BY <5>1, <3>3, <1>2, <1>4, <1>5
      <4> QED BY <4>1
    <3>6. \A e, f \in audit' : e.chat = f.chat /\ e.seq = f.seq => e = f
      BY <3>5, <1>1 DEF Store, EventsMatchMessages
    <3>7. ASSUME NEW e \in audit'
          PROVE  \E m \in messages' : /\ e.chat = m.chat /\ e.seq = m.seq
                                      /\ m.sender \in Persona \/ m.sender = e.actor
      <4>1. CASE e \in audit
        BY <4>1, <1>1 DEF Store, EventsMatchMessages
      <4>2. CASE e = a
        BY <4>2, <3>3, <1>1
      <4> QED BY <4>1, <4>2, <1>1
    <3> QED BY <3>2, <3>4, <3>6, <3>7 DEF EventsMatchMessages
  <2> QED BY <2>1, <2>2, <2>3 DEF Store
<1>10. AnswersMatchMessages'
  <2>1. \A u \in Call : MessageOf(u)' = MessageOf(u)
    BY <1>1 DEF MessageOf
  <2>2. \A u \in Call \ {t} : answer'[u] = answer[u]
    BY <1>1 DEF TypeOK
  <2>3. \A u \in Call \ {t} : answer[u] = "created" => ~SameKey(request[u], r)
    BY <1>3 DEF AnswersMatchMessages, MessageOf, SameKey
  <2>4. \A u \in Call : answer'[u] \in {"created", "replayed"} => MessageOf(u)' \in messages'
    BY <2>1, <2>2, <1>1 DEF AnswersMatchMessages
  <2>5. \A u, v \in Call : /\ answer'[u] = "created" /\ answer'[v] = "created"
                           /\ SameKey(request[u], request[v])
                           => u = v
    BY <2>2, <2>3 DEF AnswersMatchMessages, SameKey
  <2> QED BY <2>4, <2>5, <1>1 DEF AnswersMatchMessages, SameKey
<1> QED BY <1>6, <1>7, <1>8, <1>9, <1>10

(* A call that only found its message again commits nothing. *)
LEMMA ReplayInv ==
  ASSUME IInv, NEW t \in Call, Commit(t), "message" \notin wrote[t]
  PROVE  IInv'
<1> USE DEF IInv
<1>1. /\ wrote[t] = {} /\ phase[t] = "commit" /\ UNCHANGED store
      /\ request' = request /\ sequence' = sequence
      /\ wrote' = [wrote EXCEPT ![t] = {}]
      /\ phase' = [phase EXCEPT ![t] = "done"]
      /\ \E a \in {"replayed", "lost"} : answer' = [answer EXCEPT ![t] = a]
      /\ UNCHANGED authority
  BY DEF Commit, Goto, PhasesAgree, store
<1>2. MessageOf(t) \in messages
  BY <1>1 DEF LocksProtectCalls, KeyLocked, HoldsCounter
<1>3. TypeOK'
  BY StepType DEF Step
<1>4. PhasesAgree'
  BY <1>1 DEF PhasesAgree, TypeOK
<1>5. AuthorityLocked'
  BY <1>1 DEF LocksProtectCalls, AuthorityLocked, HoldsAccount, HoldsSession, HoldsGrant,
     ActsAs, TypeOK, authority
<1>6. CounterLocked'
  BY <1>1 DEF LocksProtectCalls, CounterLocked, HoldsCounter, TypeOK, store
<1>7. KeyLocked'
  BY <1>1 DEF LocksProtectCalls, KeyLocked, HoldsKey, HoldsCounter, MessageOf, SameKey,
     TypeOK, store
<1>8. Store'
  BY <1>1, StoreUnchanged
<1>9. AnswersMatchMessages'
  BY <1>1, <1>2 DEF AnswersMatchMessages, MessageOf, TypeOK, store
<1> QED BY <1>3, <1>4, <1>5, <1>6, <1>7, <1>8, <1>9 DEF LocksProtectCalls

LEMMA StepInv ==
  ASSUME IInv, NEW t \in Call, Step(t)
  PROVE  IInv'
<1>1. CASE LockOperator(t)
  BY <1>1, AuthorizeInv, RollBackInv DEF LockOperator, Answer
<1>2. CASE LockSession(t)
  BY <1>2, AuthorizeInv, RollBackInv DEF LockSession, Answer
<1>3. CASE LockGrant(t)
  BY <1>3, AuthorizeInv, RollBackInv DEF LockGrant, Answer
<1>4. CASE CheckPosting(t)
  BY <1>4, AuthorizeInv, RollBackInv DEF CheckPosting, Answer
<1>5. CASE Commit(t)
  BY <1>5, AppendInv, ReplayInv
<1> QED BY <1>1, <1>2, <1>3, <1>4, <1>5, ClaimKeyInv, RecheckInv, InsertInv, EventsInv DEF Step

LEMMA AdministerInv ==
  ASSUME IInv, Administer
  PROVE  IInv'
<1> USE DEF IInv
<1>1. UNCHANGED <<store, calls>>
  BY DEF Administer, Deactivate, RevokeSession, GrantPersona, RevokePersona, ChangePosting,
     SetDomainStatus
<1>2. AuthorityLocked'
  <2>1. ASSUME NEW p \in Person, Deactivate(p) PROVE AuthorityLocked'
    BY <2>1 DEF Deactivate, LocksProtectCalls, AuthorityLocked, HoldsAccount, HoldsSession,
       HoldsGrant, ActsAs, calls
  <2>2. ASSUME NEW p \in Person, RevokeSession(p) PROVE AuthorityLocked'
    BY <2>2 DEF RevokeSession, LocksProtectCalls, AuthorityLocked, HoldsAccount, HoldsSession,
       HoldsGrant, ActsAs, calls
  <2>3. ASSUME NEW p \in Person, NEW s \in Persona, GrantPersona(p, s) PROVE AuthorityLocked'
    BY <2>3 DEF GrantPersona, LocksProtectCalls, AuthorityLocked, HoldsAccount, HoldsSession,
       HoldsGrant, ActsAs, calls
  <2>4. ASSUME NEW p \in Person, NEW s \in Persona, RevokePersona(p, s) PROVE AuthorityLocked'
    BY <2>4 DEF RevokePersona, LocksProtectCalls, AuthorityLocked, HoldsAccount, HoldsSession,
       HoldsGrant, ActsAs, calls
  <2>5. ASSUME UNCHANGED <<active, live, granted>> PROVE AuthorityLocked'
    BY <2>5, <1>1 DEF LocksProtectCalls, AuthorityLocked, HoldsAccount, HoldsSession,
       HoldsGrant, ActsAs, calls
  <2> QED BY <2>1, <2>2, <2>3, <2>4, <2>5 DEF Administer, ChangePosting, SetDomainStatus
<1>3. PhasesAgree' /\ CounterLocked' /\ KeyLocked' /\ AnswersMatchMessages'
  BY <1>1 DEF PhasesAgree, LocksProtectCalls, CounterLocked, KeyLocked, AnswersMatchMessages,
     HoldsKey, HoldsCounter, MessageOf, SameKey, store, calls
<1>4. Store'
  BY <1>1, StoreUnchanged
<1> QED BY <1>2, <1>3, <1>4, AdministerType DEF LocksProtectCalls

LEMMA InitInv == Init => IInv
<1> SUFFICES ASSUME Init PROVE IInv
  OBVIOUS
<1>1. PhasesAgree
  BY DEF Init, PhasesAgree
<1>2. AuthorityLocked
  BY DEF Init, AuthorityLocked, HoldsAccount, HoldsSession, HoldsGrant
<1>3. CounterLocked /\ KeyLocked
  BY DEF Init, CounterLocked, KeyLocked, HoldsCounter, HoldsKey
<1>4. Store
  BY DEF Init, Store, SequencesHaveNoGaps, OneMessagePerKey, EventsMatchMessages
<1>5. AnswersMatchMessages
  BY DEF Init, AnswersMatchMessages
<1> QED BY <1>1, <1>2, <1>3, <1>4, <1>5, InitType DEF IInv, LocksProtectCalls

LEMMA NextInv == IInv /\ [Next]_vars => IInv'
<1> SUFFICES ASSUME IInv, [Next]_vars PROVE IInv'
  OBVIOUS
<1>1. ASSUME NEW t \in Call, Fail(t) PROVE IInv'
  BY <1>1, RollBackInv DEF Fail, Answer
<1>2. CASE Next
  BY <1>1, <1>2, StepInv, AdministerInv DEF Next
<1>3. CASE UNCHANGED vars
  <2>1. TypeOK'
    BY <1>3, NextType DEF IInv
  <2>2. PhasesAgree' /\ CounterLocked' /\ KeyLocked' /\ AuthorityLocked' /\ AnswersMatchMessages'
    BY <1>3 DEF IInv, PhasesAgree, LocksProtectCalls, AuthorityLocked, CounterLocked, KeyLocked,
       AnswersMatchMessages, HoldsAccount, HoldsSession, HoldsGrant, HoldsKey, HoldsCounter,
       ActsAs, MessageOf, SameKey, vars, authority, store, calls
  <2>3. Store'
    BY <1>3, StoreUnchanged DEF IInv, vars
  <2> QED BY <2>1, <2>2, <2>3 DEF IInv, LocksProtectCalls
<1> QED BY <1>2, <1>3

(* The strengthening that is inductive holds in every reachable state: what   *)
(* each call holds locks on stays true until its transaction ends.            *)
THEOREM Inductive == Spec => []IInv
BY InitInv, NextInv, PTL DEF Spec

-----------------------------------------------------------------------------
(* What the invariant gives. *)

(* The committed sequences of every chat are 1 .. next_sequence - 1, each used *)
(* once, whatever calls fail or are replayed.                                  *)
THEOREM NoGaps == Spec => []SequencesHaveNoGaps
<1>1. IInv => SequencesHaveNoGaps
  BY DEF IInv, Store
<1> QED BY <1>1, Inductive, PTL

(* Racing, failing and repeated calls with one idempotency key of a sender in *)
(* a chat make at most one message.                                           *)
THEOREM KeysAreIdempotent == Spec => []OneMessagePerKey
<1>1. IInv => OneMessagePerKey
  BY DEF IInv, Store
<1> QED BY <1>1, Inductive, PTL

(* Every committed message has its one outbox event and its one audit event, *)
(* and there is no event without a message.                                   *)
THEOREM EventsFollowMessages == Spec => []EventsMatchMessages
<1>1. IInv => EventsMatchMessages
  BY DEF IInv, Store
<1> QED BY <1>1, Inductive, PTL

(* A caller told "created" or "replayed" finds its content in the chat, and at *)
(* most one call of a key is told "created".                                   *)
THEOREM AnswersAreTrue == Spec => []AnswersMatchMessages
<1>1. IInv => AnswersMatchMessages
  BY DEF IInv
<1> QED BY <1>1, Inductive, PTL

(* The row locks and the advisory lock of a call protect what it relies on. *)
THEOREM LocksProtect == Spec => []LocksProtectCalls
<1>1. IInv => LocksProtectCalls
  BY DEF IInv
<1> QED BY <1>1, Inductive, PTL

(* Only the commit of a call that wrote its message changes the store. *)
LEMMA OnlyCommitsWrite ==
  ASSUME [Next]_vars, UNCHANGED store => FALSE
  PROVE  \E t \in Call : Commit(t) /\ wrote[t] # {}
<1>1. ASSUME NEW t \in Call, Step(t)
      PROVE  Commit(t) \/ UNCHANGED store
  BY <1>1 DEF Step, LockOperator, LockSession, LockGrant, CheckPosting, ClaimKey, RecheckPosting,
     InsertMessage, WriteEvents, RollBack, Proceed
<1>2. ASSUME NEW t \in Call, Fail(t) PROVE UNCHANGED store
  BY <1>2 DEF Fail, RollBack
<1>3. Administer \/ UNCHANGED vars => UNCHANGED store
  BY DEF Administer, Deactivate, RevokeSession, GrantPersona, RevokePersona, ChangePosting,
     SetDomainStatus, vars
<1>4. PICK t \in Call : Commit(t)
  BY <1>1, <1>2, <1>3 DEF Next
<1>5. wrote[t] # {}
  BY <1>4 DEF Commit, store
<1> QED BY <1>4, <1>5

LEMMA CommitStep ==
  ASSUME IInv, [Next]_vars, UNCHANGED store => FALSE
  PROVE  \E t \in Call :
           /\ Commit(t) /\ "message" \in wrote[t]
           /\ messages' = messages \cup {MessageOf(t)}
           /\ sequence[t] = next[request[t].chat]
           /\ phase' = [phase EXCEPT ![t] = "done"]
<1>1. PICK t \in Call : Commit(t) /\ wrote[t] # {}
  BY OnlyCommitsWrite
<1>2. "message" \in wrote[t]
  BY <1>1 DEF IInv, PhasesAgree, Commit
<1> QED BY <1>1, <1>2 DEF Commit, Goto, IInv, LocksProtectCalls, CounterLocked, HoldsCounter

(* A message becomes visible after every message of its chat with a lower    *)
(* sequence: a reader that follows afterSequence misses nothing.             *)
THEOREM CommitsInOrder == Spec => CommitsFollowSequence
<1>1. IInv /\ [Next]_vars
      => [\A m \in messages', n \in messages :
            m \notin messages /\ m.chat = n.chat => m.seq > n.seq]_vars
  <2> SUFFICES ASSUME IInv, [Next]_vars, NEW m \in messages', NEW n \in messages,
                      m \notin messages, m.chat = n.chat
               PROVE  m.seq > n.seq
    OBVIOUS
  <2>1. PICK t \in Call : /\ messages' = messages \cup {MessageOf(t)}
                          /\ sequence[t] = next[request[t].chat]
    BY CommitStep DEF store
  <2>2. m.chat = request[t].chat /\ m.seq = next[request[t].chat]
    BY <2>1 DEF MessageOf
  <2>3. n.seq \in 1 .. next[n.chat] - 1 /\ next[n.chat] \in Nat
    BY DEF IInv, Store, SequencesHaveNoGaps, TypeOK, Message
  <2> QED BY <2>2, <2>3
<1> QED BY <1>1, Inductive, PTL DEF Spec, CommitsFollowSequence

(* When a message commits its operator is active, has a live session and     *)
(* holds the persona it speaks as: no revocation slips in before the commit.  *)
THEOREM AuthorityAtCommit == Spec => CommittedWithAuthority
<1> DEFINE Backed == \A t \in Call :
             "message" \in wrote[t] /\ messages' # messages /\ phase'[t] # phase[t]
             => /\ request[t].operator \in active'
                /\ request[t].operator \in live'
                /\ ActsAs(t) => <<request[t].operator, request[t].sender>> \in granted'
<1>1. IInv /\ [Next]_vars => [Backed]_vars
  <2> SUFFICES ASSUME IInv, [Next]_vars, NEW t \in Call, messages' # messages,
                      phase'[t] # phase[t]
               PROVE  /\ request[t].operator \in active'
                      /\ request[t].operator \in live'
                      /\ ActsAs(t) => <<request[t].operator, request[t].sender>> \in granted'
    OBVIOUS
  <2>1. PICK u \in Call : Commit(u) /\ phase' = [phase EXCEPT ![u] = "done"]
    BY CommitStep DEF store
  <2>2. u = t
    BY <2>1 DEF IInv, TypeOK
  <2>3. phase[t] = "commit" /\ UNCHANGED authority
    BY <2>1, <2>2 DEF Commit
  <2> QED BY <2>3 DEF IInv, LocksProtectCalls, AuthorityLocked, HoldsAccount, HoldsSession,
        HoldsGrant, authority
<1> QED BY <1>1, Inductive, PTL DEF Spec, CommittedWithAuthority

-----------------------------------------------------------------------------
(* Refinement: MessageWrite implements MessageLog. *)

EntryOfMessage(m) == [sender |-> m.sender, key |-> m.key, body |-> m.body]
Entry == [sender : Account, key : Key, body : Body]

(* The log has each message of the store at its sequence, and nothing else. *)
LogIsStore ==
  /\ \A c \in Chat : LogOf[c] \in Seq(Entry) /\ Len(LogOf[c]) = next[c] - 1
  /\ \A m \in messages : /\ m.chat \in Chat
                         /\ m.seq \in 1 .. next[m.chat] - 1
                         /\ LogOf[m.chat][m.seq] = EntryOfMessage(m)
  /\ \A c \in Chat : \A i \in 1 .. next[c] - 1 :
       \E m \in messages : m.chat = c /\ m.seq = i

LEMMA LogFacts == IInv => LogIsStore
<1> SUFFICES ASSUME IInv PROVE LogIsStore
  OBVIOUS
<1> DEFINE At(c, i) == CHOOSE x \in messages : x.chat = c /\ x.seq = i
<1>1. \A c \in Chat : next[c] - 1 \in Nat
  BY DEF IInv, TypeOK
<1>2. \A c \in Chat : \A i \in 1 .. next[c] - 1 :
        At(c, i) \in messages /\ At(c, i).chat = c /\ At(c, i).seq = i
  BY DEF IInv, Store, SequencesHaveNoGaps
<1>3. \A c \in Chat : LogOf[c] = [i \in 1 .. next[c] - 1 |-> EntryOfMessage(At(c, i))]
  BY DEF LogOf, EntryOfMessage
<1>4. \A m \in messages : m \in Message /\ m.chat \in Chat /\ m.seq \in 1 .. next[m.chat] - 1
  BY DEF IInv, TypeOK, Message, Store, SequencesHaveNoGaps
<1>5. \A m \in messages : EntryOfMessage(m) \in Entry
  BY <1>4 DEF EntryOfMessage, Entry, Message
<1>6. ASSUME NEW c \in Chat PROVE LogOf[c] \in Seq(Entry) /\ Len(LogOf[c]) = next[c] - 1
  <2>1. \A i \in 1 .. next[c] - 1 : EntryOfMessage(At(c, i)) \in Entry
    BY <1>2, <1>5
  <2> HIDE DEF At
  <2>2. LogOf[c] \in [1 .. next[c] - 1 -> Entry]
    BY <2>1, <1>3
  <2> QED BY <2>2, <1>1
<1>7. ASSUME NEW m \in messages PROVE LogOf[m.chat][m.seq] = EntryOfMessage(m)
  <2>1. At(m.chat, m.seq) = m
    BY <1>2, <1>4 DEF IInv, Store, SequencesHaveNoGaps
  <2>2. m.chat \in Chat /\ m.seq \in 1 .. next[m.chat] - 1
    BY <1>4
  <2> HIDE DEF At
  <2>3. LogOf[m.chat][m.seq] = EntryOfMessage(At(m.chat, m.seq))
    BY <2>2, <1>3
  <2> QED BY <2>1, <2>3
<1> QED BY <1>2, <1>4, <1>6, <1>7 DEF LogIsStore

(* A call that ends without a commit was refused, or its answer was lost. *)
LEMMA RollBackRefines ==
  ASSUME IInv, NEW t \in Call, NEW a \in {"rejected", "lost"}, RollBack(t, a), phase[t] # "done"
  PROVE  Log!Refuse(t)
<1>1. LogOf' = LogOf
  BY DEF RollBack, LogOf, store
<1>2. answer[t] = "none"
  BY DEF IInv, PhasesAgree
<1> QED BY <1>1, <1>2 DEF RollBack, Log!Refuse, Log!End

(* The commit of a call appends its entry, or repeats the one it found. *)
LEMMA CommitRefines ==
  ASSUME IInv, IInv', NEW t \in Call, Commit(t)
  PROVE  Log!Create(t) \/ Log!Replay(t)
<1> DEFINE r == request[t]
           c == r.chat
           n == next[c]
<1>1. answer[t] = "none" /\ r \in Request /\ c \in Chat
  BY RequestFacts DEF IInv, PhasesAgree, Commit, Request
<1>2. UNCHANGED request
  BY DEF Commit
<1>3. CASE "message" \notin wrote[t]
  <2>1. MessageOf(t) \in messages
    BY <1>3 DEF Commit, IInv, LocksProtectCalls, KeyLocked, HoldsCounter
  <2>2. PICK i : /\ i \in 1 .. n - 1 /\ i \in DOMAIN LogOf[c]
                 /\ LogOf[c][i] = EntryOfMessage(MessageOf(t))
    <3>1. MessageOf(t).chat = c
      BY DEF MessageOf
    <3> QED BY <2>1, <3>1, <1>1, LogFacts DEF LogIsStore
  <2>3. LogOf' = LogOf
    BY <1>3 DEF Commit, LogOf, IInv, PhasesAgree
  <2>4. \E b \in {"replayed", "lost"} : answer' = [answer EXCEPT ![t] = b]
    BY <1>3 DEF Commit
  <2>5. i \in Log!Named(r) /\ LogOf[c][i].body = r.body
    BY <2>2 DEF Log!Named, EntryOfMessage, MessageOf
  <2>6. Log!End(t, "replayed")
    BY <1>1, <1>2, <2>4 DEF Log!End
  <2> QED BY <2>3, <2>5, <2>6 DEF Log!Replay
<1>4. CASE "message" \in wrote[t]
  <2>1. /\ messages' = messages \cup {MessageOf(t)}
        /\ next' = [next EXCEPT ![c] = n + 1]
        /\ sequence[t] = n /\ n \in Nat \ {0}
        /\ \E b \in {"created", "lost"} : answer' = [answer EXCEPT ![t] = b]
    BY <1>1, <1>4 DEF Commit, IInv, TypeOK, LocksProtectCalls, CounterLocked, HoldsCounter
  <2>2. \A m \in messages : ~SameKey(m, r)
    BY <1>4 DEF IInv, LocksProtectCalls, KeyLocked, HoldsCounter
  <2>3. LogIsStore /\ LogIsStore'
    BY LogFacts, PTL
  <2>4. Log!Named(r) = {}
    <3> SUFFICES ASSUME NEW i \in Log!Named(r) PROVE FALSE
      OBVIOUS
    <3>1. i \in 1 .. n - 1 /\ LogOf[c][i].sender = r.sender /\ LogOf[c][i].key = r.key
      <4>1. i \in DOMAIN LogOf[c] /\ LogOf[c][i].sender = r.sender /\ LogOf[c][i].key = r.key
        BY DEF Log!Named
      <4>2. LogOf[c] \in Seq(Entry) /\ Len(LogOf[c]) = n - 1
        BY <1>1, <2>3 DEF LogIsStore
      <4>3. DOMAIN LogOf[c] = 1 .. n - 1
        BY <4>2
      <4> QED BY <4>1, <4>3
    <3>2. PICK m \in messages : m.chat = c /\ m.seq = i /\ LogOf[c][i] = EntryOfMessage(m)
      BY <1>1, <2>3, <3>1 DEF LogIsStore
    <3>3. m.sender = r.sender /\ m.key = r.key
      BY <3>1, <3>2 DEF EntryOfMessage
    <3> QED BY <2>2, <3>2, <3>3 DEF SameKey
  <2>5. ASSUME NEW d \in Chat, NEW i \in 1 .. next[d] - 1
        PROVE  LogOf'[d][i] = LogOf[d][i]
    <3>1. PICK m \in messages : m.chat = d /\ m.seq = i /\ LogOf[d][i] = EntryOfMessage(m)
      BY <2>3 DEF LogIsStore
    <3>2. m \in messages' /\ LogOf'[d][i] = EntryOfMessage(m)
      BY <2>1, <2>3, <3>1 DEF LogIsStore
    <3> QED BY <3>1, <3>2
  <2>6. ASSUME NEW d \in Chat, d # c PROVE LogOf'[d] = LogOf[d]
    <3>1. next'[d] = next[d]
      BY <2>1, <2>6 DEF IInv, TypeOK
    <3> QED BY <3>1, <2>3, <2>5, SeqEqual DEF LogIsStore
  <2>7. LogOf'[c] = Append(LogOf[c], Log!EntryOf(r))
    <3>1. MessageOf(t) \in messages' /\ MessageOf(t).chat = c /\ MessageOf(t).seq = n
      BY <2>1 DEF MessageOf
    <3>2. LogOf'[c][n] = Log!EntryOf(r) /\ Log!EntryOf(r) \in Entry
      BY <3>1, <2>3, <1>1 DEF LogIsStore, EntryOfMessage, MessageOf, Log!EntryOf, Entry, Request
    <3>3. Len(LogOf[c]) = n - 1 /\ Len(LogOf'[c]) = n
      BY <1>1, <2>1, <2>3 DEF LogIsStore, IInv, TypeOK
    <3>4. LogOf[c] \in Seq(Entry) /\ LogOf'[c] \in Seq(Entry)
      BY <1>1, <2>3 DEF LogIsStore
    <3>5. /\ Append(LogOf[c], Log!EntryOf(r)) \in Seq(Entry)
          /\ Len(Append(LogOf[c], Log!EntryOf(r))) = Len(LogOf[c]) + 1
          /\ \A i \in 1 .. Len(LogOf[c]) :
               Append(LogOf[c], Log!EntryOf(r))[i] = LogOf[c][i]
          /\ Append(LogOf[c], Log!EntryOf(r))[Len(LogOf[c]) + 1] = Log!EntryOf(r)
      BY <3>2, <3>4, AppendProperties
    <3>6. \A i \in 1 .. n : LogOf'[c][i] = Append(LogOf[c], Log!EntryOf(r))[i]
      <4> TAKE i \in 1 .. n
      <4>1. CASE i = n
        BY <4>1, <2>1, <3>2, <3>3, <3>5
      <4>2. CASE i # n
        <5>1. i \in 1 .. n - 1
          BY <4>2, <2>1
        <5> QED BY <5>1, <1>1, <2>5, <3>3, <3>5
      <4> QED BY <4>1, <4>2
    <3> HIDE DEF n, r, c
    <3> QED BY <2>1, <3>3, <3>4, <3>5, <3>6, SeqEqual
  <2>8. LogOf' = [LogOf EXCEPT ![c] = Append(@, Log!EntryOf(r))]
    <3>1. /\ LogOf = [d \in Chat |-> LogOf[d]]
          /\ LogOf' = [d \in Chat |-> LogOf'[d]]
      BY DEF LogOf
    <3> QED BY <1>1, <2>6, <2>7, <3>1
  <2> QED BY <1>1, <1>2, <2>1, <2>4, <2>8 DEF Log!Create, Log!End
<1> QED BY <1>3, <1>4

(* Every other step of a call, and administration, leaves the log alone. *)
LEMMA StepRefines == IInv /\ IInv' /\ [Next]_vars => [Log!Next]_(Log!vars)
<1> SUFFICES ASSUME IInv, IInv', [Next]_vars PROVE Log!Next \/ UNCHANGED Log!vars
  OBVIOUS
<1>1. ASSUME UNCHANGED <<store, request, answer>> PROVE UNCHANGED Log!vars
  BY <1>1 DEF Log!vars, LogOf, store
<1>2. ASSUME NEW t \in Call, NEW p, Proceed(t, p) PROVE UNCHANGED Log!vars
  BY <1>1, <1>2 DEF Proceed
<1>3. ASSUME NEW t \in Call, NEW a \in {"rejected", "lost"}, RollBack(t, a), phase[t] # "done"
      PROVE  Log!Next
  BY <1>3, RollBackRefines DEF Log!Next
<1>4. ASSUME NEW t \in Call, Step(t) PROVE Log!Next \/ UNCHANGED Log!vars
  <2>1. CASE LockOperator(t) \/ LockSession(t) \/ LockGrant(t) \/ CheckPosting(t)
             \/ RecheckPosting(t)
    BY <2>1, <1>2, <1>3 DEF LockOperator, LockSession, LockGrant, CheckPosting, RecheckPosting
  <2>2. CASE ClaimKey(t)
    BY <2>2, <1>1, <1>2, <1>3 DEF ClaimKey
  <2>3. CASE InsertMessage(t) \/ WriteEvents(t)
    BY <2>3, <1>1 DEF InsertMessage, WriteEvents
  <2>4. CASE Commit(t)
    BY <2>4, CommitRefines DEF Log!Next
  <2> QED BY <1>4, <2>1, <2>2, <2>3, <2>4 DEF Step
<1>5. ASSUME NEW t \in Call, Fail(t) PROVE Log!Next
  BY <1>5, <1>3 DEF Fail
<1>6. CASE Administer
  BY <1>6, <1>1 DEF Administer, Deactivate, RevokeSession, GrantPersona, RevokePersona,
     ChangePosting, SetDomainStatus, calls
<1>7. CASE UNCHANGED vars
  BY <1>7, <1>1 DEF vars, calls
<1> QED BY <1>4, <1>5, <1>6, <1>7 DEF Next

LEMMA InitRefines == Init => Log!Init
<1> SUFFICES ASSUME Init PROVE Log!Init
  OBVIOUS
<1>1. LogOf = [c \in Chat |-> <<>>]
  <2> SUFFICES ASSUME NEW c \in Chat PROVE LogOf[c] = <<>>
    BY DEF LogOf
  <2>1. next[c] = 1 /\ 1 .. next[c] - 1 = {}
    BY DEF Init
  <2>2. DOMAIN LogOf[c] = {} /\ LogOf[c] = [i \in DOMAIN LogOf[c] |-> LogOf[c][i]]
    BY <2>1 DEF LogOf
  <2>3. LogOf[c] \in Seq({})
    BY <2>1 DEF LogOf
  <2> QED BY <2>2, <2>3
<1> QED BY <1>1 DEF Init, Log!Init

(* The write path is a log: every commit of a new message appends it to its  *)
(* chat at one moment, everything else a call or an administrator does leaves *)
(* the log alone, and a call is told what happened or nothing.                *)
THEOREM Refinement == Spec => ImplementsLog
<1>1. IInv /\ IInv' /\ [Next]_vars => [Log!Next]_(Log!vars)
  BY StepRefines
<1> QED BY <1>1, InitRefines, Inductive, PTL DEF Spec, ImplementsLog, Log!Spec

-----------------------------------------------------------------------------
(* Membership periods.  Their order is inductive once every boundary is known *)
(* to be an allocated sequence: a boundary read later is then no smaller.      *)
BoundariesAllocated ==
  \A d \in periods : /\ d.after <= Boundary(d.chat)
                     /\ ~d.open => d.upto <= Boundary(d.chat)

PInv == IInv /\ BoundariesAllocated /\ PeriodsAreOrdered

LEMMA CountersGrow ==
  ASSUME IInv, [Next]_vars, NEW c \in Chat
  PROVE  Boundary(c) \in Nat /\ Boundary(c)' \in Nat /\ Boundary(c) <= Boundary(c)'
<1>1. next[c] \in Nat \ {0} /\ next'[c] \in Nat \ {0}
  BY NextType DEF IInv, TypeOK
<1>2. CASE UNCHANGED store
  BY <1>1, <1>2 DEF Boundary, store
<1>3. CASE ~UNCHANGED store
  <2>1. PICK t \in Call : /\ Commit(t) /\ "message" \in wrote[t]
                          /\ sequence[t] = next[request[t].chat]
    BY <1>3, CommitStep
  <2>2. next' = [next EXCEPT ![request[t].chat] = next[request[t].chat] + 1]
    BY <2>1 DEF Commit
  <2> QED BY <1>1, <2>2 DEF Boundary, IInv, TypeOK
<1> QED BY <1>2, <1>3

LEMMA PeriodsKept ==
  ASSUME PInv, [Next]_vars, UNCHANGED <<periods, member>>
  PROVE  BoundariesAllocated' /\ PeriodsAreOrdered'
<1>1. PeriodsAreOrdered'
  BY DEF PInv, PeriodsAreOrdered
<1>2. ASSUME NEW d \in periods
      PROVE  d.after <= Boundary(d.chat)' /\ (~d.open => d.upto <= Boundary(d.chat)')
  <2>1. d.chat \in Chat /\ d.after \in Nat /\ d.upto \in Nat
    BY DEF PInv, IInv, TypeOK, Period
  <2>2. Boundary(d.chat) \in Nat /\ Boundary(d.chat)' \in Nat
        /\ Boundary(d.chat) <= Boundary(d.chat)'
    BY <2>1, CountersGrow DEF PInv
  <2> QED BY <2>1, <2>2 DEF PInv, BoundariesAllocated
<1>3. BoundariesAllocated'
  BY <1>2 DEF BoundariesAllocated, Boundary
<1> QED BY <1>1, <1>3

LEMMA PeriodsMoved ==
  ASSUME PInv, NEW p \in Person, NEW s \in DomainStatus, SetDomainStatus(p, s)
  PROVE  BoundariesAllocated' /\ PeriodsAreOrdered'
<1> DEFINE readable == {c \in RuledChat : <<c, s>> \in ReadRule}
           joined == {c \in readable : <<c, p>> \notin member}
           left == {c \in RuledChat \ readable : <<c, p>> \in member}
           ended == {e \in periods : e.account = p /\ e.chat \in left /\ e.open}
           closed == {Closed(e) : e \in ended}
           opened == {Opened(c, p) : c \in joined}
<1>1. /\ periods' = (periods \ ended) \cup closed \cup opened
      /\ member' = (member \ (left \X {p})) \cup (joined \X {p})
      /\ next' = next
  BY DEF SetDomainStatus, store
<1>2. /\ \A d \in periods : /\ d \in Period /\ d.chat \in Chat /\ d.account \in Account
                            /\ d.after \in Nat /\ d.upto \in Nat /\ d.open \in BOOLEAN
                            /\ Boundary(d.chat) \in Nat
      /\ readable \subseteq Chat /\ joined \subseteq Chat /\ left \subseteq Chat
      /\ joined \cap left = {}
      /\ \A c \in Chat : Boundary(c) \in Nat
  BY RulesAssumption DEF PInv, IInv, TypeOK, Period, Boundary
<1>3. ASSUME NEW d \in closed
      PROVE  \E e \in ended : /\ d.chat = e.chat /\ d.account = p /\ d.account = e.account
                              /\ d.after = e.after
                              /\ d.upto = Boundary(d.chat) /\ ~d.open
                              /\ d = Closed(e)
  <2>1. PICK e \in ended : d = Closed(e)
    OBVIOUS
  <2> QED BY <2>1, <1>2 DEF Closed, Period
<1>4. ASSUME NEW d \in opened
      PROVE  /\ d.chat \in joined /\ d.account = p /\ d.after = Boundary(d.chat)
             /\ d.upto = 0 /\ d.open /\ d = Opened(d.chat, p)
  <2>1. PICK c \in joined : d = Opened(c, p)
    OBVIOUS
  <2> QED BY <2>1 DEF Opened
<1>5. \A d, e \in periods : d.chat = e.chat /\ d.account = e.account /\ d.open /\ e.open => d = e
  BY <1>2 DEF PInv, PeriodsAreOrdered
<1>6. \A d \in periods : d.chat \in joined /\ d.account = p => ~d.open
  BY <1>2 DEF PInv, PeriodsAreOrdered
<1>7. \A d \in periods \ ended : d.chat \in left /\ d.account = p => ~d.open
  OBVIOUS
<1> HIDE DEF readable, joined, left, closed, opened
<1>8. BoundariesAllocated'
  <2>1. ASSUME NEW d \in periods'
        PROVE  d.after <= Boundary(d.chat) /\ (~d.open => d.upto <= Boundary(d.chat))
    <3>1. CASE d \in periods
      BY <3>1 DEF PInv, BoundariesAllocated
    <3>2. CASE d \in closed
      BY <3>2, <1>2, <1>3 DEF PInv, BoundariesAllocated
    <3>3. CASE d \in opened
      BY <3>3, <1>2, <1>4
    <3> QED BY <3>1, <3>2, <3>3, <1>1
  <2> QED BY <2>1, <1>1 DEF BoundariesAllocated, Boundary
<1>9. \A d \in periods' : ~d.open => d.after <= d.upto
  <2> TAKE d \in periods'
  <2>1. CASE d \in periods
    BY <2>1 DEF PInv, PeriodsAreOrdered
  <2>2. CASE d \in closed
    BY <2>2, <1>3 DEF PInv, BoundariesAllocated
  <2>3. CASE d \in opened
    BY <2>3, <1>4
  <2> QED BY <2>1, <2>2, <2>3, <1>1
<1>10. ASSUME NEW c \in Chat, NEW a \in Account
       PROVE  <<c, a>> \in member' <=> \E d \in periods' : d.chat = c /\ d.account = a /\ d.open
  <2>1. <<c, a>> \in member <=> \E d \in periods : d.chat = c /\ d.account = a /\ d.open
    BY DEF PInv, PeriodsAreOrdered
  <2>2. CASE a = p /\ c \in joined
    <3>1. Opened(c, p) \in opened /\ Opened(c, p).chat = c /\ Opened(c, p).account = p
          /\ Opened(c, p).open
      BY <2>2 DEF opened, Opened
    <3> QED BY <3>1, <2>2, <1>1
  <2>3. CASE a = p /\ c \in left
    <3>1. <<c, a>> \notin member'
      BY <2>3, <1>1, <1>2
    <3>2. \A d \in periods' : d.chat = c /\ d.account = a => ~d.open
      BY <2>3, <1>1, <1>2, <1>3, <1>4, <1>7
    <3> QED BY <3>1, <3>2
  <2>4. CASE ~(a = p /\ c \in joined \cup left)
    <3>1. <<c, a>> \in member' <=> <<c, a>> \in member
      BY <2>4, <1>1
    <3>2. ASSUME NEW d \in periods', d.chat = c, d.account = a
          PROVE  d \in periods
      BY <3>2, <2>4, <1>1, <1>3, <1>4
    <3>3. ASSUME NEW d \in periods, d.chat = c, d.account = a
          PROVE  d \in periods'
      BY <3>3, <2>4, <1>1
    <3> QED BY <3>1, <3>2, <3>3, <2>1
  <2> QED BY <2>2, <2>3, <2>4
<1>11. ASSUME NEW d \in periods', NEW e \in periods',
              d.chat = e.chat, d.account = e.account, d # e
       PROVE  (~d.open /\ d.upto <= e.after) \/ (~e.open /\ e.upto <= d.after)
  <2>1. CASE d \in periods /\ e \in periods
    BY <2>1, <1>11 DEF PInv, PeriodsAreOrdered
  <2>2. ASSUME NEW x \in closed, NEW y \in periods \ ended,
               x.chat = y.chat, x.account = y.account
        PROVE  ~y.open /\ y.upto <= x.after
    <3>1. PICK z \in ended : /\ x.chat = z.chat /\ x.account = z.account /\ x.after = z.after
      BY <1>3
    <3> QED BY <3>1, <2>2 DEF PInv, PeriodsAreOrdered
  <2>3. ASSUME NEW x \in closed, NEW y \in closed, x.chat = y.chat, x.account = y.account
        PROVE  x = y
    <3>1. PICK z \in ended : x.chat = z.chat /\ x.account = z.account /\ x = Closed(z)
      BY <1>3
    <3>2. PICK w \in ended : y.chat = w.chat /\ y.account = w.account /\ y = Closed(w)
      BY <1>3
    <3> QED BY <3>1, <3>2, <2>3, <1>5
  <2>4. ASSUME NEW x \in opened, NEW y \in periods, x.chat = y.chat, x.account = y.account
        PROVE  ~y.open /\ y.upto <= x.after
    BY <2>4, <1>2, <1>4, <1>6 DEF PInv, BoundariesAllocated
  <2>5. ASSUME NEW x \in opened, NEW y \in closed PROVE x.chat # y.chat
    BY <1>2, <1>3, <1>4
  <2>6. ASSUME NEW x \in opened, NEW y \in opened, x.chat = y.chat PROVE x = y
    BY <2>6, <1>4
  <2> QED BY <2>1, <2>2, <2>3, <2>4, <2>5, <2>6, <1>1, <1>11
<1> QED BY <1>8, <1>9, <1>10, <1>11 DEF PeriodsAreOrdered

LEMMA PeriodsInv == PInv /\ [Next]_vars => PInv'
<1> SUFFICES ASSUME PInv, [Next]_vars PROVE PInv'
  OBVIOUS
<1>1. IInv'
  BY NextInv DEF PInv
<1>2. ASSUME NEW t \in Call, Step(t) \/ Fail(t) PROVE UNCHANGED <<periods, member>>
  BY <1>2 DEF Step, Fail, LockOperator, LockSession, LockGrant, CheckPosting, ClaimKey,
     RecheckPosting, InsertMessage, WriteEvents, Commit, RollBack, Proceed, authority
<1>3. ASSUME Administer
      PROVE  \/ UNCHANGED <<periods, member>>
             \/ \E p \in Person, s \in DomainStatus : SetDomainStatus(p, s)
  BY <1>3 DEF Administer, Deactivate, RevokeSession, GrantPersona, RevokePersona, ChangePosting
<1>4. CASE UNCHANGED <<periods, member>>
  BY <1>1, <1>4, PeriodsKept DEF PInv
<1>5. ASSUME NEW p \in Person, NEW s \in DomainStatus, SetDomainStatus(p, s) PROVE PInv'
  BY <1>1, <1>5, PeriodsMoved DEF PInv
<1>6. CASE UNCHANGED vars
  BY <1>4, <1>6 DEF vars, authority
<1> QED BY <1>2, <1>3, <1>4, <1>5, <1>6 DEF Next

LEMMA PeriodsInit == Init => PInv
<1> SUFFICES ASSUME Init PROVE PInv
  OBVIOUS
<1>1. periods = [chat: Chat, account: Account, after: {0}, upto: {0}, open: {TRUE}]
  BY DEF Init
<1>2. BoundariesAllocated
  BY <1>1 DEF BoundariesAllocated, Boundary, Init
<1>3. ASSUME NEW c \in Chat, NEW a \in Account
      PROVE  /\ <<c, a>> \in member
             /\ \E d \in periods : d.chat = c /\ d.account = a /\ d.open
  <2>1. [chat |-> c, account |-> a, after |-> 0, upto |-> 0, open |-> TRUE] \in periods
    BY <1>1
  <2> QED BY <2>1 DEF Init
<1>4. PeriodsAreOrdered
  <2>1. \A d, e \in periods : d.chat = e.chat /\ d.account = e.account => d = e
    <3> SUFFICES ASSUME NEW d \in periods, NEW e \in periods,
                        d.chat = e.chat, d.account = e.account
                 PROVE  d = e
      OBVIOUS
    <3>1. /\ d = [chat |-> d.chat, account |-> d.account, after |-> 0, upto |-> 0, open |-> TRUE]
          /\ e = [chat |-> e.chat, account |-> e.account, after |-> 0, upto |-> 0, open |-> TRUE]
      BY <1>1
    <3> QED BY <3>1
  <2>2. \A d \in periods : d.open
    BY <1>1
  <2> QED BY <2>1, <2>2, <1>3 DEF PeriodsAreOrdered
<1> QED BY <1>2, <1>4, InitInv DEF PInv

(* The membership periods of an account in a chat never overlap and one is    *)
(* open exactly while the membership is active, although admin_set_domain_     *)
(* status reads the boundary without waiting for the posting calls.            *)
THEOREM PeriodsOrdered == Spec => []PeriodsAreOrdered
<1>1. PInv => PeriodsAreOrdered
  BY DEF PInv
<1> QED BY <1>1, PeriodsInit, PeriodsInv, PTL DEF Spec
-----------------------------------------------------------------------------
(* Waiting.  A call waits only for the lock of its key and for the counter of  *)
(* its chat, and only for calls that hold them.                                *)
WaitsForKey(t, u) ==
  phase[t] = "key" /\ u # t /\ HoldsKey(u) /\ SameKey(request[u], request[t])
WaitsForCounter(t, u) ==
  phase[t] = "insert" /\ HoldsCounter(u) /\ request[u].chat = request[t].chat
WaitsFor(t, u) == WaitsForKey(t, u) \/ WaitsForCounter(t, u)
Runs(t) == phase[t] # "done" /\ \A u \in Call : ~WaitsFor(t, u)

(* The counter is taken after the key, and whoever has it waits for nothing. *)
WaitsEnd ==
  \A t, u \in Call : WaitsFor(t, u) => Runs(u) \/ \E v \in Call : WaitsForCounter(u, v) /\ Runs(v)

LEMMA CounterHoldersRun == ASSUME IInv, NEW u \in Call, HoldsCounter(u) PROVE Runs(u)
BY DEF IInv, PhasesAgree, HoldsCounter, Runs, WaitsFor, WaitsForKey, WaitsForCounter

LEMMA InvWaitsEnd == IInv => WaitsEnd
<1> SUFFICES ASSUME IInv, NEW t \in Call, NEW u \in Call, WaitsFor(t, u), ~Runs(u)
             PROVE  \E v \in Call : WaitsForCounter(u, v) /\ Runs(v)
  BY DEF WaitsEnd
<1>1. HoldsKey(u)
  BY CounterHoldersRun DEF WaitsFor, WaitsForKey, WaitsForCounter
<1>2. PICK v \in Call : WaitsForCounter(u, v)
  BY <1>1 DEF HoldsKey, Runs, WaitsFor, WaitsForKey
<1> QED BY <1>2, CounterHoldersRun DEF WaitsForCounter

(* Calls never wait for each other in a circle, however many they are and      *)
(* whatever keys and chats they share: who waits, waits for a call that runs,  *)
(* or that waits for one, and so some call runs until all have ended.          *)
THEOREM NoCircularWaits ==
  Spec => [](WaitsEnd /\ ((\E t \in Call : phase[t] # "done") => \E t \in Call : Runs(t)))
<1>1. WaitsEnd => ((\E t \in Call : phase[t] # "done") => \E t \in Call : Runs(t))
  BY DEF WaitsEnd, Runs
<1> QED BY <1>1, InvWaitsEnd, Inductive, PTL
=============================================================================
