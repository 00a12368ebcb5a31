------------------------ MODULE ClientTimelineProofs ------------------------
(***************************************************************************)
(* Theorems about ClientTimeline: for any chats, messages, limits, bounds  *)
(* and failures, types, that no message is shown twice, and that none      *)
(* above lastSequence is missed; for a client that only reads one chat     *)
(* which fits the newest page, that its timeline has no holes and is       *)
(* complete when nothing is under way.                                     *)
(***************************************************************************)
EXTENDS ClientTimeline, FiniteSetTheorems, TLAPS

-----------------------------------------------------------------------------
(* The limits, the pages of the API, and what a merge does. *)

LEMMA Limits ==
  ASSUME instance \in Instances
  PROVE  /\ HistoryLimit \in Nat \ {0} /\ CatchUpLimit \in Nat \ {0}
         /\ MaxPages \in Nat \ {0} /\ RenderLimit \in Nat \ {0}
         /\ Stored \in Nat /\ MaxMessages \in Nat /\ Stored <= MaxMessages
         /\ MaxSelects \in Nat /\ MaxFaults \in Nat
<1>1. /\ instance[1] \in [{"history", "catchUp", "pages", "render"} -> Nat \ {0}]
      /\ instance[2] \in [{"stored", "messages", "selects", "faults"} -> Nat]
      /\ instance[2].stored <= instance[2].messages
  BY InstancesAssumption
<1> QED BY <1>1 DEF HistoryLimit, CatchUpLimit, MaxPages, RenderLimit, Stored, MaxMessages,
        MaxSelects, MaxFaults

LEMMA ItemsAre ==
  ASSUME NEW c, NEW lo \in Nat, NEW hi \in Nat, NEW m
  PROVE  m \in Items(c, lo, hi) <=> m = <<c, m[2]>> /\ m[2] \in lo + 1 .. hi
BY DEF Items

(* A merge of a stretch moves the last sequence to its end, if that is later. *)
LEMMA MergeStretch ==
  ASSUME TypeOK, NEW c \in Chat, NEW lo \in Nat, NEW hi \in Nat, Merge(Items(c, lo, hi))
  PROVE  /\ last' = IF lo < hi /\ last < hi THEN hi ELSE last
         /\ bubble' \in [Own -> {"none", "sending", "failed"}]
         /\ shown' \subseteq shown \cup Items(c, lo, hi)
         /\ \A i \in Own : bubble'[i] \in {"none", bubble[i]}
         /\ \A i \in Own : (\E n \in lo + 1 .. hi : log[c][n] = i) => bubble'[i] = "none"
<1> DEFINE S == Items(c, lo, hi)
<1>1. \A n \in lo + 1 .. hi : <<c, n>> \in S
  BY DEF Items
<1>2. \A m \in S : m[1] = c /\ m[2] \in lo + 1 .. hi
  BY DEF Items
<1>3. bubble' = [i \in Own |-> IF \E m \in S : log[m[1]][m[2]] = i THEN "none" ELSE bubble[i]]
  BY DEF Merge
<1>4. last' = IF \A m \in S : m[2] <= last THEN last
              ELSE CHOOSE n \in {m[2] : m \in S} : \A m \in S : m[2] <= n
  BY DEF Merge
<1>5. shown' \subseteq shown \cup S
  BY DEF Merge, Bounded
<1>6. last' = IF lo < hi /\ last < hi THEN hi ELSE last
  <2> last \in Nat
    BY DEF TypeOK
  <2> HIDE DEF S
  <2>1. CASE lo < hi /\ last < hi
    <3>1. hi \in lo + 1 .. hi
      BY <2>1
    <3>2. <<c, hi>> \in S
      BY <1>1, <3>1
    <3>3. hi \in {m[2] : m \in S} /\ \A m \in S : m[2] <= hi
      BY <1>2, <3>2
    <3>4. \A n \in {m[2] : m \in S} : (\A m \in S : m[2] <= n) => n = hi
      <4> SUFFICES ASSUME NEW k \in S, \A m \in S : m[2] <= k[2] PROVE k[2] = hi
        OBVIOUS
      <4>1. hi <= k[2] /\ k[2] \in lo + 1 .. hi
        BY <1>2, <3>2
      <4> QED BY <4>1
    <3>5. (CHOOSE n \in {m[2] : m \in S} : \A m \in S : m[2] <= n) = hi
      BY <3>3, <3>4
    <3>6. ~ \A m \in S : m[2] <= last
      BY <2>1, <3>2
    <3> QED BY <1>4, <2>1, <3>5, <3>6
  <2>2. CASE ~(lo < hi /\ last < hi)
    <3>1. \A m \in S : m[2] <= last
      BY <1>2, <2>2
    <3> QED BY <1>4, <2>2, <3>1
  <2> QED BY <2>1, <2>2
<1>7. \A i \in Own : (\E n \in lo + 1 .. hi : log[c][n] = i) => bubble'[i] = "none"
  <2> HIDE DEF S
  <2> SUFFICES ASSUME NEW i \in Own, NEW n \in lo + 1 .. hi, log[c][n] = i
               PROVE  bubble'[i] = "none"
    OBVIOUS
  <2>1. \E m \in S : log[m[1]][m[2]] = i
    BY <1>1
  <2> QED BY <1>3, <2>1
<1>8. /\ bubble' \in [Own -> {"none", "sending", "failed"}]
      /\ \A i \in Own : bubble'[i] \in {"none", bubble[i]}
  <2> HIDE DEF S
  <2> QED BY <1>3 DEF TypeOK
<1> QED BY <1>5, <1>6, <1>7, <1>8

LEMMA OneItem ==
  ASSUME NEW c, NEW n \in Nat \ {0}
  PROVE  {<<c, n>>} = Items(c, n - 1, n) /\ n - 1 \in Nat
BY DEF Items

LEMMA PageFacts ==
  ASSUME TypeOK, NEW q \in asked, q.kind = "older" => q.from >= 1
  PROVE  /\ Page(q) \in [ask: Ask, low: Nat, top: Nat, more: BOOLEAN]
         /\ Page(q).ask = q
         /\ Page(q).top <= Len(log[q.chat])
         /\ q.kind = "latest" =>
              /\ Page(q).top = Len(log[q.chat])
              /\ Page(q).low = Most(0, Len(log[q.chat]) - HistoryLimit)
              /\ Page(q).more = (Page(q).low > 0)
         /\ q.kind = "catchUp" =>
              /\ Page(q).low = Least(q.from, Len(log[q.chat]))
              /\ Page(q).top = Least(Len(log[q.chat]), q.from + CatchUpLimit)
              /\ Page(q).more = (Page(q).top < Len(log[q.chat]))
<1>1. q \in Ask /\ q.chat \in Chat /\ q.from \in Nat /\ q.kind \in {"latest", "older", "catchUp"}
  BY DEF TypeOK, Ask
<1>2. Len(log[q.chat]) \in Nat
  BY <1>1 DEF TypeOK
<1>3. HistoryLimit \in Nat \ {0} /\ CatchUpLimit \in Nat \ {0}
  BY Limits DEF TypeOK
<1> DEFINE end == Len(log[q.chat])
<1>4. CASE q.kind = "latest"
  <2>1. Page(q) = [ask |-> q, low |-> Most(0, end - HistoryLimit), top |-> end,
                   more |-> Most(0, end - HistoryLimit) > 0]
    BY <1>4 DEF Page
  <2> QED BY <1>1, <1>2, <1>3, <1>4, <2>1 DEF Most
<1>5. CASE q.kind = "older"
  <2>1. PICK top \in Nat : top = Least(end, q.from - 1) /\ top <= end
    BY <1>1, <1>2, <1>5 DEF Least
  <2>2. Page(q) = [ask |-> q, low |-> Most(0, top - HistoryLimit), top |-> top,
                   more |-> Most(0, top - HistoryLimit) > 0]
    BY <1>5, <2>1 DEF Page
  <2> QED BY <1>1, <1>2, <1>3, <1>5, <2>1, <2>2 DEF Most
<1>6. CASE q.kind = "catchUp"
  <2>1. Page(q) = [ask |-> q, low |-> Least(q.from, end),
                   top |-> Least(end, q.from + CatchUpLimit),
                   more |-> Least(end, q.from + CatchUpLimit) < end]
    BY <1>6 DEF Page
  <2> QED BY <1>1, <1>2, <1>3, <1>6, <2>1 DEF Least
<1> QED BY <1>1, <1>4, <1>5, <1>6
-----------------------------------------------------------------------------
(* What holds of every client.  That nothing is shown twice rests on bubbles   *)
(* being of the selected chat, and of messages that are not among the items.   *)
PostsAgree ==
  \A p \in posts : home[p.id] \in Chat /\ p.seq <= Len(log[home[p.id]])
BubblesAgree ==
  /\ \A i \in Own : bubble[i] # "none" => home[i] = selected
  /\ \A c \in Chat : \A n \in 1 .. Len(log[c]) : log[c][n] \in Own => home[log[c][n]] \in Chat
ReadsAgree ==
  /\ \A q \in asked : q.kind = "older" => q.from >= 1
  /\ \A a \in answers : a.top <= Len(log[a.ask.chat])
  /\ subscription.upto <= Len(log[selected])
ItemsAgree == \A m \in shown : m[2] >= 1 /\ m[2] <= Len(log[m[1]])

ClientInv == TypeOK /\ PostsAgree /\ BubblesAgree /\ ReadsAgree /\ ItemsAgree /\ NoDoubles

LEMMA ClientInit == Init => ClientInv
<1> SUFFICES ASSUME Init PROVE ClientInv
  OBVIOUS
<1>1. TypeOK
  <2>1. Stored \in Nat
    BY Limits DEF Init
  <2>2. log \in [Chat -> Seq(Own \cup {Other})]
    <3>1. [n \in 1 .. Stored |-> Other] \in Seq(Own \cup {Other})
      BY <2>1
    <3> QED BY <3>1 DEF Init
  <2>3. Latest(selected) \in Ask
    BY DEF Init, Latest, Ask
  <2> QED BY <2>2, <2>3 DEF Init, TypeOK, NoSubscription
<1>2. \A c \in Chat : Len(log[c]) \in Nat
  BY <1>1 DEF TypeOK
<1>3. \A c \in Chat : \A n \in 1 .. Len(log[c]) : log[c][n] \notin Own
  <2>1. Stored \in Nat
    BY Limits DEF Init
  <2>2. \A n \in 1 .. Stored : [k \in 1 .. Stored |-> Other][n] \notin Own
    BY IdsAssumption
  <2>3. Len([n \in 1 .. Stored |-> Other]) = Stored
    BY <2>1
  <2> QED BY <2>2, <2>3 DEF Init
<1>4. /\ posts = {} /\ shown = {} /\ answers = {} /\ asked = {Latest(selected)}
      /\ subscription = NoSubscription /\ selected \in Chat
      /\ \A i \in Own : bubble[i] = "none"
  BY DEF Init
<1>5. subscription.upto = 0 /\ \A q \in asked : q.kind = "latest"
  BY <1>4 DEF NoSubscription, Latest
<1>6. PostsAgree /\ ItemsAgree /\ NoDoubles
  BY <1>4 DEF PostsAgree, ItemsAgree, NoDoubles
<1>7. BubblesAgree
  BY <1>3, <1>4 DEF BubblesAgree
<1>8. ReadsAgree
  BY <1>2, <1>4, <1>5 DEF ReadsAgree
<1> QED BY <1>1, <1>6, <1>7, <1>8 DEF ClientInv

(* Steps that leave alone what is stored, shown, sent and answered. *)
LEMMA QuietStep ==
  ASSUME ClientInv, UNCHANGED <<log, shown, bubble, posts, home, answers, selected>>, TypeOK',
         \A q \in asked' : q.kind = "older" => q.from >= 1,
         subscription'.upto <= Len(log[selected])
  PROVE  ClientInv'
BY DEF ClientInv, PostsAgree, BubblesAgree, ReadsAgree, ItemsAgree, NoDoubles

LEMMA SocketStep ==
  ASSUME ClientInv, Connect \/ ConnectFails \/ Disconnect \/ Refuse \/ ReceiveDisconnect \/ Join
                    \/ ReadSubscription \/ SubscriptionTimesOut
  PROVE  ClientInv'
<1>1. CatchUpLimit \in Nat /\ Len(log[selected]) \in Nat /\ selected \in Chat
  BY Limits DEF ClientInv, TypeOK
<1>2. /\ UNCHANGED <<log, shown, bubble, posts, home, answers, selected, asked>>
      /\ UNCHANGED <<unrelayed, last, accepted, before, loading, broken, instance, selects>>
  BY DEF Connect, ConnectFails, Disconnect, Refuse, ReceiveDisconnect, Join, ReadSubscription,
     SubscriptionTimesOut, server, timeline, requests, history, bounds
<1>3. /\ socket' \in {"down", "up", "joined", "closing", "ended"}
      /\ connection' \in {"connecting", "connected", "offline"}
      /\ faults' \in Nat
  BY DEF ClientInv, TypeOK, Connect, ConnectFails, Disconnect, Refuse, ReceiveDisconnect, Join,
     ReadSubscription, SubscriptionTimesOut, Fault, link
<1>4. /\ subscription' \in [stage: {"none", "asked", "joined", "answered", "rejected", "dropped"},
                            after: Nat, upto: Nat, heard: BOOLEAN]
      /\ subscription'.upto <= Len(log[selected])
  <2>0. /\ last \in Nat
        /\ subscription \in [stage: {"none", "asked", "joined", "answered", "rejected", "dropped"},
                             after: Nat, upto: Nat, heard: BOOLEAN]
        /\ subscription.upto <= Len(log[selected])
    BY DEF ClientInv, TypeOK, ReadsAgree
  <2>1. CASE Connect
    <3>1. subscription' = [stage |-> "asked", after |-> last, upto |-> 0, heard |-> TRUE]
      BY <2>1 DEF Connect
    <3> QED BY <1>1, <2>0, <3>1
  <2>5. CASE Disconnect \/ ReceiveDisconnect
    <3>1. subscription' = [stage |-> "none", after |-> 0, upto |-> 0, heard |-> FALSE]
      BY <2>5 DEF Disconnect, ReceiveDisconnect, NoSubscription
    <3> QED BY <1>1, <3>1
  <2>6. CASE Refuse
    <3>1. subscription' = [subscription EXCEPT
                             !.stage = IF @ \in {"asked", "joined"} THEN "dropped" ELSE @]
      BY <2>6 DEF Refuse
    <3> QED BY <2>0, <3>1
  <2>2. CASE ConnectFails
    BY <2>2 DEF ConnectFails, ClientInv, TypeOK, ReadsAgree, link
  <2>3. CASE Join \/ SubscriptionTimesOut
    BY <2>3 DEF Join, SubscriptionTimesOut, ClientInv, TypeOK, ReadsAgree
  <2>4. CASE ReadSubscription
    <3>1. Least(Len(log[selected]), subscription.after + CatchUpLimit) \in 0 .. Len(log[selected])
      BY <1>1 DEF Least, ClientInv, TypeOK
    <3>2. \/ subscription' = [subscription EXCEPT
               !.stage = "answered",
               !.upto = Least(Len(log[selected]), subscription.after + CatchUpLimit)]
          \/ subscription' = [subscription EXCEPT !.stage = "rejected"]
      BY <2>4 DEF ReadSubscription
    <3>3. PICK n \in Nat : /\ n = Least(Len(log[selected]), subscription.after + CatchUpLimit)
                           /\ n <= Len(log[selected])
      BY <1>1, <3>1
    <3> QED BY <2>0, <3>2, <3>3
  <2> QED BY <2>1, <2>2, <2>3, <2>4, <2>5, <2>6
<1>5. TypeOK'
  BY <1>2, <1>3, <1>4 DEF ClientInv, TypeOK
<1> QED BY <1>2, <1>4, <1>5, QuietStep DEF ClientInv, ReadsAgree

LEMMA AskStep ==
  ASSUME ClientInv,
         \/ LoadOlder \/ RetryLatest
         \/ \E q \in asked : ReadFails(q)
         \/ \E e \in unrelayed : Relay(e[1], e[2])
  PROVE  ClientInv'
<1>1. /\ UNCHANGED <<log, shown, bubble, last, posts, home, answers, selected, subscription,
                     socket, before, instance, selects>>
      /\ unrelayed' \subseteq unrelayed
      /\ connection' \in {connection, "offline"}
      /\ loading' \in {loading, TRUE, FALSE} /\ broken' \in {broken, TRUE, FALSE}
      /\ faults' \in {faults, faults + 1}
  <2>1. CASE LoadOlder
    BY <2>1 DEF LoadOlder, server, link, timeline, bounds
  <2>2. CASE RetryLatest
    BY <2>2 DEF RetryLatest, server, link, timeline, bounds
  <2>3. CASE \E q \in asked : ReadFails(q)
    BY <2>3 DEF ReadFails, Fault, server, link, timeline, bounds
  <2>4. CASE \E e \in unrelayed : Relay(e[1], e[2])
    BY <2>4 DEF Relay, Fault, server, link, timeline, history, bounds
  <2> QED BY <2>1, <2>2, <2>3, <2>4
<1>2. faults' \in Nat
  BY <1>1 DEF ClientInv, TypeOK
<1>3. accepted' \in SUBSET Nat
  <2>1. \A e \in unrelayed : e[2] \in Nat
    BY DEF ClientInv, TypeOK
  <2>2. accepted \in SUBSET Nat
    BY DEF ClientInv, TypeOK
  <2>3. \A e \in unrelayed : Relay(e[1], e[2]) => accepted' \subseteq accepted \cup {e[2]}
    BY DEF Relay
  <2>4. (LoadOlder \/ RetryLatest \/ \E q \in asked : ReadFails(q)) => accepted' = accepted
    BY DEF LoadOlder, RetryLatest, ReadFails
  <2> QED BY <2>1, <2>2, <2>3, <2>4
<1>4. /\ asked' \in SUBSET Ask
      /\ \A q \in asked' : q.kind = "older" => q.from >= 1
  <2>0. asked \in SUBSET Ask /\ \A q \in asked : q.kind = "older" => q.from >= 1
    BY DEF ClientInv, TypeOK, ReadsAgree
  <2>1. CASE LoadOlder
    BY <2>0, <2>1 DEF LoadOlder, ClientInv, TypeOK, Ask
  <2>2. CASE RetryLatest
    BY <2>0, <2>2 DEF RetryLatest, ClientInv, TypeOK, Ask, Latest
  <2>3. CASE \E q \in asked : ReadFails(q)
    BY <2>0, <2>3 DEF ReadFails
  <2>4. ASSUME NEW e \in unrelayed, Relay(e[1], e[2])
        PROVE  /\ asked' \in SUBSET Ask
               /\ \A q \in asked' : q.kind = "older" => q.from >= 1
    <3>1. e[1] \in Chat /\ last \in Nat
      BY DEF ClientInv, TypeOK
    <3> QED BY <2>0, <2>4, <3>1 DEF Relay, CatchUp, Ask
  <2> QED BY <2>1, <2>2, <2>3, <2>4
<1>5. TypeOK'
  <2>1. loading' \in BOOLEAN /\ broken' \in BOOLEAN
    BY <1>1 DEF ClientInv, TypeOK
  <2>2. connection' \in {"connecting", "connected", "offline"} /\ unrelayed' \in SUBSET (Chat \X Nat)
    BY <1>1 DEF ClientInv, TypeOK
  <2> QED BY <1>1, <1>2, <1>3, <1>4, <2>1, <2>2 DEF ClientInv, TypeOK
<1> QED BY <1>1, <1>4, <1>5, QuietStep DEF ClientInv, ReadsAgree

LEMMA AnswerStep ==
  ASSUME ClientInv, NEW q \in asked, AnswerRead(q)
  PROVE  ClientInv'
<1>1. q.kind = "older" => q.from >= 1
  BY DEF ClientInv, ReadsAgree
<1>2. /\ Page(q) \in [ask: Ask, low: Nat, top: Nat, more: BOOLEAN]
      /\ Page(q).top <= Len(log[Page(q).ask.chat])
  BY <1>1, PageFacts DEF ClientInv
<1>3. /\ asked' = asked \ {q} /\ answers' = answers \cup {Page(q)}
      /\ UNCHANGED <<server, link, selected, timeline, connection, accepted, history, posts,
                     home, bounds, faults>>
  BY DEF AnswerRead
<1>4. TypeOK'
  BY <1>2, <1>3 DEF ClientInv, TypeOK, server, link, timeline, history, bounds
<1> QED BY <1>2, <1>3, <1>4 DEF ClientInv, PostsAgree, BubblesAgree, ReadsAgree, ItemsAgree,
        NoDoubles, server, link, timeline, history, bounds

(* Merging stored messages shows none of them beside its bubble. *)
LEMMA MergeStep ==
  ASSUME ClientInv, TypeOK', NEW c \in Chat, NEW lo \in Nat, NEW hi \in Nat,
         hi <= Len(log[c]), Merge(Items(c, lo, hi)),
         posts' \subseteq posts, answers' \subseteq answers,
         \A q \in asked' : q.kind = "older" => q.from >= 1,
         subscription'.upto <= Len(log[selected]),
         UNCHANGED <<log, home, selected>>
  PROVE  ClientInv'
<1>0. TypeOK
  BY DEF ClientInv
<1>1. /\ bubble' \in [Own -> {"none", "sending", "failed"}]
      /\ shown' \subseteq shown \cup Items(c, lo, hi)
      /\ \A i \in Own : bubble'[i] \in {"none", bubble[i]}
      /\ \A i \in Own : (\E n \in lo + 1 .. hi : log[c][n] = i) => bubble'[i] = "none"
  BY <1>0, MergeStretch
<1>2. NoDoubles'
  <2> SUFFICES ASSUME NEW m \in shown', log[m[1]][m[2]] \in Own
               PROVE  bubble'[log[m[1]][m[2]]] = "none"
    BY DEF NoDoubles
  <2>1. CASE m \in shown
    BY <1>1, <2>1 DEF ClientInv, NoDoubles
  <2>2. CASE m \in Items(c, lo, hi)
    <3>1. m[1] = c /\ m[2] \in lo + 1 .. hi
      BY <2>2 DEF Items
    <3> QED BY <1>1, <3>1
  <2> QED BY <1>1, <2>1, <2>2
<1>3. ItemsAgree'
  <2> SUFFICES ASSUME NEW m \in shown' PROVE m[2] >= 1 /\ m[2] <= Len(log[m[1]])
    BY DEF ItemsAgree
  <2>1. CASE m \in shown
    BY <2>1 DEF ClientInv, ItemsAgree
  <2>2. CASE m \in Items(c, lo, hi)
    <3>1. m[1] = c /\ m[2] \in lo + 1 .. hi
      BY <2>2 DEF Items
    <3>2. Len(log[c]) \in Nat
      BY DEF ClientInv, TypeOK
    <3> QED BY <3>1, <3>2
  <2> QED BY <1>1, <2>1, <2>2
<1>4. BubblesAgree' /\ PostsAgree' /\ ReadsAgree'
  BY <1>1 DEF ClientInv, BubblesAgree, PostsAgree, ReadsAgree
<1> QED BY <1>2, <1>3, <1>4 DEF ClientInv

(* The types of what a merge leaves alone *)
LEMMA MergeType ==
  ASSUME ClientInv, NEW c \in Chat, NEW lo \in Nat, NEW hi \in Nat,
         Merge(Items(c, lo, hi))
  PROVE  /\ shown' \in SUBSET (Chat \X Nat)
         /\ bubble' \in [Own -> {"none", "sending", "failed"}]
         /\ last' \in Nat
<1>0. TypeOK
  BY DEF ClientInv
<1>1. /\ last' = IF lo < hi /\ last < hi THEN hi ELSE last
      /\ bubble' \in [Own -> {"none", "sending", "failed"}]
      /\ shown' \subseteq shown \cup Items(c, lo, hi)
  BY <1>0, MergeStretch
<1>2. Items(c, lo, hi) \in SUBSET (Chat \X Nat)
  BY DEF Items
<1> QED BY <1>1, <1>2 DEF ClientInv, TypeOK

LEMMA SubscriptionStep ==
  ASSUME ClientInv, ReceiveSubscription
  PROVE  ClientInv'
<1>1. /\ subscription' = NoSubscription
      /\ UNCHANGED <<server, socket, selected, accepted, history, answers, posts, home,
                     bounds, faults>>
  BY DEF ReceiveSubscription
<1>2. subscription'.upto <= Len(log[selected])
  BY <1>1 DEF NoSubscription, ClientInv, TypeOK
<1>3. CASE UNCHANGED <<timeline, asked>> /\ connection' \in {connection, "offline"}
  <2>1. TypeOK'
    BY <1>1, <1>3 DEF ClientInv, TypeOK, NoSubscription, server, timeline, history, bounds
  <2> QED BY <1>1, <1>2, <1>3, <2>1, QuietStep DEF ClientInv, ReadsAgree, server, timeline
<1>4. CASE /\ Merge(Items(selected, subscription.after, subscription.upto))
           /\ asked' = asked \cup
                {CatchUp(selected, Most(subscription.after, subscription.upto), 1)}
           /\ UNCHANGED connection
  <2>1. /\ selected \in Chat /\ subscription.after \in Nat /\ subscription.upto \in Nat
        /\ subscription.upto <= Len(log[selected])
    BY DEF ClientInv, TypeOK, ReadsAgree
  <2>2. asked' \in SUBSET Ask /\ \A q \in asked' : q.kind = "older" => q.from >= 1
    <3>1. Most(subscription.after, subscription.upto) \in Nat
      BY <2>1 DEF Most
    <3> QED BY <1>4, <2>1, <3>1 DEF ClientInv, TypeOK, ReadsAgree, CatchUp, Ask
  <2>3. TypeOK'
    <3>1. /\ shown' \in SUBSET (Chat \X Nat) /\ last' \in Nat
          /\ bubble' \in [Own -> {"none", "sending", "failed"}]
      BY <1>4, <2>1, MergeType
    <3> QED BY <1>1, <1>4, <2>2, <3>1 DEF ClientInv, TypeOK, NoSubscription, server, history, bounds
  <2> QED BY <1>1, <1>2, <1>4, <2>1, <2>2, <2>3, MergeStep DEF server
<1> QED BY <1>3, <1>4 DEF ReceiveSubscription, timeline

LEMMA HistoryStep ==
  ASSUME ClientInv, NEW a \in answers, ReceiveHistory(a) \/ ReceiveCatchUp(a)
  PROVE  ClientInv'
<1>1. /\ a \in [ask: Ask, low: Nat, top: Nat, more: BOOLEAN]
      /\ a.top <= Len(log[a.ask.chat])
  BY DEF ClientInv, TypeOK, ReadsAgree
<1>2. a.ask.chat \in Chat /\ a.ask.page \in Nat /\ a.low \in Nat /\ a.top \in Nat
  BY <1>1 DEF Ask
<1>3. /\ Merge(Items(a.ask.chat, a.low, a.top)) /\ answers' = answers \ {a}
      /\ UNCHANGED <<server, link, selected, accepted, broken, posts, home, bounds, faults>>
  BY DEF ReceiveHistory, ReceiveCatchUp, history
<1>4. /\ before' \in Nat /\ loading' \in BOOLEAN
      /\ connection' \in {connection, "offline"}
  <2>1. CASE ReceiveHistory(a)
    <3>1. /\ before' = a.low + 1 \/ before' = 0
          /\ loading' = FALSE /\ connection' = connection
      BY <2>1 DEF ReceiveHistory
    <3>2. a.low + 1 \in Nat /\ 0 \in Nat
      BY <1>2
    <3> QED BY <3>1, <3>2
  <2>2. CASE ReceiveCatchUp(a)
    BY <2>2 DEF ReceiveCatchUp, history, ClientInv, TypeOK
  <2> QED BY <2>1, <2>2
<1>5. asked' \in SUBSET Ask /\ \A q \in asked' : q.kind = "older" => q.from >= 1
  BY <1>2 DEF ReceiveHistory, ReceiveCatchUp, ClientInv, TypeOK, ReadsAgree, CatchUp, Ask
<1>6. TypeOK'
  <2>1. /\ shown' \in SUBSET (Chat \X Nat) /\ last' \in Nat
        /\ bubble' \in [Own -> {"none", "sending", "failed"}]
    BY <1>2, <1>3, MergeType
  <2> QED BY <1>3, <1>4, <1>5, <2>1 DEF ClientInv, TypeOK, server, link, bounds
<1>7. subscription'.upto <= Len(log[selected])
  BY <1>3 DEF ClientInv, ReadsAgree, link
<1> QED BY <1>1, <1>2, <1>3, <1>5, <1>6, <1>7, MergeStep DEF server

(* A chat grows by one message at its end. *)
LEMMA Grown ==
  ASSUME TypeOK, NEW c \in Chat, NEW x \in Own \cup {Other},
         log' = [log EXCEPT ![c] = Append(@, x)]
  PROVE  /\ log' \in [Chat -> Seq(Own \cup {Other})]
         /\ Len(log[c]) \in Nat /\ Len(log'[c]) = Len(log[c]) + 1
         /\ log'[c][Len(log[c]) + 1] = x
         /\ \A d \in Chat : /\ Len(log[d]) \in Nat /\ Len(log'[d]) >= Len(log[d])
                            /\ \A n \in 1 .. Len(log[d]) : log'[d][n] = log[d][n]
         /\ \A d \in Chat : \A n \in 1 .. Len(log'[d]) :
              n \in 1 .. Len(log[d]) \/ log'[d][n] = x
<1>1. log \in [Chat -> Seq(Own \cup {Other})]
  BY DEF TypeOK
<1>2. PICK s \in Seq(Own \cup {Other}) : s = log[c]
  BY <1>1
<1>3. /\ Append(s, x) \in Seq(Own \cup {Other}) /\ Len(s) \in Nat
      /\ Len(Append(s, x)) = Len(s) + 1 /\ Append(s, x)[Len(s) + 1] = x
      /\ \A n \in 1 .. Len(s) : Append(s, x)[n] = s[n]
  OBVIOUS
<1>4. log'[c] = Append(s, x) /\ \A d \in Chat : d # c => log'[d] = log[d]
  BY <1>1, <1>2
<1>5. log' \in [Chat -> Seq(Own \cup {Other})]
  BY <1>1, <1>2, <1>3
<1>6. \A d \in Chat : Len(log[d]) \in Nat
  BY <1>1
<1>7. \A n \in 1 .. Len(s) + 1 : n \in 1 .. Len(s) \/ n = Len(s) + 1
  BY <1>3
<1> QED BY <1>2, <1>3, <1>4, <1>5, <1>6, <1>7

(* What the panel holds stays true when a chat grows. *)
LEMMA GrowStep ==
  ASSUME ClientInv, NEW c \in Chat, NEW x \in Own \cup {Other},
         x \in Own => home[x] \in Chat,
         log' = [log EXCEPT ![c] = Append(@, x)],
         unrelayed' = unrelayed \cup {<<c, Len(log[c]) + 1>>},
         posts' \in SUBSET Post,
         \A p \in posts' : home[p.id] \in Chat /\ p.seq <= Len(log'[home[p.id]]),
         UNCHANGED <<link, selected, timeline, connection, accepted, history, asked,
                     answers, home, bounds, faults>>
  PROVE  ClientInv'
<1>0. TypeOK
  BY DEF ClientInv
<1>1. /\ log' \in [Chat -> Seq(Own \cup {Other})]
      /\ Len(log[c]) \in Nat
      /\ \A d \in Chat : /\ Len(log[d]) \in Nat /\ Len(log'[d]) >= Len(log[d])
                         /\ \A n \in 1 .. Len(log[d]) : log'[d][n] = log[d][n]
      /\ \A d \in Chat : Len(log'[d]) \in Nat
      /\ \A d \in Chat : \A n \in 1 .. Len(log'[d]) :
           n \in 1 .. Len(log[d]) \/ log'[d][n] = x
  <2>1. log' \in [Chat -> Seq(Own \cup {Other})]
    BY <1>0, Grown
  <2> QED BY <1>0, <2>1, Grown
<1>2. TypeOK'
  BY <1>0, <1>1 DEF TypeOK, link, timeline, history, bounds
<1>3. PostsAgree'
  BY DEF PostsAgree
<1>4. BubblesAgree'
  <2>1. \A d \in Chat : \A n \in 1 .. Len(log'[d]) : log'[d][n] \in Own => home[log'[d][n]] \in Chat
    <3> SUFFICES ASSUME NEW d \in Chat, NEW n \in 1 .. Len(log'[d]), log'[d][n] \in Own
                 PROVE  home[log'[d][n]] \in Chat
      OBVIOUS
    <3>1. CASE log'[d][n] = x
      BY <3>1
    <3>2. CASE n \in 1 .. Len(log[d])
      BY <1>1, <3>2 DEF ClientInv, BubblesAgree
    <3> QED BY <1>1, <3>1, <3>2
  <2> QED BY <2>1 DEF ClientInv, BubblesAgree, timeline
<1>5. ReadsAgree'
  <2>1. \A a \in answers : a.ask.chat \in Chat /\ a.top \in Nat
    BY <1>0 DEF TypeOK, Ask
  <2>2. selected \in Chat /\ subscription.upto \in Nat
    BY <1>0 DEF TypeOK
  <2>3. \A a \in answers : a.top <= Len(log'[a.ask.chat])
    BY <1>1, <2>1 DEF ClientInv, ReadsAgree
  <2>4. subscription.upto <= Len(log'[selected])
    BY <1>1, <2>2 DEF ClientInv, ReadsAgree
  <2> QED BY <2>3, <2>4 DEF ClientInv, ReadsAgree, link
<1>6. \A m \in shown : m[1] \in Chat /\ m[2] \in 1 .. Len(log[m[1]])
  BY <1>0, <1>1 DEF ClientInv, ItemsAgree, TypeOK
<1>7. ItemsAgree' /\ NoDoubles'
  BY <1>1, <1>6 DEF ClientInv, ItemsAgree, NoDoubles, timeline
<1> QED BY <1>2, <1>3, <1>4, <1>5, <1>7 DEF ClientInv

LEMMA WriteStep ==
  ASSUME ClientInv, NEW c \in Chat, Write(c)
  PROVE  ClientInv'
<1>1. /\ log' = [log EXCEPT ![c] = Append(@, Other)]
      /\ unrelayed' = unrelayed \cup {<<c, Len(log[c]) + 1>>}
      /\ UNCHANGED <<link, selected, timeline, connection, accepted, history, asked,
                     answers, home, bounds, faults>>
      /\ posts' = posts
  BY DEF Write, requests
<1>2. \A p \in posts : home[p.id] \in Chat /\ p.seq <= Len(log'[home[p.id]])
  <2>1. \A d \in Chat : Len(log[d]) \in Nat /\ Len(log'[d]) >= Len(log[d]) /\ Len(log'[d]) \in Nat
    <3>1. log' \in [Chat -> Seq(Own \cup {Other})]
      BY <1>1, Grown DEF ClientInv
    <3> QED BY <1>1, <3>1, Grown DEF ClientInv
  <2>2. \A p \in posts : p.seq \in Nat
    BY DEF ClientInv, TypeOK, Post
  <2> QED BY <2>1, <2>2 DEF ClientInv, PostsAgree
<1>3. posts \in SUBSET Post
  BY DEF ClientInv, TypeOK
<1> QED BY <1>1, <1>2, <1>3, IdsAssumption, GrowStep

LEMMA StoreStep ==
  ASSUME ClientInv, NEW p \in posts, StorePost(p)
  PROVE  ClientInv'
<1>1. PICK c \in Chat : c = home[p.id]
  BY DEF ClientInv, PostsAgree
<1>2. p \in Post /\ p.id \in Own /\ posts \in SUBSET Post
  BY DEF ClientInv, TypeOK, Post
<1>3. UNCHANGED <<link, selected, timeline, connection, accepted, history, asked,
                  answers, home, bounds, faults>>
  BY DEF StorePost
<1>4. \A n \in Nat : [p EXCEPT !.seq = n] \in Post /\ [p EXCEPT !.seq = n].id = p.id
                     /\ [p EXCEPT !.seq = n].seq = n
  BY <1>2 DEF Post
<1>5. Len(log[c]) \in Nat /\ DOMAIN log[c] = 1 .. Len(log[c])
  BY DEF ClientInv, TypeOK
<1>6. CASE /\ log' = [log EXCEPT ![c] = Append(@, p.id)]
           /\ unrelayed' = unrelayed \cup {<<c, Len(log[c]) + 1>>}
           /\ posts' \subseteq posts \cup {[p EXCEPT !.seq = Len(log[c]) + 1]}
  <2>1. \A d \in Chat : Len(log[d]) \in Nat /\ Len(log'[d]) >= Len(log[d]) /\ Len(log'[d]) \in Nat
    <3>1. log' \in [Chat -> Seq(Own \cup {Other})]
      BY <1>2, <1>6, Grown DEF ClientInv
    <3> QED BY <1>2, <1>6, <3>1, Grown DEF ClientInv
  <2>2. \A q \in posts : q.seq \in Nat
    BY <1>2 DEF Post
  <2>3. \A q \in posts : home[q.id] \in Chat /\ q.seq <= Len(log'[home[q.id]])
    BY <2>1, <2>2 DEF ClientInv, PostsAgree
  <2>4. Len(log'[c]) = Len(log[c]) + 1
    BY <1>2, <1>6, Grown DEF ClientInv
  <2>7. PICK new \in Post : /\ new.id = p.id /\ new.seq = Len(log[c]) + 1
                           /\ new = [p EXCEPT !.seq = Len(log[c]) + 1]
    <3>1. PICK k \in Nat : k = Len(log[c]) + 1
      BY <1>5
    <3> QED BY <1>4, <3>1
  <2>5. \A q \in posts' : home[q.id] \in Chat /\ q.seq <= Len(log'[home[q.id]])
    <3>1. home[new.id] \in Chat /\ new.seq <= Len(log'[home[new.id]])
      BY <1>1, <1>5, <2>4, <2>7
    <3> QED BY <1>6, <2>3, <2>7, <3>1
  <2>6. posts' \in SUBSET Post
    BY <1>2, <1>6, <2>7
  <2> QED BY <1>1, <1>2, <1>3, <1>6, <2>5, <2>6, GrowStep
<1>7. CASE /\ UNCHANGED server
           /\ \E n \in DOMAIN log[c] : posts' \subseteq posts \cup {[p EXCEPT !.seq = n]}
  <2>1. PICK n \in 1 .. Len(log[c]) : posts' \subseteq posts \cup {[p EXCEPT !.seq = n]}
    BY <1>5, <1>7
  <2>4. PICK new \in Post : /\ new.id = p.id /\ new.seq = n
                           /\ new = [p EXCEPT !.seq = n]
    <3>1. PICK k \in Nat : k = n
      BY <1>5
    <3> QED BY <1>4, <3>1
  <2>2. posts' \in SUBSET Post /\ PostsAgree'
    <3>1. \A q \in posts : home[q.id] \in Chat /\ q.seq <= Len(log[home[q.id]])
      BY DEF ClientInv, PostsAgree
    <3>2. home[new.id] \in Chat /\ new.seq <= Len(log[home[new.id]])
      BY <1>1, <1>5, <2>4
    <3>3. \A q \in posts' : home[q.id] \in Chat /\ q.seq <= Len(log[home[q.id]])
      BY <2>1, <2>4, <3>1, <3>2
    <3> QED BY <1>2, <1>3, <1>7, <2>1, <2>4, <3>3 DEF PostsAgree, server
  <2>3. TypeOK'
    BY <1>3, <1>7, <2>2 DEF ClientInv, TypeOK, server, link, timeline, history, bounds
  <2> QED BY <1>3, <1>7, <2>2, <2>3 DEF ClientInv, BubblesAgree, ReadsAgree, ItemsAgree, NoDoubles,
          server, link, timeline
<1> QED BY <1>1, <1>6, <1>7 DEF StorePost

LEMMA SelectStep ==
  ASSUME ClientInv, NEW c \in Chat, Select(c)
  PROVE  ClientInv'
<1>1. /\ selected' = c /\ shown' = {} /\ bubble' = [i \in Own |-> "none"] /\ last' = 0
      /\ accepted' = {} /\ before' = 0 /\ loading' = TRUE /\ broken' = FALSE
      /\ asked' = asked \cup {Latest(c)} /\ connection' = "connecting"
      /\ socket' = "down" /\ subscription' = NoSubscription /\ selects' = selects + 1
      /\ UNCHANGED <<log, unrelayed, answers, posts, home, instance, faults>>
  BY DEF Select, server
<1>2. Latest(c) \in Ask /\ Latest(c).kind = "latest"
  BY DEF Latest, Ask
<1>3. /\ NoSubscription \in [stage: {"none", "asked", "joined", "answered", "rejected", "dropped"},
                             after: Nat, upto: Nat, heard: BOOLEAN]
      /\ NoSubscription.upto = 0
  BY DEF NoSubscription
<1>4. TypeOK'
  <2>1. asked' \in SUBSET Ask
    BY <1>1, <1>2 DEF ClientInv, TypeOK
  <2>2. selects' \in Nat
    BY <1>1 DEF ClientInv, TypeOK
  <2>3. /\ subscription' \in [stage: {"none", "asked", "joined", "answered", "rejected", "dropped"},
                               after: Nat, upto: Nat, heard: BOOLEAN]
        /\ bubble' \in [Own -> {"none", "sending", "failed"}]
    BY <1>1, <1>3
  <2> QED BY <1>1, <2>1, <2>2, <2>3 DEF ClientInv, TypeOK
<1>5. Len(log[c]) \in Nat
  BY DEF ClientInv, TypeOK
<1>6. ReadsAgree'
  BY <1>1, <1>2, <1>3, <1>5 DEF ClientInv, ReadsAgree
<1>7. PostsAgree' /\ BubblesAgree' /\ ItemsAgree' /\ NoDoubles'
  BY <1>1 DEF ClientInv, PostsAgree, BubblesAgree, ItemsAgree, NoDoubles
<1> QED BY <1>4, <1>6, <1>7 DEF ClientInv

(* A message is sent again only to the chat it was sent to, which is still the *)
(* selected one, as its bubble is there.                                       *)
LEMMA SendStep ==
  ASSUME ClientInv, NEW i \in Own, Send(i)
  PROVE  ClientInv'
<1> DEFINE new == [id |-> i, seq |-> 0, heard |-> TRUE]
<1>1. /\ home[i] = None \/ bubble[i] = "failed"
      /\ home' = [home EXCEPT ![i] = selected]
      /\ bubble' = [bubble EXCEPT ![i] = "sending"]
      /\ shown' \subseteq shown
      /\ posts' = posts \cup {new}
      /\ UNCHANGED <<log, unrelayed, link, selected, last, connection, accepted, history, asked,
                     answers, bounds, faults>>
  BY DEF Send, Bounded, server
<1>2. new \in Post /\ new.id = i /\ new.seq = 0
  BY DEF Post
<1>3. /\ home \in [Own -> Chat \cup {None}] /\ bubble \in [Own -> {"none", "sending", "failed"}]
      /\ selected \in Chat /\ posts \in SUBSET Post
      /\ \A c \in Chat : Len(log[c]) \in Nat
  BY DEF ClientInv, TypeOK
<1>4. home[i] = None \/ home[i] = selected
  BY <1>1 DEF ClientInv, BubblesAgree
<1>5. TypeOK'
  BY <1>1, <1>2, <1>3 DEF ClientInv, TypeOK, link, history, bounds
<1>6. PostsAgree'
  <2> HIDE DEF new
  <2>1. \A p \in posts : p.id \in Own /\ home[p.id] \in Chat /\ p.seq <= Len(log[home[p.id]])
    BY <1>3 DEF ClientInv, PostsAgree, Post
  <2>2. \A p \in posts : home'[p.id] = home[p.id]
    BY <1>1, <1>3, <1>4, <2>1, IdsAssumption
  <2>3. home'[i] = selected
    BY <1>1, <1>3
  <2> QED BY <1>1, <1>2, <1>3, <2>1, <2>2, <2>3 DEF PostsAgree
<1>7. BubblesAgree'
  <2>1. \A j \in Own : home'[j] = IF j = i THEN selected ELSE home[j]
    BY <1>1, <1>3
  <2>2. \A j \in Own : j # i => bubble'[j] = bubble[j]
    BY <1>1, <1>3
  <2> QED BY <1>1, <1>3, <2>1, <2>2 DEF ClientInv, BubblesAgree
<1>8. NoDoubles'
  <2>1. \A m \in shown : m[1] \in Chat /\ m[2] \in 1 .. Len(log[m[1]])
    BY <1>3 DEF ClientInv, ItemsAgree, TypeOK
  <2>2. \A m \in shown : log[m[1]][m[2]] # i
    <3> SUFFICES ASSUME NEW m \in shown, log[m[1]][m[2]] = i PROVE FALSE
      OBVIOUS
    <3>1. home[i] \in Chat
      BY <2>1 DEF ClientInv, BubblesAgree
    <3>2. bubble[i] = "none"
      BY DEF ClientInv, NoDoubles
    <3> QED BY <1>1, <3>1, <3>2, IdsAssumption
  <2>3. \A j \in Own : j # i => bubble'[j] = bubble[j]
    BY <1>1, <1>3
  <2> QED BY <1>1, <2>2, <2>3 DEF ClientInv, NoDoubles
<1>9. ReadsAgree' /\ ItemsAgree'
  BY <1>1 DEF ClientInv, ReadsAgree, ItemsAgree, link
<1> QED BY <1>5, <1>6, <1>7, <1>8, <1>9 DEF ClientInv

LEMMA PostStep ==
  ASSUME ClientInv, NEW p \in posts, ReceivePost(p) \/ PostFails(p)
  PROVE  ClientInv'
<1>1. p \in Post /\ p.id \in Own /\ p.seq \in Nat /\ home[p.id] \in Chat
      /\ p.seq <= Len(log[home[p.id]]) /\ posts \in SUBSET Post
  BY DEF ClientInv, TypeOK, PostsAgree, Post
<1>2. CASE ReceivePost(p)
  <2>1. /\ p.seq \in Nat \ {0} /\ posts' = posts \ {p}
        /\ Merge({<<home[p.id], p.seq>>})
        /\ UNCHANGED <<server, link, selected, connection, accepted, history, asked, answers,
                       home, bounds, faults>>
    BY <1>1, <1>2 DEF ReceivePost
  <2>2. p.seq - 1 \in Nat /\ Merge(Items(home[p.id], p.seq - 1, p.seq))
    BY <1>1, <2>1, OneItem
  <2>3. TypeOK'
    <3>1. /\ shown' \in SUBSET (Chat \X Nat) /\ last' \in Nat
          /\ bubble' \in [Own -> {"none", "sending", "failed"}]
      BY <1>1, <2>2, MergeType
    <3> QED BY <2>1, <3>1 DEF ClientInv, TypeOK, server, link, history, bounds
  <2>4. /\ \A q \in asked' : q.kind = "older" => q.from >= 1
        /\ subscription'.upto <= Len(log[selected])
    BY <2>1 DEF ClientInv, ReadsAgree, link
  <2> QED BY <1>1, <2>1, <2>2, <2>3, <2>4, MergeStep DEF server
<1>3. CASE PostFails(p)
  <2>1. /\ posts' \subseteq posts \cup {[p EXCEPT !.heard = FALSE]}
        /\ bubble' = [bubble EXCEPT ![p.id] = IF @ = "none" THEN @ ELSE "failed"]
        /\ faults' = faults + 1
        /\ UNCHANGED <<server, link, selected, shown, last, connection, accepted, history,
                       asked, answers, home, bounds>>
    BY <1>3 DEF PostFails, Fault
  <2>2. /\ [p EXCEPT !.heard = FALSE] \in Post /\ [p EXCEPT !.heard = FALSE].id = p.id
        /\ [p EXCEPT !.heard = FALSE].seq = p.seq
    BY <1>1 DEF Post
  <2>3. /\ bubble' \in [Own -> {"none", "sending", "failed"}]
        /\ \A j \in Own : bubble[j] = "none" <=> bubble'[j] = "none"
    BY <1>1, <2>1 DEF ClientInv, TypeOK
  <2>4. TypeOK'
    <3>1. posts' \in SUBSET Post
      BY <1>1, <2>1, <2>2
    <3>2. faults' \in Nat
      BY <2>1 DEF ClientInv, TypeOK
    <3> QED BY <2>1, <2>3, <3>1, <3>2 DEF ClientInv, TypeOK, server, link, history, bounds
  <2>5. PostsAgree'
    BY <1>1, <2>1, <2>2 DEF ClientInv, PostsAgree, server
  <2>6. BubblesAgree' /\ NoDoubles'
    BY <2>1, <2>3 DEF ClientInv, BubblesAgree, NoDoubles, server
  <2> QED BY <2>1, <2>4, <2>5, <2>6 DEF ClientInv, ReadsAgree, ItemsAgree, server, link
<1> QED BY <1>2, <1>3

LEMMA ClientNext == ClientInv /\ [Next]_vars => ClientInv'
<1> SUFFICES ASSUME ClientInv, [Next]_vars PROVE ClientInv'
  OBVIOUS
<1>1. CASE UNCHANGED vars
  BY <1>1 DEF ClientInv, TypeOK, PostsAgree, BubblesAgree, ReadsAgree, ItemsAgree, NoDoubles,
     vars, server, link, timeline, history, requests, bounds
<1>2. CASE Gateway
  BY <1>2, SocketStep, SubscriptionStep DEF Gateway
<1>3. CASE Reads
  BY <1>3, AnswerStep, HistoryStep DEF Reads
<1>4. CASE Sends
  BY <1>4, StoreStep, PostStep DEF Sends
<1>5. CASE Failures
  BY <1>5, SocketStep, AskStep, PostStep DEF Failures
<1>6. CASE \E c \in Chat : Write(c) \/ Select(c)
  BY <1>6, WriteStep, SelectStep
<1>7. CASE LoadOlder \/ RetryLatest \/ \E e \in unrelayed : Relay(e[1], e[2])
  BY <1>7, AskStep
<1>8. CASE \E i \in Own : Send(i)
  BY <1>8, SendStep
<1> QED BY <1>1, <1>2, <1>3, <1>4, <1>5, <1>6, <1>7, <1>8 DEF Next

LEMMA ClientHolds == Spec => []ClientInv
BY ClientInit, ClientNext, PTL DEF Spec

(* TypeOK: the types of the panel's state, for every chat, message, limit and *)
(* failure.                                                                   *)
THEOREM TypeCorrect == Spec => []TypeOK
<1>1. ClientInv => TypeOK
  BY DEF ClientInv
<1> QED BY <1>1, ClientHolds, PTL

(* NoDoubles: whatever is sent, sent again, answered, pushed, lost or left     *)
(* behind with its chat, a stored message is never shown beside its bubble     *)
(* (mergeStoredMessages and the dispatches of sendMessage).                    *)
THEOREM NothingTwice == Spec => []NoDoubles
<1>1. ClientInv => NoDoubles
  BY DEF ClientInv
<1> QED BY <1>1, ClientHolds, PTL

-----------------------------------------------------------------------------
(* What holds of every client about what its timeline lacks.  Every message    *)
(* above lastSequence, while the header says connected, is on its way: its     *)
(* event has not been accepted, or a subscription or a catch-up that began     *)
(* below it is under way and reaches it or is followed by another.             *)
EventsAgree ==
  /\ \A e \in unrelayed : e[2] <= Len(log[e[1]])
  /\ \A n \in accepted : n <= Len(log[selected])
CatchUpsAgree ==
  /\ \A q \in asked : q.kind = "catchUp" => q.page <= MaxPages
  /\ \A a \in answers : a.ask.kind = "catchUp" => a.ask.page <= MaxPages
  /\ subscription.after <= last
  /\ subscription.stage # "none" /\ ~subscription.heard => connection # "connected"
OnItsWay(n) ==
  \/ <<selected, n>> \in unrelayed /\ n \notin accepted
  \/ subscription.stage # "none"
  \/ \E q \in asked : q.kind = "catchUp" /\ q.chat = selected /\ q.from < n
  \/ \E a \in answers : /\ a.ask.kind = "catchUp" /\ a.ask.chat = selected
                        /\ a.low < n /\ (n <= a.top \/ a.more)
NothingLost ==
  socket = "joined" /\ connection = "connected" =>
    \A n \in last + 1 .. Len(log[selected]) : OnItsWay(n)

WayInv == EventsAgree /\ CatchUpsAgree /\ NothingLost
Updating == ClientInv /\ WayInv

LEMMA ClientTypes ==
  ASSUME ClientInv
  PROVE  /\ TypeOK /\ selected \in Chat /\ last \in Nat
         /\ \A c \in Chat : Len(log[c]) \in Nat
         /\ unrelayed \in SUBSET (Chat \X Nat) /\ accepted \in SUBSET Nat
         /\ asked \in SUBSET Ask /\ answers \in SUBSET [ask: Ask, low: Nat, top: Nat, more: BOOLEAN]
         /\ \A q \in asked : /\ q.chat \in Chat /\ q.from \in Nat /\ q.page \in Nat
                             /\ q.kind \in {"latest", "older", "catchUp"}
                             /\ q.kind = "older" => q.from >= 1
         /\ \A a \in answers : /\ a.ask.chat \in Chat /\ a.ask.page \in Nat
                               /\ a.ask.kind \in {"latest", "older", "catchUp"}
                               /\ a.low \in Nat /\ a.top \in Nat /\ a.more \in BOOLEAN
                               /\ a.top <= Len(log[a.ask.chat])
         /\ subscription \in [stage: {"none", "asked", "joined", "answered", "rejected", "dropped"},
                              after: Nat, upto: Nat, heard: BOOLEAN]
         /\ subscription.after \in Nat /\ subscription.upto \in Nat
         /\ subscription.upto <= Len(log[selected])
         /\ HistoryLimit \in Nat \ {0} /\ CatchUpLimit \in Nat \ {0} /\ MaxPages \in Nat \ {0}
         /\ MaxMessages \in Nat
<1>1. TypeOK
  BY DEF ClientInv
<1>2. /\ selected \in Chat /\ last \in Nat
      /\ \A c \in Chat : Len(log[c]) \in Nat
      /\ unrelayed \in SUBSET (Chat \X Nat) /\ accepted \in SUBSET Nat
      /\ subscription \in [stage: {"none", "asked", "joined", "answered", "rejected", "dropped"},
                           after: Nat, upto: Nat, heard: BOOLEAN]
      /\ asked \in SUBSET Ask /\ answers \in SUBSET [ask: Ask, low: Nat, top: Nat, more: BOOLEAN]
  BY <1>1 DEF TypeOK
<1>3. \A q \in Ask : /\ q.chat \in Chat /\ q.from \in Nat /\ q.page \in Nat
                     /\ q.kind \in {"latest", "older", "catchUp"}
  BY DEF Ask
<1>4. \A a \in answers : /\ a.ask.chat \in Chat /\ a.ask.page \in Nat
                         /\ a.ask.kind \in {"latest", "older", "catchUp"}
                         /\ a.low \in Nat /\ a.top \in Nat /\ a.more \in BOOLEAN
  BY <1>2, <1>3
<1>5. /\ \A q \in asked : q.kind = "older" => q.from >= 1
      /\ \A a \in answers : a.top <= Len(log[a.ask.chat])
      /\ subscription.upto <= Len(log[selected])
  BY DEF ClientInv, ReadsAgree
<1>6. /\ HistoryLimit \in Nat \ {0} /\ CatchUpLimit \in Nat \ {0} /\ MaxPages \in Nat \ {0}
      /\ MaxMessages \in Nat
  BY <1>1, Limits DEF TypeOK
<1>7. \A q \in asked : /\ q.chat \in Chat /\ q.from \in Nat /\ q.page \in Nat
                       /\ q.kind \in {"latest", "older", "catchUp"}
  BY <1>2, <1>3
<1> QED BY <1>1, <1>2, <1>4, <1>5, <1>6, <1>7

LEMMA Beyond ==
  ASSUME NEW k \in Nat, NEW l \in Nat, NEW end \in Nat, k <= l
  PROVE  \A n \in l + 1 .. end : n \in k + 1 .. end /\ k < n
OBVIOUS

LEMMA WayInit == Init => WayInv
<1> SUFFICES ASSUME Init PROVE WayInv
  OBVIOUS
<1>1. /\ asked = {Latest(selected)} /\ answers = {} /\ unrelayed = {} /\ accepted = {}
      /\ subscription = NoSubscription /\ last = 0 /\ socket = "down"
  BY DEF Init
<1>2. Latest(selected).kind = "latest"
  BY DEF Latest
<1>3. subscription.after = 0 /\ subscription.stage = "none"
  BY <1>1 DEF NoSubscription
<1> QED BY <1>1, <1>2, <1>3 DEF WayInv, EventsAgree, CatchUpsAgree, NothingLost

(* Steps of the user's own messages, of other reads, and of a reader that waits. *)
LEMMA IdleWay ==
  ASSUME Updating, last' \in Nat, last' >= last,
         asked \subseteq asked', \A q \in asked' \ asked : q.kind # "catchUp",
         UNCHANGED <<log, unrelayed, socket, subscription, selected, connection, accepted,
                     answers, instance>>
  PROVE  WayInv'
<1>0. ClientInv
  BY DEF Updating
<1>1. EventsAgree'
  BY DEF Updating, WayInv, EventsAgree
<1>2. CatchUpsAgree'
  <2>1. subscription.after <= last'
    BY <1>0, ClientTypes DEF Updating, WayInv, CatchUpsAgree
  <2>2. \A q \in asked' : q.kind = "catchUp" => q.page <= MaxPages
    BY DEF Updating, WayInv, CatchUpsAgree
  <2> QED BY <2>1, <2>2 DEF Updating, WayInv, CatchUpsAgree, MaxPages
<1>3. NothingLost'
  <2>1. \A n \in last' + 1 .. Len(log[selected]) : n \in last + 1 .. Len(log[selected])
    <3>1. last \in Nat /\ last' \in Nat /\ last <= last' /\ Len(log[selected]) \in Nat
      BY <1>0, ClientTypes
    <3> QED BY <3>1, Beyond, Zenon
  <2> SUFFICES ASSUME socket = "joined", connection = "connected",
                      NEW n \in last' + 1 .. Len(log[selected])
               PROVE  OnItsWay(n)'
    BY DEF NothingLost
  <2>2. OnItsWay(n)
    BY <2>1 DEF Updating, WayInv, NothingLost
  <2> QED BY <2>2 DEF OnItsWay
<1> QED BY <1>1, <1>2, <1>3 DEF WayInv

(* The socket: a connected socket subscribes after what the timeline has. *)
LEMMA LinkWay ==
  ASSUME Updating, Connect \/ ConnectFails \/ Disconnect \/ Refuse \/ ReceiveDisconnect \/ Join
                   \/ ReadSubscription \/ SubscriptionTimesOut
  PROVE  WayInv'
<1>0. ClientInv
  BY DEF Updating
<1>1. UNCHANGED <<log, unrelayed, selected, last, accepted, asked, answers, instance>>
  BY DEF Connect, ConnectFails, Disconnect, Refuse, ReceiveDisconnect, Join, ReadSubscription,
     SubscriptionTimesOut, server, timeline, history, requests, bounds
<1>2. EventsAgree'
  BY <1>1 DEF Updating, WayInv, EventsAgree
<1>3. subscription \in [stage: {"none", "asked", "joined", "answered", "rejected", "dropped"},
                        after: Nat, upto: Nat, heard: BOOLEAN] /\ last \in Nat
  BY <1>0, ClientTypes
<1>4. /\ subscription'.after <= last
      /\ subscription'.stage # "none" /\ ~subscription'.heard => connection' # "connected"
      /\ socket' = "joined" /\ connection' = "connected" =>
           \/ subscription'.stage # "none"
           \/ subscription' = subscription /\ socket = "joined" /\ connection = "connected"
  <2>0. /\ subscription.after <= last
        /\ subscription.stage # "none" /\ ~subscription.heard => connection # "connected"
    BY DEF Updating, WayInv, CatchUpsAgree
  <2>1. CASE Connect
    <3>1. /\ socket' = "up" /\ connection' = "connected"
          /\ subscription' = [stage |-> "asked", after |-> last, upto |-> 0, heard |-> TRUE]
      BY <2>1 DEF Connect
    <3> QED BY <1>3, <3>1
  <2>2. CASE Disconnect \/ ReceiveDisconnect
    BY <1>3, <2>2 DEF Disconnect, ReceiveDisconnect, NoSubscription
  <2>3. CASE ConnectFails
    BY <2>0, <2>3 DEF ConnectFails, link
  <2>4. CASE SubscriptionTimesOut
    BY <1>3, <2>0, <2>4 DEF SubscriptionTimesOut
  <2>5. CASE Join
    BY <1>3, <2>0, <2>5 DEF Join
  <2>6. CASE ReadSubscription
    <3>1. /\ subscription.stage = "joined" /\ connection' = connection
          /\ subscription'.stage \in {"answered", "rejected"}
          /\ subscription'.heard = subscription.heard
          /\ subscription'.after = subscription.after
      BY <1>3, <2>6 DEF ReadSubscription
    <3> QED BY <2>0, <3>1
  <2>7. CASE Refuse
    <3>1. /\ socket' = "closing" /\ connection' = connection
          /\ subscription'.stage # "none" => subscription.stage # "none"
          /\ subscription'.heard = subscription.heard
          /\ subscription'.after = subscription.after
      BY <1>3, <2>7 DEF Refuse
    <3> QED BY <2>0, <3>1
  <2> QED BY <2>1, <2>2, <2>3, <2>4, <2>5, <2>6, <2>7
<1>5. CatchUpsAgree'
  BY <1>1, <1>4 DEF Updating, WayInv, CatchUpsAgree, MaxPages
<1>6. NothingLost'
  BY <1>1, <1>4 DEF Updating, WayInv, NothingLost, OnItsWay
<1> QED BY <1>2, <1>5, <1>6 DEF WayInv

(* A new message of anybody has an event that nobody has accepted. *)
LEMMA GrowWay ==
  ASSUME Updating, NEW c \in Chat, NEW x \in Own \cup {Other},
         log' = [log EXCEPT ![c] = Append(@, x)],
         unrelayed' = unrelayed \cup {<<c, Len(log[c]) + 1>>},
         UNCHANGED <<socket, subscription, selected, last, connection, accepted, asked, answers,
                     instance>>
  PROVE  WayInv'
<1>0. ClientInv
  BY DEF Updating
<1>1. /\ Len(log[c]) \in Nat /\ Len(log'[c]) = Len(log[c]) + 1
      /\ \A d \in Chat : Len(log[d]) \in Nat /\ Len(log'[d]) >= Len(log[d])
      /\ \A d \in Chat : d # c => log'[d] = log[d]
  <2>1. \A d \in Chat : d # c => log'[d] = log[d]
    BY <1>0, ClientTypes DEF TypeOK
  <2> QED BY <1>0, <2>1, Grown, ClientTypes
<1>2. EventsAgree'
  <2>1. \A e \in unrelayed : e[1] \in Chat /\ e[2] \in Nat
    BY <1>0, ClientTypes
  <2>2. \A e \in unrelayed' : e[2] <= Len(log'[e[1]])
    BY <1>1, <2>1 DEF Updating, WayInv, EventsAgree
  <2>3. accepted \in SUBSET Nat
    BY <1>0, ClientTypes
  <2>4. \A n \in accepted : n <= Len(log'[selected])
    BY <1>0, <1>1, <2>3, ClientTypes DEF Updating, WayInv, EventsAgree
  <2> QED BY <2>2, <2>4 DEF EventsAgree
<1>3. CatchUpsAgree'
  BY DEF Updating, WayInv, CatchUpsAgree, MaxPages
<1>4. NothingLost'
  <2> SUFFICES ASSUME socket = "joined", connection = "connected",
                      NEW n \in last + 1 .. Len(log'[selected])
               PROVE  OnItsWay(n)'
    BY DEF NothingLost
  <2>1. CASE n \in last + 1 .. Len(log[selected])
    BY <2>1 DEF Updating, WayInv, NothingLost, OnItsWay
  <2>2. CASE n = Len(log[selected]) + 1 /\ selected = c
    <3>1. n \notin accepted
      BY <1>1, <2>2 DEF Updating, WayInv, EventsAgree
    <3> QED BY <2>2, <3>1 DEF OnItsWay
  <2> QED BY <1>0, <1>1, <2>1, <2>2, ClientTypes
<1> QED BY <1>2, <1>3, <1>4 DEF WayInv

(* An event that is new to the client asks for what follows lastSequence. *)
LEMMA RelayWay ==
  ASSUME Updating, NEW c, NEW n, Relay(c, n)
  PROVE  WayInv'
<1>0. ClientInv
  BY DEF Updating
<1>1. /\ <<c, n>> \in unrelayed
      /\ unrelayed' = unrelayed \/ unrelayed' = unrelayed \ {<<c, n>>}
      /\ UNCHANGED <<log, socket, subscription, selected, last, connection, answers, instance>>
  BY DEF Relay, link, timeline, bounds
<1>2. \/ UNCHANGED <<accepted, asked>> /\ ~(socket = "joined" /\ c = selected /\ n \notin accepted)
      \/ /\ c = selected /\ accepted' = accepted \cup {n}
         /\ asked' = asked \cup {CatchUp(c, last, 1)}
  BY DEF Relay
<1>3. c \in Chat /\ n \in Nat /\ n <= Len(log[c])
  BY <1>0, <1>1, ClientTypes DEF Updating, WayInv, EventsAgree
<1>4. /\ CatchUp(c, last, 1).chat = c /\ CatchUp(c, last, 1).kind = "catchUp"
      /\ CatchUp(c, last, 1).from = last /\ CatchUp(c, last, 1).page = 1
  BY DEF CatchUp
<1>5. EventsAgree'
  BY <1>1, <1>2, <1>3 DEF Updating, WayInv, EventsAgree
<1>6. CatchUpsAgree'
  <2>1. \A q \in asked' : q.kind = "catchUp" => q.page <= MaxPages
    <3>1. 1 <= MaxPages
      BY <1>0, ClientTypes
    <3> QED BY <1>2, <1>4, <3>1 DEF Updating, WayInv, CatchUpsAgree
  <2> QED BY <1>1, <2>1 DEF Updating, WayInv, CatchUpsAgree, MaxPages
<1>7. NothingLost'
  <2> SUFFICES ASSUME socket = "joined", connection = "connected",
                      NEW k \in last + 1 .. Len(log[selected])
               PROVE  OnItsWay(k)'
    BY <1>1 DEF NothingLost
  <2>1. OnItsWay(k)
    BY DEF Updating, WayInv, NothingLost
  <2>2. CASE c = selected /\ asked' = asked \cup {CatchUp(c, last, 1)}
    <3>1. last < k
      BY <1>0, ClientTypes
    <3> QED BY <1>1, <1>4, <2>2, <3>1 DEF OnItsWay
  <2>3. CASE UNCHANGED <<accepted, asked>> /\ ~(c = selected /\ n \notin accepted)
    BY <1>1, <2>1, <2>3 DEF OnItsWay
  <2> QED BY <1>2, <2>2, <2>3
<1> QED BY <1>5, <1>6, <1>7 DEF WayInv

LEMMA FailWay ==
  ASSUME Updating, NEW q \in asked, ReadFails(q)
  PROVE  WayInv'
<1>1. /\ UNCHANGED <<log, unrelayed, socket, subscription, selected, last, accepted, answers,
                     instance>>
      /\ asked' = asked \ {q}
      /\ IF q.kind = "catchUp" THEN connection' = "offline" ELSE connection' = connection
  BY DEF ReadFails, server, link, timeline, bounds
<1>2. EventsAgree' /\ CatchUpsAgree'
  BY <1>1 DEF Updating, WayInv, EventsAgree, CatchUpsAgree, MaxPages
<1>3. CASE q.kind = "catchUp"
  BY <1>1, <1>2, <1>3 DEF WayInv, NothingLost
<1>4. CASE q.kind # "catchUp"
  <2>1. NothingLost'
    BY <1>1, <1>4 DEF Updating, WayInv, NothingLost, OnItsWay
  <2> QED BY <1>2, <2>1 DEF WayInv
<1> QED BY <1>3, <1>4

(* A catch-up from below a message is answered with a page that begins below  *)
(* it, and reaches it or says that there is more.                             *)
LEMMA AnswerWay ==
  ASSUME Updating, NEW q \in asked, AnswerRead(q)
  PROVE  WayInv'
<1>0. ClientInv
  BY DEF Updating
<1>1. /\ asked' = asked \ {q} /\ answers' = answers \cup {Page(q)}
      /\ UNCHANGED <<log, unrelayed, socket, subscription, selected, last, connection, accepted,
                     instance>>
  BY DEF AnswerRead, server, link, timeline, bounds
<1>2. EventsAgree'
  BY <1>1 DEF Updating, WayInv, EventsAgree
<1>3. /\ Page(q).ask = q /\ Page(q).top \in Nat /\ Page(q).low \in Nat
      /\ q.kind = "catchUp" =>
           /\ Page(q).low = Least(q.from, Len(log[q.chat]))
           /\ Page(q).more = (Page(q).top < Len(log[q.chat]))
  <2>1. q.kind = "older" => q.from >= 1
    BY <1>0, ClientTypes
  <2>2. Page(q) \in [ask: Ask, low: Nat, top: Nat, more: BOOLEAN]
    BY <1>0, <2>1, PageFacts, ClientTypes
  <2> QED BY <1>0, <2>1, <2>2, PageFacts, ClientTypes
<1>4. CatchUpsAgree'
  BY <1>1, <1>3 DEF Updating, WayInv, CatchUpsAgree, MaxPages
<1>5. NothingLost'
  <2> SUFFICES ASSUME socket = "joined", connection = "connected",
                      NEW n \in last + 1 .. Len(log[selected])
               PROVE  OnItsWay(n)'
    BY <1>1 DEF NothingLost
  <2>1. OnItsWay(n)
    BY DEF Updating, WayInv, NothingLost
  <2>2. CASE q.kind = "catchUp" /\ q.chat = selected /\ q.from < n
    <3>1. PICK page : page = Page(q)
      OBVIOUS
    <3>2. n \in Nat /\ n <= Len(log[selected]) /\ q.from \in Nat /\ Len(log[selected]) \in Nat
      BY <1>0, ClientTypes
    <3>3. page.low < n
      BY <1>3, <2>2, <3>1, <3>2 DEF Least
    <3>4. n <= page.top \/ page.more
      <4>1. page.top \in Nat /\ page.more = (page.top < Len(log[selected]))
        BY <1>3, <2>2, <3>1
      <4>2. ~(page.top < Len(log[selected])) => n <= page.top
        BY <3>2, <4>1
      <4> QED BY <4>1, <4>2
    <3> QED BY <1>1, <1>3, <2>2, <3>1, <3>3, <3>4 DEF OnItsWay
  <2>3. CASE ~(q.kind = "catchUp" /\ q.chat = selected /\ q.from < n)
    BY <1>1, <2>1, <2>3 DEF OnItsWay
  <2> QED BY <2>2, <2>3
<1> QED BY <1>2, <1>4, <1>5 DEF WayInv

(* What a subscription read is merged, and a catch-up from there follows. *)
LEMMA SubscriptionWay ==
  ASSUME Updating, ReceiveSubscription
  PROVE  WayInv'
<1>0. ClientInv
  BY DEF Updating
<1>1. /\ subscription' = NoSubscription /\ subscription.stage # "none"
      /\ UNCHANGED <<log, unrelayed, socket, selected, accepted, answers, instance>>
  BY DEF ReceiveSubscription, server, history, bounds
<1>2. subscription'.after = 0 /\ subscription'.stage = "none"
  BY <1>1 DEF NoSubscription
<1>3. EventsAgree'
  BY <1>1 DEF Updating, WayInv, EventsAgree
<1>4. CASE ~subscription.heard \/ subscription.stage # "answered"
  <2>1. /\ UNCHANGED <<last, asked>>
        /\ (connection' = connection /\ ~subscription.heard) \/ connection' = "offline"
    BY <1>4 DEF ReceiveSubscription, timeline
  <2>2. connection' # "connected"
    BY <1>1, <2>1 DEF Updating, WayInv, CatchUpsAgree
  <2>3. CatchUpsAgree'
    BY <1>0, <1>1, <1>2, <2>1, ClientTypes DEF Updating, WayInv, CatchUpsAgree, MaxPages
  <2> QED BY <1>3, <2>2, <2>3 DEF WayInv, NothingLost
<1>5. CASE subscription.heard /\ subscription.stage = "answered"
  <2> DEFINE from == Most(subscription.after, subscription.upto)
  <2>1. /\ Merge(Items(selected, subscription.after, subscription.upto))
        /\ asked' = asked \cup {CatchUp(selected, from, 1)}
    BY <1>5 DEF ReceiveSubscription
  <2>2. /\ subscription.after <= last /\ subscription.after \in Nat /\ subscription.upto \in Nat
        /\ last \in Nat
    BY <1>0, ClientTypes DEF Updating, WayInv, CatchUpsAgree
  <2>3. last' = IF subscription.after < subscription.upto /\ last < subscription.upto
                THEN subscription.upto ELSE last
    BY <1>0, <2>1, <2>2, MergeStretch, ClientTypes
  <2>4. from <= last' /\ from \in Nat /\ last' \in Nat
    BY <2>2, <2>3 DEF Most
  <2>5. /\ CatchUp(selected, from, 1).chat = selected
        /\ CatchUp(selected, from, 1).kind = "catchUp"
        /\ CatchUp(selected, from, 1).from = from /\ CatchUp(selected, from, 1).page = 1
    BY DEF CatchUp
  <2> HIDE DEF from
  <2>6. CatchUpsAgree'
    <3>1. \A q \in asked' : q.kind = "catchUp" => q.page <= MaxPages
      <4>1. 1 <= MaxPages
        BY <1>0, ClientTypes
      <4> QED BY <2>1, <2>5, <4>1 DEF Updating, WayInv, CatchUpsAgree
    <3>2. 0 <= last'
      BY <2>4
    <3> QED BY <1>1, <1>2, <3>1, <3>2 DEF Updating, WayInv, CatchUpsAgree, MaxPages
  <2>7. NothingLost'
    <3>1. \A n \in last' + 1 .. Len(log[selected]) : from < n
      <4>1. from \in Nat /\ last' \in Nat /\ from <= last' /\ Len(log[selected]) \in Nat
        BY <1>0, <2>4, ClientTypes
      <4> QED BY <4>1, Beyond, Zenon
    <3> SUFFICES ASSUME NEW n \in last' + 1 .. Len(log[selected]) PROVE OnItsWay(n)'
      BY <1>1 DEF NothingLost
    <3> QED BY <1>1, <2>1, <2>5, <3>1 DEF OnItsWay
  <2> QED BY <1>3, <2>6, <2>7 DEF WayInv
<1> QED BY <1>4, <1>5

(* A catch-up page reaches as far as it says, and if there is more the next   *)
(* one follows, or the header says offline.                                   *)
LEMMA HistoryWay ==
  ASSUME Updating, NEW a \in answers, ReceiveHistory(a) \/ ReceiveCatchUp(a)
  PROVE  WayInv'
<1>0. ClientInv
  BY DEF Updating
<1>1. /\ Merge(Items(a.ask.chat, a.low, a.top)) /\ answers' = answers \ {a}
      /\ UNCHANGED <<log, unrelayed, socket, subscription, selected, accepted, instance>>
  BY DEF ReceiveHistory, ReceiveCatchUp, server, link, bounds
<1>2. /\ a.ask.chat \in Chat /\ a.low \in Nat /\ a.top \in Nat /\ last \in Nat
      /\ Len(log[selected]) \in Nat /\ a.ask.page \in Nat /\ MaxPages \in Nat
  BY <1>0, ClientTypes
<1>3. last' = IF a.low < a.top /\ last < a.top THEN a.top ELSE last
  BY <1>0, <1>1, <1>2, MergeStretch, ClientTypes
<1>4. /\ last' \in Nat /\ last' >= last
      /\ \A n \in last' + 1 .. Len(log[selected]) :
           /\ n \in last + 1 .. Len(log[selected]) /\ n \in Nat
           /\ a.low < n => a.top < n
  BY <1>2, <1>3
<1>5. EventsAgree'
  BY <1>1 DEF Updating, WayInv, EventsAgree
<1>6. /\ asked \subseteq asked'
      /\ \A q \in asked' : q \in asked \/ (q.kind = "catchUp" /\ q.page <= MaxPages)
      /\ connection' \in {connection, "offline"}
      /\ a.ask.kind = "catchUp" /\ a.more /\ connection' # "offline" =>
           \E q \in asked' : q.kind = "catchUp" /\ q.chat = a.ask.chat /\ q.from = a.top
  <2>1. CASE ReceiveHistory(a)
    BY <2>1 DEF ReceiveHistory
  <2>2. CASE ReceiveCatchUp(a)
    <3>1. PICK next : next = CatchUp(a.ask.chat, a.top, a.ask.page + 1)
      OBVIOUS
    <3>2. /\ next.chat = a.ask.chat /\ next.kind = "catchUp" /\ next.from = a.top
          /\ next.page = a.ask.page + 1
      BY <3>1 DEF CatchUp
    <3>3. /\ a.ask.kind = "catchUp"
          /\ IF a.more /\ a.ask.page < MaxPages THEN asked' = asked \cup {next} ELSE asked' = asked
          /\ connection' = IF a.more /\ a.ask.page = MaxPages THEN "offline" ELSE connection
      BY <2>2, <3>1 DEF ReceiveCatchUp
    <3>4. a.ask.page <= MaxPages
      BY <3>3 DEF Updating, WayInv, CatchUpsAgree
    <3> QED BY <1>2, <3>2, <3>3, <3>4
  <2> QED BY <2>1, <2>2
<1>7. CatchUpsAgree'
  <2>1. subscription.after <= last'
    BY <1>0, <1>2, <1>4, ClientTypes DEF Updating, WayInv, CatchUpsAgree
  <2>2. subscription.stage # "none" /\ ~subscription.heard => connection' # "connected"
    BY <1>6 DEF Updating, WayInv, CatchUpsAgree
  <2>3. \A q \in asked' : q.kind = "catchUp" => q.page <= MaxPages
    BY <1>6 DEF Updating, WayInv, CatchUpsAgree
  <2> QED BY <1>1, <2>1, <2>2, <2>3 DEF Updating, WayInv, CatchUpsAgree, MaxPages
<1>8. NothingLost'
  <2> SUFFICES ASSUME socket = "joined", connection' = "connected",
                      NEW n \in last' + 1 .. Len(log[selected])
               PROVE  OnItsWay(n)'
    BY <1>1 DEF NothingLost
  <2>1. connection = "connected"
    BY <1>6
  <2>2. n \in last + 1 .. Len(log[selected]) /\ (a.low < n => a.top < n) /\ n \in Nat
    BY <1>4
  <2>3. OnItsWay(n)
    BY <2>1, <2>2 DEF Updating, WayInv, NothingLost
  <2>4. CASE /\ a.ask.kind = "catchUp" /\ a.ask.chat = selected
             /\ a.low < n /\ (n <= a.top \/ a.more)
    <3>1. a.top < n /\ a.more
      BY <1>2, <2>2, <2>4
    <3> QED BY <1>1, <1>6, <2>4, <3>1 DEF OnItsWay
  <2>5. CASE ~(/\ a.ask.kind = "catchUp" /\ a.ask.chat = selected
               /\ a.low < n /\ (n <= a.top \/ a.more))
    BY <1>1, <1>6, <2>3, <2>5 DEF OnItsWay
  <2> QED BY <2>4, <2>5
<1> QED BY <1>5, <1>7, <1>8 DEF WayInv

(* Another chat is chosen: the socket is down. *)
LEMMA SelectWay ==
  ASSUME Updating, NEW c \in Chat, Select(c)
  PROVE  WayInv'
<1>1. /\ accepted' = {} /\ asked' = asked \cup {Latest(c)} /\ last' = 0 /\ socket' = "down"
      /\ subscription' = NoSubscription
      /\ UNCHANGED <<log, unrelayed, answers, instance>>
  BY DEF Select, server
<1>2. /\ Latest(c).kind = "latest" /\ subscription'.after = 0 /\ subscription'.stage = "none"
  BY <1>1 DEF Latest, NoSubscription
<1>3. EventsAgree' /\ NothingLost'
  BY <1>1 DEF Updating, WayInv, EventsAgree, NothingLost
<1>4. CatchUpsAgree'
  BY <1>1, <1>2 DEF Updating, WayInv, CatchUpsAgree, MaxPages
<1> QED BY <1>3, <1>4 DEF WayInv

(* Own messages: a stored one has an event, a reply only adds to the timeline. *)
LEMMA SendsWay ==
  ASSUME Updating,
         \/ \E i \in Own : Send(i)
         \/ \E p \in posts : StorePost(p) \/ ReceivePost(p) \/ PostFails(p)
  PROVE  WayInv'
<1>0. ClientInv /\ last \in Nat
  BY ClientTypes DEF Updating
<1>1. CASE \/ \E i \in Own : Send(i)
           \/ \E p \in posts : PostFails(p)
  <2>1. UNCHANGED <<log, unrelayed, socket, subscription, selected, last, connection, accepted,
                    asked, answers, instance>>
    BY <1>1 DEF Send, PostFails, server, link, bounds
  <2> QED BY <1>0, <2>1, IdleWay
<1>2. CASE \E p \in posts : ReceivePost(p)
  <2>1. PICK p \in posts : ReceivePost(p)
    BY <1>2
  <2>2. p \in Post /\ p.seq \in Nat /\ home[p.id] \in Chat
    BY <1>0 DEF ClientInv, TypeOK, PostsAgree, Post
  <2>3. /\ p.seq \in Nat \ {0} /\ Merge({<<home[p.id], p.seq>>})
        /\ UNCHANGED <<log, unrelayed, socket, subscription, selected, connection, accepted,
                       asked, answers, instance>>
    BY <2>1, <2>2 DEF ReceivePost, server, link, bounds
  <2>4. p.seq - 1 \in Nat /\ Merge(Items(home[p.id], p.seq - 1, p.seq))
    BY <2>3, OneItem
  <2>5. last' \in Nat /\ last' >= last
    <3>1. last' = IF p.seq - 1 < p.seq /\ last < p.seq THEN p.seq ELSE last
      BY <1>0, <2>2, <2>4, MergeStretch, ClientTypes
    <3> QED BY <1>0, <2>2, <3>1
  <2> QED BY <2>3, <2>5, IdleWay
<1>3. CASE \E p \in posts : StorePost(p)
  <2>1. PICK p \in posts : StorePost(p)
    BY <1>3
  <2>2. p.id \in Own /\ home[p.id] \in Chat
    BY <1>0 DEF ClientInv, TypeOK, PostsAgree, Post
  <2>3. /\ UNCHANGED <<socket, subscription, selected, last, connection, accepted, asked, answers,
                       instance>>
        /\ \/ UNCHANGED <<log, unrelayed>>
           \/ /\ log' = [log EXCEPT ![home[p.id]] = Append(@, p.id)]
              /\ unrelayed' = unrelayed \cup {<<home[p.id], Len(log[home[p.id]]) + 1>>}
    BY <2>1 DEF StorePost, server, link, timeline, bounds
  <2>4. CASE UNCHANGED <<log, unrelayed>>
    BY <1>0, <2>3, <2>4, IdleWay
  <2>5. CASE /\ log' = [log EXCEPT ![home[p.id]] = Append(@, p.id)]
             /\ unrelayed' = unrelayed \cup {<<home[p.id], Len(log[home[p.id]]) + 1>>}
    BY <2>2, <2>3, <2>5, GrowWay
  <2> QED BY <2>3, <2>4, <2>5
<1> QED BY <1>1, <1>2, <1>3

LEMMA WayNext == Updating /\ [Next]_vars => WayInv'
<1> SUFFICES ASSUME Updating, [Next]_vars PROVE WayInv'
  OBVIOUS
<1>0. ClientInv /\ last \in Nat
  BY ClientTypes DEF Updating
<1>1. CASE UNCHANGED vars
  <2>1. UNCHANGED <<log, unrelayed, socket, subscription, selected, last, connection, accepted,
                    asked, answers, instance>>
    BY <1>1 DEF vars, server, link, timeline, requests, bounds
  <2> QED BY <1>0, <2>1, IdleWay
<1>2. CASE Gateway
  BY <1>2, LinkWay, SubscriptionWay DEF Gateway
<1>3. CASE Reads
  BY <1>3, AnswerWay, HistoryWay DEF Reads
<1>4. CASE Sends \/ \E i \in Own : Send(i)
  BY <1>4, SendsWay DEF Sends
<1>5. CASE Failures
  BY <1>5, LinkWay, FailWay, SendsWay DEF Failures
<1>6. CASE \E c \in Chat : Write(c)
  <2>1. PICK c \in Chat : Write(c)
    BY <1>6
  <2>2. /\ log' = [log EXCEPT ![c] = Append(@, Other)]
        /\ unrelayed' = unrelayed \cup {<<c, Len(log[c]) + 1>>}
        /\ UNCHANGED <<socket, subscription, selected, last, connection, accepted, asked, answers,
                       instance>>
    BY <2>1 DEF Write, link, timeline, requests, bounds
  <2> QED BY <2>2, GrowWay
<1>7. CASE \E c \in Chat : Select(c)
  BY <1>7, SelectWay
<1>8. CASE \E e \in unrelayed : Relay(e[1], e[2])
  BY <1>8, RelayWay
<1>9. CASE LoadOlder \/ RetryLatest
  <2>1. PICK q : q.kind # "catchUp" /\ asked' = asked \cup {q}
    <3>1. /\ [kind |-> "older", chat |-> selected, from |-> before, page |-> 1].kind # "catchUp"
          /\ Latest(selected).kind # "catchUp"
      BY DEF Latest
    <3> QED BY <1>9, <3>1 DEF LoadOlder, RetryLatest
  <2>2. UNCHANGED <<log, unrelayed, socket, subscription, selected, last, connection, accepted,
                    answers, instance>>
    BY <1>9 DEF LoadOlder, RetryLatest, server, link, timeline, bounds
  <2> QED BY <1>0, <2>1, <2>2, IdleWay
<1> QED BY <1>1, <1>2, <1>3, <1>4, <1>5, <1>6, <1>7, <1>8, <1>9 DEF Next

LEMMA WayHolds == Spec => []Updating
<1>1. Init => Updating
  BY ClientInit, WayInit DEF Updating
<1>2. Updating /\ [Next]_vars => Updating'
  BY ClientNext, WayNext DEF Updating
<1> QED BY <1>1, <1>2, PTL DEF Spec

LEMMA QuietReaches ==
  ASSUME Updating, Quiet
  PROVE  Len(log[selected]) <= last
<1>1. last \in Nat /\ Len(log[selected]) \in Nat
  BY ClientTypes DEF Updating
<1>2. \A n \in last + 1 .. Len(log[selected]) : FALSE
  <2>1. \A n : ~OnItsWay(n)
    BY DEF OnItsWay, Quiet, NoSubscription
  <2> QED BY <2>1 DEF Updating, WayInv, NothingLost, Quiet
<1>3. last + 1 \notin last + 1 .. Len(log[selected])
  BY <1>2
<1> QED BY <1>1, <1>3

(* NothingAboveIsMissed: of any chats, of any length, whatever the client      *)
(* sends, leaves, comes back to and is refused, once nothing is under way and  *)
(* the header says connected, lastSequence has reached the chat's last message *)
(* (runCatchUp, the subscription of the socket and onMessageCreated together). *)
THEOREM NothingAboveMissed == Spec => []NothingAboveIsMissed
<1>1. Updating => NothingAboveIsMissed
  BY QuietReaches DEF NothingAboveIsMissed
<1> QED BY <1>1, WayHolds, PTL

-----------------------------------------------------------------------------
(* A client that only reads, and one chat: nobody writes here and no other     *)
(* chat is chosen.  If the chat fits the newest page, the items shown are      *)
(* always the last ones up to lastSequence, as many as the timeline keeps.     *)
Reader == Own = {} /\ \A i \in Instances : i[2].selects = 0

Window == Items(selected, Most(0, last - RenderLimit), last)

ChatFits == posts = {} /\ \A c \in Chat : Len(log[c]) <= MaxMessages
RequestsAreMine ==
  /\ \A q \in asked : /\ q.chat = selected /\ q.kind \in {"latest", "catchUp"}
                      /\ q.kind = "catchUp" => q.from <= last
  /\ \A a \in answers : /\ a.ask.chat = selected /\ a.ask.kind \in {"latest", "catchUp"}
                        /\ a.low <= last
                        /\ a.ask.kind = "latest" => a.low = 0 /\ ~a.more
  /\ subscription.after <= last
ShownIsWindow ==
  /\ before = 0
  /\ last <= Len(log[selected])
  /\ shown = Window

ReaderInv == ChatFits /\ RequestsAreMine /\ ShownIsWindow

LEMMA ItemsCounted ==
  ASSUME NEW c, NEW lo \in Nat, NEW hi \in Nat, lo <= hi
  PROVE  IsFiniteSet(Items(c, lo, hi)) /\ Cardinality(Items(c, lo, hi)) = hi - lo
<1>1. IsFiniteSet(lo + 1 .. hi) /\ Cardinality(lo + 1 .. hi) = hi - lo
  <2>1. /\ IsFiniteSet(lo + 1 .. hi)
        /\ Cardinality(lo + 1 .. hi) = IF lo + 1 > hi THEN 0 ELSE hi - (lo + 1) + 1
    <3>1. lo + 1 \in Int /\ hi \in Int
      OBVIOUS
    <3> QED BY <3>1, FS_Interval, Zenon
  <2> QED BY <2>1
<1>2. IsFiniteSet({c}) /\ Cardinality({c}) = 1
  BY FS_Singleton
<1>3. /\ IsFiniteSet({c} \X (lo + 1 .. hi))
      /\ Cardinality({c} \X (lo + 1 .. hi)) = Cardinality({c}) * Cardinality(lo + 1 .. hi)
  BY <1>1, <1>2, FS_Product
<1> QED BY <1>1, <1>2, <1>3 DEF Items

(* Of items whose upper end has no holes, the timeline keeps the last ones. *)
LEMMA BoundedWindow ==
  ASSUME Reader, RenderLimit \in Nat \ {0}, NEW c, NEW k \in Nat, NEW hi \in Nat, k <= hi,
         NEW U, NEW bubbles, U \subseteq Items(c, 0, hi), Items(c, k, hi) \subseteq U,
         k = 0 \/ hi - k >= RenderLimit
  PROVE  Bounded(U, bubbles) = Items(c, Most(0, hi - RenderLimit), hi)
<1>1. Cardinality({i \in Own : bubbles[i] # "none"}) = 0
  <2>1. {i \in Own : bubbles[i] # "none"} = {}
    BY DEF Reader
  <2> QED BY <2>1, FS_EmptySet
<1>2. Bounded(U, bubbles) = {m \in U : Cardinality({n \in U : n[2] > m[2]}) < RenderLimit}
  <2>1. RenderLimit - Cardinality({i \in Own : bubbles[i] # "none"}) = RenderLimit
    BY <1>1
  <2> QED BY <2>1, Zenon DEF Bounded
<1> DEFINE Above(m) == {n \in U : n[2] > m[2]}
<1>3. \A m \in U : m = <<c, m[2]>> /\ m[2] \in 1 .. hi
  BY DEF Items
<1>4. ASSUME NEW m \in U, m[2] >= k
      PROVE  Cardinality(Above(m)) = hi - m[2]
  <2>1. Above(m) = Items(c, m[2], hi)
    <3>1. \A n \in Above(m) : n \in Items(c, m[2], hi)
      BY <1>3 DEF Items
    <3>2. \A n \in Items(c, m[2], hi) : n \in Items(c, k, hi) /\ n[2] > m[2]
      BY <1>3, <1>4 DEF Items
    <3> QED BY <3>1, <3>2
  <2>2. m[2] \in Nat /\ m[2] <= hi
    BY <1>3
  <2> QED BY <2>1, <2>2, ItemsCounted
<1>5. ASSUME NEW m \in U, m[2] < k
      PROVE  Cardinality(Above(m)) >= RenderLimit
  <2>1. Items(c, k, hi) \subseteq Above(m)
    BY <1>3, <1>5 DEF Items
  <2>2. IsFiniteSet(Above(m))
    <3>1. IsFiniteSet(Items(c, 0, hi))
      BY ItemsCounted
    <3> QED BY <3>1, FS_Subset
  <2>3. hi - k <= Cardinality(Above(m)) /\ Cardinality(Above(m)) \in Nat
    BY <2>1, <2>2, FS_Subset, FS_CardinalityType, ItemsCounted
  <2>4. k # 0
    BY <1>3, <1>5
  <2> QED BY <2>3, <2>4
<1>6. \A m \in U : Cardinality(Above(m)) < RenderLimit <=> m[2] > Most(0, hi - RenderLimit)
  <2> SUFFICES ASSUME NEW m \in U
               PROVE  Cardinality(Above(m)) < RenderLimit <=> m[2] > Most(0, hi - RenderLimit)
    OBVIOUS
  <2>1. CASE m[2] >= k
    BY <1>3, <1>4, <2>1 DEF Most
  <2>2. CASE m[2] < k
    <3>1. ~(Cardinality(Above(m)) < RenderLimit)
      <4>1. IsFiniteSet(Above(m))
        <5>1. IsFiniteSet(Items(c, 0, hi))
          BY ItemsCounted
        <5> QED BY <5>1, FS_Subset
      <4>2. Cardinality(Above(m)) \in Nat
        BY <4>1, FS_CardinalityType
      <4> QED BY <1>5, <2>2, <4>2
    <3>2. ~(m[2] > Most(0, hi - RenderLimit))
      BY <1>3, <2>2 DEF Most
    <3> QED BY <3>1, <3>2
  <2> QED BY <1>3, <2>1, <2>2
<1>7. Items(c, Most(0, hi - RenderLimit), hi) \subseteq U
  <2>1. PICK j \in Nat : j = Most(0, hi - RenderLimit) /\ j >= k
    BY DEF Most
  <2>2. Items(c, j, hi) \subseteq Items(c, k, hi)
    BY <2>1 DEF Items
  <2> QED BY <2>1, <2>2
<1>8. \A m \in U : m \in Items(c, Most(0, hi - RenderLimit), hi)
                   <=> m[2] > Most(0, hi - RenderLimit)
  <2>1. PICK j \in Nat : j = Most(0, hi - RenderLimit)
    BY DEF Most
  <2>2. \A m \in U : m \in Items(c, j, hi) <=> m[2] > j
    BY <1>3, <2>1 DEF Items
  <2> QED BY <2>1, <2>2
<1> HIDE DEF Above
<1>9. Bounded(U, bubbles) = {m \in U : Cardinality(Above(m)) < RenderLimit}
  BY <1>2 DEF Above
<1> QED BY <1>6, <1>7, <1>8, <1>9

(* Merging a stretch that begins no later than lastSequence keeps the window. *)
LEMMA MergeWindow ==
  ASSUME Reader, TypeOK, NEW lo \in Nat, NEW hi \in Nat, lo <= last, shown = Window,
         Merge(Items(selected, lo, hi)), selected' = selected, instance' = instance
  PROVE  /\ last' \in Nat /\ last' >= last /\ last' >= hi
         /\ last' = last \/ last' = hi
         /\ shown' = Window'
<1>1. last \in Nat /\ RenderLimit \in Nat \ {0} /\ RenderLimit' = RenderLimit /\ selected \in Chat
  BY Limits DEF TypeOK, RenderLimit
<1>2. last' = IF lo < hi /\ last < hi THEN hi ELSE last
  BY <1>1, MergeStretch
<1>3. shown' = Bounded(shown \cup Items(selected, lo, hi), bubble')
  BY DEF Merge
<1>4. PICK k \in Nat : k = Most(0, last - RenderLimit)
  BY <1>1 DEF Most
<1> DEFINE U == shown \cup Items(selected, lo, hi)
<1>5. U \subseteq Items(selected, 0, last')
  BY <1>1, <1>2, <1>4 DEF Window, Items
<1>6. Items(selected, k, last') \subseteq U
  BY <1>1, <1>2, <1>4 DEF Window, Items
<1>7. k <= last' /\ (k = 0 \/ last' - k >= RenderLimit) /\ last' \in Nat
  BY <1>1, <1>2, <1>4 DEF Most
<1>8. Bounded(U, bubble') = Items(selected, Most(0, last' - RenderLimit), last')
  <2> HIDE DEF U
  <2> QED BY <1>1, <1>4, <1>5, <1>6, <1>7, BoundedWindow
<1> QED BY <1>1, <1>2, <1>3, <1>8 DEF Window


Reading == ClientInv /\ Fits /\ ReaderInv

LEMMA ReadingTypes ==
  ASSUME Reading
  PROVE  /\ TypeOK /\ selected \in Chat /\ last \in Nat
         /\ \A c \in Chat : Len(log[c]) \in Nat
         /\ asked \in SUBSET Ask /\ answers \in SUBSET [ask: Ask, low: Nat, top: Nat, more: BOOLEAN]
         /\ \A q \in asked : q.chat \in Chat /\ q.from \in Nat /\ q.page \in Nat
         /\ \A a \in answers : /\ a.ask.chat \in Chat /\ a.ask.page \in Nat
                               /\ a.low \in Nat /\ a.top \in Nat /\ a.more \in BOOLEAN
                               /\ a.top <= Len(log[a.ask.chat])
         /\ subscription \in [stage: {"none", "asked", "joined", "answered", "rejected", "dropped"},
                              after: Nat, upto: Nat, heard: BOOLEAN]
         /\ subscription.after \in Nat /\ subscription.upto \in Nat
         /\ subscription.upto <= Len(log[selected])
         /\ HistoryLimit \in Nat \ {0} /\ CatchUpLimit \in Nat \ {0} /\ MaxPages \in Nat \ {0}
         /\ MaxMessages \in Nat /\ MaxMessages <= HistoryLimit
         /\ posts = {}
<1>1. MaxMessages <= HistoryLimit
  BY DEF Reading, Fits, Fitting, MaxMessages, HistoryLimit
<1>2. posts = {}
  BY DEF Reading, ReaderInv, ChatFits
<1> QED BY <1>1, <1>2, ClientTypes DEF Reading

LEMMA ReadingInit == Init /\ Reader /\ Fits => ReaderInv
<1> SUFFICES ASSUME Init, Reader, Fits PROVE ReaderInv
  OBVIOUS
<1>1. /\ posts = {} /\ asked = {Latest(selected)} /\ answers = {} /\ unrelayed = {} /\ accepted = {}
      /\ subscription = NoSubscription /\ before = 0 /\ last = 0 /\ shown = {}
      /\ socket = "down" /\ selected \in Chat
      /\ log = [c \in Chat |-> [n \in 1 .. Stored |-> Other]]
  BY DEF Init
<1>2. /\ Stored \in Nat /\ MaxMessages \in Nat /\ Stored <= MaxMessages
      /\ RenderLimit \in Nat \ {0}
  BY Limits DEF Init
<1>3. \A c \in Chat : Len(log[c]) = Stored
  BY <1>1, <1>2
<1>4. Latest(selected).chat = selected /\ Latest(selected).kind = "latest"
  BY DEF Latest
<1>5. subscription.after = 0 /\ subscription.stage = "none"
  BY <1>1 DEF NoSubscription
<1>6. ChatFits
  BY <1>1, <1>2, <1>3 DEF ChatFits
<1>7. RequestsAreMine
  BY <1>1, <1>4, <1>5 DEF RequestsAreMine
<1>8. ShownIsWindow
  <2>1. Most(0, 0 - RenderLimit) = 0
    BY <1>2 DEF Most
  <2>2. Items(selected, 0, 0) = {}
    BY DEF Items
  <2> QED BY <1>1, <1>2, <1>3, <2>1, <2>2 DEF ShownIsWindow, Window
<1> QED BY <1>6, <1>7, <1>8 DEF ReaderInv

(* The socket: subscribing starts a chain of reads that ends at the last message. *)
LEMMA LinkReads ==
  ASSUME Reading, Connect \/ ConnectFails \/ Disconnect \/ Refuse \/ ReceiveDisconnect \/ Join
                  \/ ReadSubscription \/ SubscriptionTimesOut
  PROVE  ReaderInv'
<1>1. UNCHANGED <<log, unrelayed, selected, shown, last, accepted, before, asked, answers, posts,
                  instance>>
  BY DEF Connect, ConnectFails, Disconnect, Refuse, ReceiveDisconnect, Join, ReadSubscription,
     SubscriptionTimesOut, server, timeline, history, requests, bounds
<1>2. ChatFits'
  BY <1>1 DEF Reading, ReaderInv, ChatFits, MaxMessages
<1>3. ShownIsWindow'
  BY <1>1 DEF Reading, ReaderInv, ShownIsWindow, Window, RenderLimit
<1>4. subscription'.after \in {0, last, subscription.after}
  <2>1. CASE Connect
    BY <2>1 DEF Connect
  <2>2. CASE Disconnect \/ ReceiveDisconnect
    BY <2>2 DEF Disconnect, ReceiveDisconnect, NoSubscription
  <2>3. CASE ConnectFails
    BY <2>3 DEF ConnectFails, link
  <2>4. CASE Refuse \/ Join \/ SubscriptionTimesOut \/ ReadSubscription
    <3>1. subscription \in [stage: {"none", "asked", "joined", "answered", "rejected", "dropped"},
                            after: Nat, upto: Nat, heard: BOOLEAN]
      BY ReadingTypes
    <3>2. CASE Join
      BY <3>1, <3>2 DEF Join
    <3>3. CASE SubscriptionTimesOut
      BY <3>1, <3>3 DEF SubscriptionTimesOut
    <3>4. CASE ReadSubscription
      BY <3>1, <3>4 DEF ReadSubscription
    <3>5. CASE Refuse
      BY <3>1, <3>5 DEF Refuse
    <3> QED BY <2>4, <3>2, <3>3, <3>4, <3>5
  <2> QED BY <2>1, <2>2, <2>3, <2>4
<1>5. RequestsAreMine'
  <2>1. subscription'.after <= last
    BY <1>4, ReadingTypes DEF Reading, ReaderInv, RequestsAreMine
  <2> QED BY <1>1, <2>1 DEF Reading, ReaderInv, RequestsAreMine
<1> QED BY <1>2, <1>3, <1>5 DEF ReaderInv

(* A write, an event, a retry and a failure. *)
LEMMA WriteReads ==
  ASSUME Reading, NEW c \in Chat, Write(c)
  PROVE  ReaderInv'
<1>1. /\ log' = [log EXCEPT ![c] = Append(@, Other)] /\ Room(c)
      /\ unrelayed' = unrelayed \cup {<<c, Len(log[c]) + 1>>}
      /\ UNCHANGED <<socket, subscription, selected, shown, last, connection, accepted, before,
                     asked, answers, posts, instance>>
  BY DEF Write, link, timeline, history, requests, bounds
<1>2. /\ log' \in [Chat -> Seq(Own \cup {Other})]
      /\ Len(log[c]) \in Nat /\ Len(log'[c]) = Len(log[c]) + 1
      /\ \A d \in Chat : Len(log[d]) \in Nat /\ Len(log'[d]) >= Len(log[d])
      /\ \A d \in Chat : d # c => log'[d] = log[d]
  <2>1. log' \in [Chat -> Seq(Own \cup {Other})]
    BY <1>1, Grown, ReadingTypes
  <2>2. \A d \in Chat : d # c => log'[d] = log[d]
    BY <1>1, ReadingTypes DEF TypeOK
  <2> QED BY <1>1, <2>1, <2>2, Grown, ReadingTypes
<1>3. ChatFits'
  <2>1. Cardinality(posts) = 0
    BY FS_EmptySet, ReadingTypes
  <2>2. Len(log[c]) + 1 <= MaxMessages
    BY <1>1, <1>2, <2>1, ReadingTypes DEF Room
  <2> QED BY <1>1, <1>2, <2>2 DEF Reading, ReaderInv, ChatFits, MaxMessages
<1>4. RequestsAreMine'
  BY <1>1 DEF Reading, ReaderInv, RequestsAreMine
<1>5. ShownIsWindow'
  <2>1. last <= Len(log'[selected])
    BY <1>2, ReadingTypes DEF Reading, ReaderInv, ShownIsWindow
  <2> QED BY <1>1, <2>1 DEF Reading, ReaderInv, ShownIsWindow, Window, RenderLimit
<1> QED BY <1>3, <1>4, <1>5 DEF ReaderInv

LEMMA RelayReads ==
  ASSUME Reading, NEW c, NEW n, Relay(c, n)
  PROVE  ReaderInv'
<1>1. /\ <<c, n>> \in unrelayed
      /\ unrelayed' = unrelayed \/ unrelayed' = unrelayed \ {<<c, n>>}
      /\ UNCHANGED <<log, socket, subscription, selected, shown, last, connection, before, answers,
                     posts, instance>>
  BY DEF Relay, link, timeline, history, bounds
<1>2. \/ UNCHANGED <<accepted, asked>> /\ ~(socket = "joined" /\ c = selected /\ n \notin accepted)
      \/ /\ c = selected /\ accepted' = accepted \cup {n}
         /\ asked' = asked \cup {CatchUp(c, last, 1)}
  BY DEF Relay
<1>4. /\ CatchUp(c, last, 1).chat = c /\ CatchUp(c, last, 1).kind = "catchUp"
      /\ CatchUp(c, last, 1).from = last /\ CatchUp(c, last, 1).page = 1
  BY DEF CatchUp
<1>5. ChatFits'
  BY <1>1 DEF Reading, ReaderInv, ChatFits, MaxMessages
<1>6. ShownIsWindow'
  BY <1>1 DEF Reading, ReaderInv, ShownIsWindow, Window, RenderLimit
<1>8. RequestsAreMine'
  <2>1. last <= last
    BY ReadingTypes
  <2>2. asked' \subseteq asked \cup {CatchUp(selected, last, 1)}
    BY <1>2
  <2>3. /\ CatchUp(selected, last, 1).chat = selected /\ CatchUp(selected, last, 1).kind = "catchUp"
        /\ CatchUp(selected, last, 1).from = last /\ CatchUp(selected, last, 1).page = 1
    BY DEF CatchUp
  <2>4. \A q \in asked' : /\ q.chat = selected /\ q.kind \in {"latest", "catchUp"}
                          /\ q.kind = "catchUp" => q.from <= last
    BY <2>1, <2>2, <2>3 DEF Reading, ReaderInv, RequestsAreMine
  <2> QED BY <1>1, <2>4 DEF Reading, ReaderInv, RequestsAreMine
<1> QED BY <1>5, <1>6, <1>8 DEF ReaderInv

LEMMA AskReads ==
  ASSUME Reading, RetryLatest \/ \E q \in asked : ReadFails(q)
  PROVE  ReaderInv'
<1>1. /\ UNCHANGED <<log, unrelayed, socket, subscription, selected, shown, last, accepted, before,
                     answers, posts, instance>>
      /\ \/ asked' = asked \cup {Latest(selected)} /\ connection' = connection
         \/ \E q \in asked : /\ asked' = asked \ {q}
                             /\ IF q.kind = "catchUp" THEN connection' = "offline"
                                ELSE connection' = connection
  <2>1. CASE RetryLatest
    BY <2>1 DEF RetryLatest, server, link, timeline, bounds
  <2>2. CASE \E q \in asked : ReadFails(q)
    BY <2>2 DEF ReadFails, server, link, timeline, bounds
  <2> QED BY <2>1, <2>2
<1>2. Latest(selected).chat = selected /\ Latest(selected).kind = "latest"
  BY DEF Latest
<1>3. ChatFits'
  BY <1>1 DEF Reading, ReaderInv, ChatFits, MaxMessages
<1>4. ShownIsWindow'
  BY <1>1 DEF Reading, ReaderInv, ShownIsWindow, Window, RenderLimit
<1>6. RequestsAreMine'
  <2>1. asked' \subseteq asked \cup {Latest(selected)}
    BY <1>1
  <2> QED BY <1>1, <1>2, <2>1 DEF Reading, ReaderInv, RequestsAreMine
<1> QED BY <1>3, <1>4, <1>6 DEF ReaderInv

(* An answer to a catch-up reaches the last message, or says there is more. *)
LEMMA AnswerReads ==
  ASSUME Reading, NEW q \in asked, AnswerRead(q)
  PROVE  ReaderInv'
<1>1. /\ asked' = asked \ {q} /\ answers' = answers \cup {Page(q)}
      /\ UNCHANGED <<log, unrelayed, socket, subscription, selected, shown, last, connection,
                     accepted, before, posts, instance>>
  BY DEF AnswerRead, server, link, timeline, history, bounds
<1>2. /\ q.chat = selected /\ q.kind \in {"latest", "catchUp"}
      /\ q.kind = "catchUp" => q.from <= last
  BY DEF Reading, ReaderInv, RequestsAreMine
<1>3. Len(log[selected]) \in Nat /\ Len(log[selected]) <= HistoryLimit
  BY ReadingTypes DEF Reading, ReaderInv, ChatFits
<1>4. /\ Page(q).ask = q
      /\ q.kind = "latest" => Page(q).low = 0 /\ ~Page(q).more
      /\ q.kind = "catchUp" =>
           /\ Page(q).low <= last
           /\ Page(q).more \/ Page(q).top >= Len(log[selected])
  <2>1. /\ Page(q) \in [ask: Ask, low: Nat, top: Nat, more: BOOLEAN]
        /\ Page(q).ask = q
        /\ q.kind = "latest" =>
             /\ Page(q).low = Most(0, Len(log[q.chat]) - HistoryLimit)
             /\ Page(q).more = (Page(q).low > 0)
        /\ q.kind = "catchUp" =>
             /\ Page(q).low = Least(q.from, Len(log[q.chat]))
             /\ Page(q).more = (Page(q).top < Len(log[q.chat]))
    BY <1>2, PageFacts, ReadingTypes
  <2>2. Most(0, Len(log[selected]) - HistoryLimit) = 0
    BY <1>3, ReadingTypes DEF Most
  <2>3. q.kind = "catchUp" => Least(q.from, Len(log[selected])) <= last
    BY <1>2, <1>3, ReadingTypes DEF Least
  <2>4. CASE q.kind = "latest"
    BY <1>2, <2>1, <2>2, <2>4
  <2>5. CASE q.kind = "catchUp"
    <3>1. Page(q).top \in Nat
      BY <2>1
    <3> QED BY <1>2, <1>3, <2>1, <2>3, <2>5, <3>1
  <2> QED BY <1>2, <2>1, <2>4, <2>5
<1>5. ChatFits'
  BY <1>1 DEF Reading, ReaderInv, ChatFits, MaxMessages
<1>6. ShownIsWindow'
  BY <1>1 DEF Reading, ReaderInv, ShownIsWindow, Window, RenderLimit
<1>8. RequestsAreMine'
  <2>1. PICK page : page = Page(q)
    OBVIOUS
  <2>2. /\ page.ask.chat = selected /\ page.ask.kind \in {"latest", "catchUp"} /\ page.low <= last
        /\ page.ask.kind = "latest" => page.low = 0 /\ ~page.more
    BY <1>2, <1>4, <2>1, ReadingTypes
  <2> QED BY <1>1, <2>1, <2>2 DEF Reading, ReaderInv, RequestsAreMine
<1> QED BY <1>5, <1>6, <1>8 DEF ReaderInv


(* What arrives begins no later than lastSequence, and the chain goes on. *)
LEMMA SubscriptionReads ==
  ASSUME Reader, Reading, ReceiveSubscription
  PROVE  ReaderInv'
<1>1. /\ subscription' = NoSubscription
      /\ UNCHANGED <<log, unrelayed, socket, selected, accepted, before, answers, posts, instance>>
  BY DEF ReceiveSubscription, server, history, bounds
<1>2. subscription'.after = 0 /\ subscription'.stage = "none"
  BY <1>1 DEF NoSubscription
<1>3. ChatFits'
  BY <1>1 DEF Reading, ReaderInv, ChatFits, MaxMessages
<1>4. CASE ~subscription.heard \/ subscription.stage # "answered"
  <2>1. UNCHANGED <<shown, last, asked>>
    BY <1>4 DEF ReceiveSubscription, timeline
  <2>2. ShownIsWindow' /\ RequestsAreMine'
    BY <1>1, <1>2, <2>1, ReadingTypes
       DEF Reading, ReaderInv, ShownIsWindow, Window, RenderLimit, RequestsAreMine
  <2> QED BY <1>3, <2>2 DEF ReaderInv
<1>5. CASE subscription.heard /\ subscription.stage = "answered"
  <2> DEFINE from == Most(subscription.after, subscription.upto)
  <2>1. /\ Merge(Items(selected, subscription.after, subscription.upto))
        /\ asked' = asked \cup {CatchUp(selected, from, 1)}
        /\ UNCHANGED connection
    BY <1>5 DEF ReceiveSubscription
  <2>2. subscription.after <= last
    BY DEF Reading, ReaderInv, RequestsAreMine
  <2>3. /\ last' \in Nat /\ last' >= last /\ last' >= subscription.upto
        /\ last' = last \/ last' = subscription.upto
        /\ shown' = Window'
    BY <1>1, <2>1, <2>2, ReadingTypes, MergeWindow DEF Reading, ReaderInv, ShownIsWindow
  <2>4. from <= last' /\ from \in Nat
    BY <2>2, <2>3, ReadingTypes DEF Most
  <2>5. ShownIsWindow'
    BY <1>1, <2>3, ReadingTypes DEF Reading, ReaderInv, ShownIsWindow
  <2>6. /\ CatchUp(selected, from, 1).chat = selected
        /\ CatchUp(selected, from, 1).kind = "catchUp"
        /\ CatchUp(selected, from, 1).from = from /\ CatchUp(selected, from, 1).page = 1
    BY DEF CatchUp
  <2> HIDE DEF from
  <2>7. RequestsAreMine'
    <3>1. \A q \in asked : /\ q.chat = selected /\ q.kind \in {"latest", "catchUp"}
                           /\ q.kind = "catchUp" => q.from <= last'
      BY <2>3, ReadingTypes DEF Reading, ReaderInv, RequestsAreMine
    <3>2. \A q \in asked' : /\ q.chat = selected /\ q.kind \in {"latest", "catchUp"}
                            /\ q.kind = "catchUp" => q.from <= last'
      BY <2>1, <2>4, <2>6, <3>1, ReadingTypes
    <3>3. \A a \in answers : a.low <= last'
      BY <2>3, ReadingTypes DEF Reading, ReaderInv, RequestsAreMine
    <3> QED BY <1>1, <1>2, <2>3, <3>2, <3>3 DEF Reading, ReaderInv, RequestsAreMine
  <2> QED BY <1>3, <2>5, <2>7 DEF ReaderInv
<1> QED BY <1>4, <1>5

LEMMA HistoryReads ==
  ASSUME Reader, Reading, NEW a \in answers, ReceiveHistory(a) \/ ReceiveCatchUp(a)
  PROVE  ReaderInv'
<1>1. /\ Merge(Items(selected, a.low, a.top)) /\ answers' = answers \ {a}
      /\ UNCHANGED <<log, unrelayed, socket, subscription, selected, accepted, posts, instance>>
  BY DEF ReceiveHistory, ReceiveCatchUp, server, link, bounds, Reading, ReaderInv, RequestsAreMine
<1>2. /\ a.ask.chat = selected /\ a.ask.kind \in {"latest", "catchUp"} /\ a.low <= last
      /\ a.ask.kind = "latest" => a.low = 0 /\ ~a.more
  BY DEF Reading, ReaderInv, RequestsAreMine
<1>3. /\ last' \in Nat /\ last' >= last /\ last' >= a.top
      /\ last' = last \/ last' = a.top
      /\ shown' = Window'
  BY <1>1, <1>2, ReadingTypes, MergeWindow DEF Reading, ReaderInv, ShownIsWindow
<1>4. /\ last \in Nat /\ a.top \in Nat /\ Len(log[selected]) \in Nat
      /\ a.top <= Len(log[selected]) /\ last <= Len(log[selected])
  BY <1>2, ReadingTypes DEF Reading, ReaderInv, ShownIsWindow
<1>5. ChatFits'
  BY <1>1 DEF Reading, ReaderInv, ChatFits, MaxMessages
<1>6. ShownIsWindow'
  <2>1. before' = 0
    <3>1. CASE ReceiveHistory(a)
      BY <1>2, <3>1 DEF ReceiveHistory
    <3>2. CASE ReceiveCatchUp(a)
      BY <3>2 DEF ReceiveCatchUp, history, Reading, ReaderInv, ShownIsWindow
    <3> QED BY <3>1, <3>2
  <2> QED BY <1>1, <1>3, <1>4, <2>1 DEF ShownIsWindow
<1>7. \A q \in asked' : q \in asked \/ q = CatchUp(selected, a.top, a.ask.page + 1)
  BY <1>2 DEF ReceiveHistory, ReceiveCatchUp
<1>8. RequestsAreMine'
  <2>1. \A q \in asked' : /\ q.chat = selected /\ q.kind \in {"latest", "catchUp"}
                          /\ q.kind = "catchUp" => q.from <= last'
    BY <1>3, <1>4, <1>7, ReadingTypes DEF Reading, ReaderInv, RequestsAreMine, CatchUp
  <2>2. \A b \in answers : b.low <= last'
    BY <1>3, ReadingTypes DEF Reading, ReaderInv, RequestsAreMine
  <2>3. subscription.after <= last'
    BY <1>3, ReadingTypes DEF Reading, ReaderInv, RequestsAreMine
  <2> QED BY <1>1, <2>1, <2>2, <2>3 DEF Reading, ReaderInv, RequestsAreMine
<1> QED BY <1>5, <1>6, <1>8 DEF ReaderInv

LEMMA ReadingNext ==
  ASSUME Reader, ClientInv, Fits => ReaderInv, [Next]_vars
  PROVE  Fits' => ReaderInv'
<1>0. SUFFICES ASSUME Fits PROVE Reading => ReaderInv'
  <2>1. instance' = instance
    BY DEF Next, Gateway, Reads, Sends, Failures, Write, Select, Relay, Connect, Join,
       ReadSubscription, ReceiveSubscription, ReceiveDisconnect, AnswerRead, ReceiveHistory,
       ReceiveCatchUp, StorePost, ReceivePost, ConnectFails, Disconnect, Refuse,
       SubscriptionTimesOut, ReadFails, PostFails, LoadOlder, RetryLatest, Send, vars, bounds
  <2> QED BY <1>0, <2>1 DEF Reading, Fits
<1> SUFFICES ASSUME Reading PROVE ReaderInv'
  OBVIOUS
<1>1. posts = {} /\ before = 0 /\ MaxSelects = 0 /\ selects \in Nat
  BY ReadingTypes DEF Reading, ReaderInv, ShownIsWindow, TypeOK, Reader, MaxSelects
<1>2. CASE UNCHANGED vars
  BY <1>2 DEF Reading, ReaderInv, ChatFits, RequestsAreMine, ShownIsWindow,
     Window, MaxMessages, RenderLimit, vars, server, link, timeline, history,
     requests, bounds
<1>3. CASE Gateway
  BY <1>3, LinkReads, SubscriptionReads DEF Gateway
<1>4. CASE Reads
  BY <1>4, AnswerReads, HistoryReads DEF Reads
<1>5. CASE Failures
  BY <1>1, <1>5, LinkReads, AskReads DEF Failures
<1>6. CASE \E c \in Chat : Write(c) \/ Select(c)
  BY <1>1, <1>6, WriteReads DEF Select
<1>7. CASE \E e \in unrelayed : Relay(e[1], e[2])
  BY <1>7, RelayReads
<1>8. CASE RetryLatest
  BY <1>8, AskReads
<1>9. ~Sends /\ ~LoadOlder /\ ~\E i \in Own : Send(i)
  BY <1>1 DEF Sends, LoadOlder, Reader
<1> QED BY <1>2, <1>3, <1>4, <1>5, <1>6, <1>7, <1>8, <1>9 DEF Next

LEMMA ReadingHolds ==
  ASSUME Reader
  PROVE  Spec => [](ClientInv /\ (Fits => ReaderInv))
<1>1. Init => (Fits => ReaderInv)
  BY ReadingInit
<1>2. ClientInv /\ (Fits => ReaderInv) /\ [Next]_vars => (Fits => ReaderInv)'
  BY ReadingNext
<1> QED BY <1>1, <1>2, ClientHolds, PTL DEF Spec

(* NoHoles: for a client that reads one chat of any length up to the newest    *)
(* page, whatever is late, lost, repeated or out of order, what it shows is    *)
(* one stretch of the chat that ends at lastSequence, cut at the timeline's    *)
(* limit only.                                                                 *)
THEOREM ReadingHasNoHoles ==
  ASSUME Reader
  PROVE  Spec => []NoHoles
<1>1. ClientInv /\ (Fits => ReaderInv) => NoHoles
  <2> SUFFICES ASSUME ClientInv, Fits, ReaderInv PROVE NoHoles
    BY DEF NoHoles
  <2>1. shown = Window /\ last \in Nat /\ RenderLimit \in Nat \ {0}
    BY Limits DEF ClientInv, TypeOK, ReaderInv, ShownIsWindow
  <2>2. PICK k \in Nat : k = Most(0, last - RenderLimit)
    BY <2>1 DEF Most
  <2>3. shown = Items(selected, k, last) /\ k <= last
    BY <2>1, <2>2 DEF Window, Most
  <2>4. \A m \in shown : m[1] = selected /\ m[2] \in k + 1 .. last
    BY <2>3 DEF Items
  <2>5. \A n \in k + 1 .. last : <<selected, n>> \in shown
    BY <2>3 DEF Items
  <2>6. \A m \in shown : \A n \in m[2] .. last : <<selected, n>> \in shown
    BY <2>1, <2>4, <2>5
  <2>7. last # 0 => /\ shown # {}
                    /\ <<selected, 1>> \in shown \/ before # 0 \/ Full
    <3> SUFFICES ASSUME last # 0 PROVE shown # {} /\ (<<selected, 1>> \in shown \/ Full)
      OBVIOUS
    <3>1. k < last
      BY <2>1, <2>2 DEF Most
    <3>2. CASE k = 0
      BY <2>1, <2>5, <3>1, <3>2
    <3>3. CASE k # 0
      <4>1. Cardinality(shown) = RenderLimit
        BY <2>1, <2>2, <2>3, <3>3, ItemsCounted DEF Most
      <4>2. Cardinality({i \in Own : bubble[i] # "none"}) = 0
        <5>1. {i \in Own : bubble[i] # "none"} = {}
          BY DEF Reader
        <5> QED BY <5>1, FS_EmptySet
      <4>3. Full
        BY <2>1, <4>1, <4>2 DEF Full
      <4>4. <<selected, last>> \in shown
        BY <2>1, <2>5, <3>1
      <4> QED BY <4>3, <4>4
    <3> QED BY <3>2, <3>3
  <2> QED BY <2>1, <2>4, <2>6, <2>7 DEF NoHoles
<1> QED BY <1>1, ReadingHolds, PTL

(* CompleteWhenQuiet: such a client, while its header says that updates are    *)
(* connected and nothing is under way, shows the chat to its last message,     *)
(* whichever of its reads, events, subscriptions and connections failed        *)
(* before.                                                                     *)
THEOREM ReadingIsComplete ==
  ASSUME Reader
  PROVE  Spec => [](Fits => CompleteWhenQuiet)
<1>1. Updating /\ (Fits => ReaderInv) => (Fits => CompleteWhenQuiet)
  <2> SUFFICES ASSUME Updating, Fits, ReaderInv, Quiet
               PROVE  /\ shown \subseteq {selected} \X Nat
                      /\ Len(log[selected]) > 0 => <<selected, Len(log[selected])>> \in shown
                      /\ \A m \in shown : \A n \in m[2] .. Len(log[selected]) :
                           <<selected, n>> \in shown
    BY DEF CompleteWhenQuiet
  <2>1. /\ shown = Window /\ last \in Nat /\ RenderLimit \in Nat \ {0}
        /\ last <= Len(log[selected]) /\ Len(log[selected]) \in Nat
    BY Limits DEF Updating, ClientInv, TypeOK, ReaderInv, ShownIsWindow
  <2>2. last = Len(log[selected])
    BY <2>1, QuietReaches
  <2>4. PICK k \in Nat : k = Most(0, last - RenderLimit) /\ (last > 0 => k < last)
    <3>0. last \in Nat /\ RenderLimit \in Nat \ {0}
      BY <2>1
    <3>1. PICK k \in Nat : k = Most(0, last - RenderLimit)
      BY <3>0 DEF Most
    <3>2. last > 0 => k < last
      BY <3>0, <3>1 DEF Most
    <3> QED BY <3>1, <3>2
  <2>5. shown = Items(selected, k, last)
    BY <2>1, <2>4 DEF Window
  <2>6. \A m \in shown : m = <<selected, m[2]>> /\ m[2] \in k + 1 .. last
    BY <2>5 DEF Items
  <2>7. \A n \in k + 1 .. last : <<selected, n>> \in shown
    BY <2>5 DEF Items
  <2>8. shown \subseteq {selected} \X Nat
    BY <2>5 DEF Items
  <2> QED BY <2>1, <2>2, <2>4, <2>6, <2>7, <2>8
<1> QED BY <1>1, ReadingHolds, WayHolds, PTL

=============================================================================
