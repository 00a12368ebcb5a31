--------------------------- MODULE ClientTimeline ---------------------------
(***************************************************************************)
(* The chat panel of the kovcheg web client against the API: how a browser *)
(* keeps the timeline of the selected chat complete from four sources, the *)
(* newest page of the history, the subscription of its Socket.IO           *)
(* connection, catch-up reads after message.created events, and the        *)
(* replies to its own sends, each of which may be late, fail or be lost.   *)
(*                                                                         *)
(* A request is asked, answered by the API from a snapshot of the log at   *)
(* that moment, and received: anything can happen in between. Everything a *)
(* React callback does between two awaits is one action. The timeline ref  *)
(* is updated with the state. Sessions stay valid and chats readable; a    *)
(* refusal is one of the failures. Messages are numbered without gaps and  *)
(* become visible in the order of their numbers, as module MessageWrite    *)
(* shows.                                                                  *)
(* Definitions named X_<change> are mutants: X with one plausible mistake. *)
(***************************************************************************)
EXTENDS Integers, Sequences, FiniteSets

CONSTANTS
  Chat,         \* chats
  Own,          \* client message ids of this client's sends
  Other,        \* stands for a message of anybody else
  None,         \* no chat
  Instances     \* the limits and bounds a behaviour may start with

(* history: items of a newest or older page (50); catchUp: items of a catch-up *)
(* page or a subscription's history (100); pages: pages of one catch-up (20);  *)
(* render: items a timeline keeps (400); stored: messages a chat has at first; *)
(* and bounds on the messages of a chat, on switches to another chat and on    *)
(* failures.                                                                   *)
ASSUME IdsAssumption == Other \notin Own /\ None \notin Chat
ASSUME InstancesAssumption ==
  /\ Instances \subseteq
       [{"history", "catchUp", "pages", "render"} -> Nat \ {0}]
         \X [{"stored", "messages", "selects", "faults"} -> Nat]
  /\ \A i \in Instances : i[2].stored <= i[2].messages

VARIABLES
  (* the server *)
  log,           \* messages of each chat, each Other or an own id
  unrelayed,     \* <<chat, sequence>> whose event is not relayed for good
  socket,        \* "down", "up", "joined": in the room of the selected chat, "closing":
                 \* ended by the API, "ended": and the client knows, which stays so
  subscription,  \* the subscribe call of the socket
  (* the panel *)
  selected,      \* the selected chat
  shown,         \* <<chat, sequence>> of the stored items
  bubble,        \* the optimistic item of each own id
  last,          \* lastSequence
  connection,    \* what the header says
  accepted,      \* sequences whose event was accepted
  before,        \* nextBeforeSequence while older messages can be asked for, or 0
  loading,       \* historyLoading
  broken,        \* historyError
  (* requests of the panel *)
  asked,         \* history reads the API has not answered
  answers,       \* answers that have not arrived
  posts,         \* sends in flight
  home,          \* the chat each own id was sent to
  (* bounds *)
  instance,      \* the limits and bounds of this behaviour
  selects, faults

server == <<log, unrelayed>>
link == <<socket, subscription>>
timeline == <<shown, bubble, last>>
history == <<before, loading, broken>>
requests == <<asked, answers, posts, home>>
bounds == <<instance, selects>>
vars == <<server, link, selected, timeline, connection, accepted, history, requests,
          bounds, faults>>

HistoryLimit == instance[1].history
CatchUpLimit == instance[1].catchUp
MaxPages == instance[1].pages
RenderLimit == instance[1].render
Stored == instance[2].stored
MaxMessages == instance[2].messages
MaxSelects == instance[2].selects
MaxFaults == instance[2].faults

Ask == [kind: {"latest", "older", "catchUp"}, chat: Chat, from: Nat, page: Nat]
Post == [id: Own, seq: Nat, heard: BOOLEAN]

NoSubscription == [stage |-> "none", after |-> 0, upto |-> 0, heard |-> FALSE]

Least(m, n) == IF m < n THEN m ELSE n
Most(m, n) == IF m > n THEN m ELSE n

Fault == faults < MaxFaults /\ faults' = faults + 1

(* The messages of a chat after lo, up to hi. *)
Items(c, lo, hi) == {c} \X (lo + 1 .. hi)

-----------------------------------------------------------------------------
(* boundedTimeline: bubbles come last in the order, so the oldest stored items *)
(* go first.                                                                   *)
Bounded(items, bubbles) ==
  LET room == RenderLimit - Cardinality({i \in Own : bubbles[i] # "none"})
  IN  {m \in items : Cardinality({n \in items : n[2] > m[2]}) < room}

(* mergeStoredMessages: new items take the place of their bubbles. *)
Merge(items) ==
  /\ bubble' = [i \in Own |->
                  IF \E m \in items : log[m[1]][m[2]] = i THEN "none" ELSE bubble[i]]
  /\ shown' = Bounded(shown \cup items, bubble')
  /\ last' = IF \A m \in items : m[2] <= last THEN last
             ELSE CHOOSE n \in {m[2] : m \in items} : \A m \in items : m[2] <= n

Latest(c) == [kind |-> "latest", chat |-> c, from |-> 0, page |-> 1]
CatchUp(c, n, p) == [kind |-> "catchUp", chat |-> c, from |-> n, page |-> p]

-----------------------------------------------------------------------------
Room(c) == Len(log[c]) + Cardinality(posts) < MaxMessages

(* Somebody else writes to a chat. *)
Write(c) ==
  /\ Room(c)
  /\ log' = [log EXCEPT ![c] = Append(@, Other)]
  /\ unrelayed' = unrelayed \cup {<<c, Len(log[c]) + 1>>}
  /\ UNCHANGED <<link, selected, timeline, connection, accepted, history, requests,
                 bounds, faults>>

Select_KeepsAccepted(c) ==
  /\ selects < MaxSelects /\ selects' = selects + 1
  /\ c # selected
  /\ selected' = c
  /\ shown' = {} /\ bubble' = [i \in Own |-> "none"] /\ last' = 0
  /\ before' = 0 /\ loading' = TRUE /\ broken' = FALSE
  /\ asked' = asked \cup {Latest(c)}
  /\ connection' = "connecting"
  /\ socket' = "down" /\ subscription' = NoSubscription
  /\ UNCHANGED <<server, accepted, answers, posts, home, instance, faults>>

(* The effects of choosing another chat: the timeline starts empty, its newest *)
(* page is asked for, and the socket is replaced. Requests that are in flight  *)
(* go on.                                                                      *)
Select(c) ==
  /\ selects < MaxSelects /\ selects' = selects + 1
  /\ c # selected
  /\ selected' = c
  /\ shown' = {} /\ bubble' = [i \in Own |-> "none"] /\ last' = 0
  /\ accepted' = {}
  /\ before' = 0 /\ loading' = TRUE /\ broken' = FALSE
  /\ asked' = asked \cup {Latest(c)}
  /\ connection' = "connecting"
  /\ socket' = "down" /\ subscription' = NoSubscription
  /\ UNCHANGED <<server, answers, posts, home, instance, faults>>

-----------------------------------------------------------------------------
(* The socket: a ready socket subscribes after what the timeline has. *)
Connect ==
  /\ socket = "down"
  /\ socket' = "up"
  /\ connection' = "connected"
  /\ subscription' = [stage |-> "asked", after |-> last, upto |-> 0, heard |-> TRUE]
  /\ UNCHANGED <<server, selected, timeline, accepted, history, requests, bounds, faults>>

ConnectFails ==
  /\ socket = "down"
  /\ Fault
  /\ connection' = "offline"
  /\ UNCHANGED <<server, link, selected, timeline, accepted, history, requests, bounds>>

(* A lost connection fails a subscribe call that is still waiting. *)
Disconnect ==
  /\ socket \in {"up", "joined", "closing"}
  /\ Fault
  /\ socket' = "down" /\ subscription' = NoSubscription
  /\ connection' = IF subscription.heard THEN "offline" ELSE "connecting"
  /\ UNCHANGED <<server, selected, timeline, accepted, history, requests, bounds>>

(* A check of the session or of the right to read fails, when a socket connects, *)
(* subscribes or is to be told of a message: the gateway ends the connection,    *)
(* and what it has not answered yet it never will.                               *)
Refuse ==
  /\ \/ socket = "down"
     \/ subscription.stage \in {"asked", "joined"}
     \/ socket = "joined" /\ \E e \in unrelayed : e[1] = selected
  /\ Fault
  /\ socket' = "closing"
  /\ subscription' = [subscription EXCEPT
                        !.stage = IF @ \in {"asked", "joined"} THEN "dropped" ELSE @]
  /\ UNCHANGED <<server, selected, timeline, connection, accepted, history, requests, bounds>>

(* The client learns of it, after what it was sent before. Socket.IO does not    *)
(* reconnect when the server has ended the connection, and the panel only says   *)
(* that it is connecting: it takes the choice of another chat to connect again.  *)
(* A realtime error before it says offline for a moment, which is left out.      *)
ReceiveDisconnect ==
  /\ socket = "closing" /\ subscription.stage \notin {"answered", "rejected"}
  /\ socket' = "ended" /\ subscription' = NoSubscription
  /\ connection' = IF subscription.heard THEN "offline" ELSE "connecting"
  /\ UNCHANGED <<server, selected, timeline, accepted, history, requests, bounds, faults>>

(* The gateway joins the room first ... *)
Join ==
  /\ subscription.stage = "asked"
  /\ socket' = "joined"
  /\ subscription' = [subscription EXCEPT !.stage = "joined"]
  /\ UNCHANGED <<server, selected, timeline, connection, accepted, history, requests,
                 bounds, faults>>

(* ... and then reads the history; when that fails it leaves the room. *)
ReadSubscription ==
  /\ subscription.stage = "joined"
  /\ \/ /\ subscription' =
             [subscription EXCEPT
                !.stage = "answered",
                !.upto = Least(Len(log[selected]), subscription.after + CatchUpLimit)]
        /\ UNCHANGED <<socket, faults>>
     \/ /\ Fault
        /\ socket' = "up"
        /\ subscription' = [subscription EXCEPT !.stage = "rejected"]
  /\ UNCHANGED <<server, selected, timeline, connection, accepted, history, requests,
                 bounds>>

ReceiveSubscription ==
  /\ subscription.stage \in {"answered", "rejected"}
  /\ subscription' = NoSubscription
  /\ IF ~subscription.heard
     THEN UNCHANGED <<timeline, asked, connection>>
     ELSE IF subscription.stage = "answered"
     THEN /\ Merge(Items(selected, subscription.after, subscription.upto))
          /\ asked' = asked \cup
               {CatchUp(selected, Most(subscription.after, subscription.upto), 1)}
          /\ UNCHANGED connection
     ELSE connection' = "offline" /\ UNCHANGED <<timeline, asked>>
  /\ UNCHANGED <<server, socket, selected, accepted, history, answers, posts, home,
                 bounds, faults>>

(* The client waits five seconds for the subscription and then no longer. *)
SubscriptionTimesOut ==
  /\ subscription.heard
  /\ Fault
  /\ subscription' = [subscription EXCEPT !.heard = FALSE]
  /\ connection' = "offline"
  /\ UNCHANGED <<server, socket, selected, timeline, accepted, history, requests, bounds>>

Relay_CursorFromEvent(c, n) ==
  /\ <<c, n>> \in unrelayed
  /\ unrelayed' = unrelayed \ {<<c, n>>}
  /\ IF socket = "joined" /\ c = selected /\ n \notin accepted
     THEN /\ accepted' = accepted \cup {n}
          /\ asked' = asked \cup {CatchUp(c, n - 1, 1)}
     ELSE UNCHANGED <<accepted, asked>>
  /\ UNCHANGED <<log, link, selected, timeline, connection, history, answers, posts,
                 home, bounds, faults>>

(* The relay delivers the event of a message to the room, in any order, and   *)
(* again when its acknowledgement is lost; an event that is new to the client *)
(* makes it read what follows the last sequence it has.                       *)
Relay(c, n) ==
  /\ <<c, n>> \in unrelayed
  /\ \/ unrelayed' = unrelayed \ {<<c, n>>} /\ UNCHANGED faults
     \/ UNCHANGED unrelayed /\ Fault
  /\ IF socket = "joined" /\ c = selected /\ n \notin accepted
     THEN /\ accepted' = accepted \cup {n}
          /\ asked' = asked \cup {CatchUp(c, last, 1)}
     ELSE UNCHANGED <<accepted, asked>>
  /\ UNCHANGED <<log, link, selected, timeline, connection, history, answers, posts,
                 home, bounds>>

-----------------------------------------------------------------------------
(* History reads: the API answers with what follows the cursor, what precedes *)
(* it, or the newest messages.                                                *)
Page(q) ==
  LET end == Len(log[q.chat])
      top == CASE q.kind = "latest" -> end
               [] q.kind = "older" -> Least(end, q.from - 1)
               [] OTHER -> Least(end, q.from + CatchUpLimit)
      low == IF q.kind = "catchUp" THEN Least(q.from, end) ELSE Most(0, top - HistoryLimit)
  IN  [ask |-> q, low |-> low, top |-> top,
       more |-> IF q.kind = "catchUp" THEN top < end ELSE low > 0]

AnswerRead(q) ==
  /\ q \in asked
  /\ asked' = asked \ {q}
  /\ answers' = answers \cup {Page(q)}
  /\ UNCHANGED <<server, link, selected, timeline, connection, accepted, history, posts,
                 home, bounds, faults>>

(* A newest or an older page arrives; the panel does not ask which chat it is  *)
(* of. Older messages can be asked for while there are more and there is room. *)
ReceiveHistory(a) ==
  /\ a \in answers /\ a.ask.kind \in {"latest", "older"}
  /\ answers' = answers \ {a}
  /\ Merge(Items(a.ask.chat, a.low, a.top))
  /\ LET items == Cardinality(shown') + Cardinality({i \in Own : bubble'[i] # "none"})
         atLimit == a.ask.kind = "older" /\ items >= RenderLimit
     IN  before' = IF a.more /\ ~atLimit THEN a.low + 1 ELSE 0
  /\ loading' = FALSE
  /\ UNCHANGED <<server, link, selected, connection, accepted, broken, asked, posts,
                 home, bounds, faults>>

ReceiveCatchUp_OnePage(a) ==
  /\ a \in answers /\ a.ask.kind = "catchUp"
  /\ answers' = answers \ {a}
  /\ Merge(Items(a.ask.chat, a.low, a.top))
  /\ UNCHANGED <<server, link, selected, connection, accepted, history, asked, posts,
                 home, bounds, faults>>

(* A catch-up page arrives; the next one is asked for, up to a limit. *)
ReceiveCatchUp(a) ==
  /\ a \in answers /\ a.ask.kind = "catchUp"
  /\ answers' = answers \ {a}
  /\ Merge(Items(a.ask.chat, a.low, a.top))
  /\ IF a.more /\ a.ask.page < MaxPages
     THEN asked' = asked \cup {CatchUp(a.ask.chat, a.top, a.ask.page + 1)}
     ELSE UNCHANGED asked
  /\ connection' = IF a.more /\ a.ask.page = MaxPages THEN "offline" ELSE connection
  /\ UNCHANGED <<server, link, selected, accepted, history, posts, home, bounds, faults>>

(* A read fails. *)
ReadFails(q) ==
  /\ q \in asked
  /\ Fault
  /\ asked' = asked \ {q}
  /\ IF q.kind = "catchUp"
     THEN connection' = "offline" /\ UNCHANGED <<loading, broken>>
     ELSE loading' = FALSE /\ broken' = TRUE /\ UNCHANGED connection
  /\ UNCHANGED <<server, link, selected, timeline, accepted, before, answers, posts, home,
                 bounds>>

LoadOlder ==
  /\ before # 0 /\ ~loading
  /\ loading' = TRUE
  /\ asked' = asked \cup
       {[kind |-> "older", chat |-> selected, from |-> before, page |-> 1]}
  /\ UNCHANGED <<server, link, selected, timeline, connection, accepted, before, broken,
                 answers, posts, home, bounds, faults>>

RetryLatest ==
  /\ broken
  /\ loading' = TRUE /\ broken' = FALSE
  /\ asked' = asked \cup {Latest(selected)}
  /\ UNCHANGED <<server, link, selected, timeline, connection, accepted, before, answers,
                 posts, home, bounds, faults>>

-----------------------------------------------------------------------------
(* sendMessage, for a new message or to retry one that failed. *)
Send(i) ==
  /\ home[i] = None \/ bubble[i] = "failed"
  /\ home[i] = None => Room(selected)
  /\ home' = [home EXCEPT ![i] = selected]
  /\ bubble' = [bubble EXCEPT ![i] = "sending"]
  /\ shown' = Bounded(shown, bubble')
  /\ posts' = posts \cup {[id |-> i, seq |-> 0, heard |-> TRUE]}
  /\ UNCHANGED <<server, link, selected, last, connection, accepted, history, asked,
                 answers, bounds, faults>>

(* The API stores a message once; a repeated send finds the stored one. *)
StorePost(p) ==
  LET c == home[p.id]
      found == {n \in DOMAIN log[c] : log[c][n] = p.id}
      fresh == Len(log[c]) + 1
      Kept(n) == IF p.heard THEN {[p EXCEPT !.seq = n]} ELSE {}
  IN  /\ p \in posts /\ p.seq = 0
      /\ IF found = {}
         THEN /\ log' = [log EXCEPT ![c] = Append(@, p.id)]
              /\ unrelayed' = unrelayed \cup {<<c, fresh>>}
              /\ posts' = (posts \ {p}) \cup Kept(fresh)
         ELSE /\ \E n \in found : posts' = (posts \ {p}) \cup Kept(n)
              /\ UNCHANGED server
      /\ UNCHANGED <<link, selected, timeline, connection, accepted, history, asked,
                     answers, home, bounds, faults>>

ReceivePost(p) ==
  /\ p \in posts /\ p.seq # 0
  /\ posts' = posts \ {p}
  /\ Merge({<<home[p.id], p.seq>>})
  /\ UNCHANGED <<server, link, selected, connection, accepted, history, asked, answers,
                 home, bounds, faults>>

PostFails_AnyBubble(p) ==
  /\ p \in posts /\ p.heard
  /\ Fault
  /\ posts' = posts \ {p}
  /\ bubble' = [bubble EXCEPT ![p.id] = "failed"]
  /\ UNCHANGED <<server, link, selected, shown, last, connection, accepted, history,
                 asked, answers, home, bounds>>

(* The client gives a send up; the API may store the message all the same. *)
PostFails(p) ==
  /\ p \in posts /\ p.heard
  /\ Fault
  /\ \E left \in {{}, {[p EXCEPT !.heard = FALSE]}} :
       /\ p.seq # 0 => left = {}
       /\ posts' = (posts \ {p}) \cup left
  /\ bubble' = [bubble EXCEPT ![p.id] = IF @ = "none" THEN @ ELSE "failed"]
  /\ UNCHANGED <<server, link, selected, shown, last, connection, accepted, history,
                 asked, answers, home, bounds>>

-----------------------------------------------------------------------------
Init ==
  /\ instance \in Instances
  /\ log = [c \in Chat |-> [n \in 1 .. Stored |-> Other]] /\ unrelayed = {}
  /\ socket = "down" /\ subscription = NoSubscription
  /\ selected \in Chat
  /\ shown = {} /\ bubble = [i \in Own |-> "none"] /\ last = 0
  /\ connection = "connecting"
  /\ accepted = {}
  /\ before = 0 /\ loading = TRUE /\ broken = FALSE
  /\ asked = {Latest(selected)} /\ answers = {} /\ posts = {}
  /\ home = [i \in Own |-> None]
  /\ selects = 0 /\ faults = 0

(* What the API, the relay and the panel do when nothing goes wrong. *)
Gateway == Connect \/ Join \/ ReadSubscription \/ ReceiveSubscription \/ ReceiveDisconnect
Reads ==
  \/ \E q \in asked : AnswerRead(q)
  \/ \E a \in answers : ReceiveHistory(a) \/ ReceiveCatchUp(a)
Sends == \E p \in posts : StorePost(p) \/ ReceivePost(p)

Failures ==
  \/ ConnectFails \/ Disconnect \/ Refuse \/ SubscriptionTimesOut
  \/ \E q \in asked : ReadFails(q)
  \/ \E p \in posts : PostFails(p)

Next ==
  \/ \E c \in Chat : Write(c) \/ Select(c)
  \/ \E e \in unrelayed : Relay(e[1], e[2])
  \/ Gateway \/ Reads \/ Sends \/ Failures
  \/ LoadOlder \/ RetryLatest
  \/ \E i \in Own : Send(i)

Spec == Init /\ [][Next]_vars

(* Socket.IO reconnects unless the API has ended the connection, reads are       *)
(* answered, and the relay delivers every event for good; the user owes nothing. *)
FairSpec ==
  /\ Spec
  /\ WF_vars(Gateway) /\ WF_vars(Reads) /\ WF_vars(Sends)
  /\ WF_vars(\E e \in unrelayed : Relay(e[1], e[2]) /\ unrelayed' # unrelayed)

-----------------------------------------------------------------------------
TypeOK ==
  /\ instance \in Instances
  /\ log \in [Chat -> Seq(Own \cup {Other})]
  /\ unrelayed \in SUBSET (Chat \X Nat)
  /\ socket \in {"down", "up", "joined", "closing", "ended"}
  /\ subscription \in [stage: {"none", "asked", "joined", "answered", "rejected", "dropped"},
                       after: Nat, upto: Nat, heard: BOOLEAN]
  /\ selected \in Chat
  /\ shown \in SUBSET (Chat \X Nat)
  /\ bubble \in [Own -> {"none", "sending", "failed"}]
  /\ last \in Nat
  /\ connection \in {"connecting", "connected", "offline"}
  /\ accepted \in SUBSET Nat
  /\ before \in Nat /\ loading \in BOOLEAN /\ broken \in BOOLEAN
  /\ asked \in SUBSET Ask
  /\ answers \in SUBSET [ask: Ask, low: Nat, top: Nat, more: BOOLEAN]
  /\ posts \in SUBSET Post
  /\ home \in [Own -> Chat \cup {None}]
  /\ selects \in Nat /\ faults \in Nat

(* Chats that fit the newest page. *)
Fitting == {i \in Instances : i[2].messages <= i[1].history}
Fits == instance \in Fitting

(* The timeline of a chat that fits the newest page is one stretch of the chat *)
(* that ends at lastSequence, so that no catch-up jumps over a message, and    *)
(* what precedes the stretch can be asked for unless the timeline is full.     *)
Full == Cardinality(shown) + Cardinality({i \in Own : bubble[i] # "none"}) >= RenderLimit
NoHoles ==
  Fits =>
    /\ \A m \in shown : m[1] = selected /\ m[2] <= last
    /\ \A m \in shown : \A n \in m[2] .. last : <<selected, n>> \in shown
    /\ last # 0 => /\ shown # {}
                   /\ <<selected, 1>> \in shown \/ before # 0 \/ Full

Quiet ==
  /\ socket = "joined" /\ subscription = NoSubscription /\ connection = "connected"
  /\ asked = {} /\ answers = {} /\ posts = {}
  /\ \A e \in unrelayed : e[1] # selected

(* "Clients recover any gap from PostgreSQL history": while the header says    *)
(* that updates are connected and nothing is under way, the timeline shows the *)
(* selected chat and nothing else, without a gap and up to its last message.   *)
CompleteWhenQuiet ==
  Quiet => /\ shown \subseteq {selected} \X Nat
           /\ Len(log[selected]) > 0 => <<selected, Len(log[selected])>> \in shown
           /\ \A m \in shown : \A n \in m[2] .. Len(log[selected]) : <<selected, n>> \in shown

(* Sends, late pages of another chat and reads that fail can leave gaps, but   *)
(* none above lastSequence: while the header says that updates are connected   *)
(* and nothing is under way, no message of the selected chat is beyond what a  *)
(* next catch-up would start from.                                             *)
NothingAboveIsMissed == Quiet => Len(log[selected]) <= last

(* A message of one's own is never shown twice, as a bubble and as the stored *)
(* message, whichever of its reply and its event comes first or fails.        *)
NoDoubles ==
  \A m \in shown : log[m[1]][m[2]] \in Own => bubble[log[m[1]][m[2]]] = "none"

(* Every message of the selected chat is shown in the end, if the chat fits the *)
(* newest page, or the header does not go on saying that updates are connected:  *)
(* it says that the client is offline, or, once the API has ended the            *)
(* connection, that the client connects, which it does no more.                  *)
Stranded == socket = "ended" /\ connection = "connecting"
CaughtUp ==
  \A c \in Chat, n \in UNION {1 .. i[2].messages : i \in Fitting} :
    Fits /\ selected = c /\ Len(log[c]) >= n
    ~> selected # c \/ <<c, n>> \in shown \/ connection = "offline" \/ Stranded
=============================================================================
