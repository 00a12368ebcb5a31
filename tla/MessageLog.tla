----------------------------- MODULE MessageLog -----------------------------
(***************************************************************************)
(* What the message store promises its callers: every chat is a log that   *)
(* only grows at its end, a call to create a message takes effect at one   *)
(* moment or not at all, and a sender's key names at most one entry.       *)
(***************************************************************************)
EXTENDS Sequences, Integers

CONSTANTS
  Chat,      \* chats
  Call,      \* calls of the create operation
  Requests   \* what a call may ask: records with chat, sender, key and body

VARIABLES
  log,       \* the entries of each chat, oldest first
  request,   \* what each call asks
  answer     \* what each call was told; "none" until it ends

vars == <<log, request, answer>>

EntryOf(r) == [sender |-> r.sender, key |-> r.key, body |-> r.body]

(* The entries the key of a request already names. *)
Named(r) == {i \in DOMAIN log[r.chat] :
               log[r.chat][i].sender = r.sender /\ log[r.chat][i].key = r.key}

Init ==
  /\ log = [c \in Chat |-> <<>>]
  /\ request \in [Call -> Requests]
  /\ answer = [t \in Call |-> "none"]

(* A call ends; its answer can always be lost on the way. *)
End(t, a) ==
  /\ answer[t] = "none"
  /\ \E b \in {a, "lost"} : answer' = [answer EXCEPT ![t] = b]
  /\ UNCHANGED request

Create(t) ==
  /\ Named(request[t]) = {}
  /\ log' = [log EXCEPT ![request[t].chat] = Append(@, EntryOf(request[t]))]
  /\ End(t, "created")

Replay(t) ==
  /\ \E i \in Named(request[t]) : log[request[t].chat][i].body = request[t].body
  /\ UNCHANGED log
  /\ End(t, "replayed")

Refuse(t) == UNCHANGED log /\ End(t, "rejected")

Next == \E t \in Call : Create(t) \/ Replay(t) \/ Refuse(t)

Spec == Init /\ [][Next]_vars
=============================================================================
