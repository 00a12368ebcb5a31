--------------------------- MODULE RealtimeGateway ---------------------------
(***************************************************************************)
(* The realtime gateway of the API: several instances that hold Socket.IO  *)
(* connections to one chat and announce its messages to them.  A run is    *)
(* one execution of emitMessageCreated: deliverLocal at the instance that  *)
(* was asked, then at every peer the adapter counts, whose answers it      *)
(* awaits.  Sockets connect, subscribe and lose their rights meanwhile;    *)
(* instances start and die.                                                *)
(*                                                                         *)
(* Messages are numbered in the order of their events.  A message is       *)
(* committed before its event can be relayed; here both happen at once, so *)
(* that subscriptions find the least the database may show them.  The      *)
(* pages of a subscription are left to ClientTimeline.  The adapter        *)
(* (external) counts an instance from its start until it is missed, and    *)
(* awaits the answers of those it counted.                                 *)
(* Definitions named X_<change> are mutants: X with one plausible mistake. *)
(***************************************************************************)
EXTENDS Integers, FiniteSets

CONSTANTS
  LastMessage,  \* bound on the number of messages
  Socket,       \* connections, each made once
  Instance,     \* API processes
  Run,          \* executions of emitMessageCreated at one time
  None,
  MaxFaults,    \* bound on failures, timeouts and crashes
  MaxChanges    \* bound on sessions that end and memberships that change

ASSUME GatewayAssumption ==
  /\ LastMessage \in Nat /\ Run \subseteq Nat
  /\ Instance # {} /\ IsFiniteSet(Instance)
  /\ None \notin Socket \cup Instance \cup Run
  /\ MaxFaults \in Nat /\ MaxChanges \in Nat

Message == 1 .. LastMessage

VARIABLES
  added,     \* number of messages written
  up,        \* instances that run
  counted,   \* instances the adapter counts as live servers
  conn,      \* each socket: how far it has come, the instance it is at, what its
             \* subscription has read, and the messages its client was given or told of
  signedIn,  \* sockets whose application session is valid
  member,    \* sockets whose account may read the chat
  before,    \* messages that were written when the session ended
  run,       \* the executions of emitMessageCreated
  task,      \* deliverLocal of each execution at each instance
  faults, changes

rights == <<signedIn, member, before, changes>>
servers == <<up, counted>>
runs == <<run, task>>
gateway == <<added, conn, rights, servers, runs>>

-----------------------------------------------------------------------------
Fault == faults < MaxFaults /\ faults' = faults + 1

NoTask == [stage |-> "none", message |-> None, left |-> {}, held |-> None]
LocalTask(m) == [NoTask EXCEPT !.stage = "fetch", !.message = m]
NoRun == [stage |-> "free", message |-> None, home |-> None, asked |-> {}]

NoSocket == [phase |-> "none", at |-> None, snapshot |-> {}, seen |-> {}]

InRoom_Confirmed == {s \in Socket : conn[s].phase = "subscribed"}

(* The sockets in the room of the chat. *)
InRoom == {s \in Socket : conn[s].phase \in {"joined", "read", "subscribed"}}

Subscribed == {s \in Socket : conn[s].phase = "subscribed"}

Goto(s, p) == conn' = [conn EXCEPT ![s].phase = p]

(* Sockets close; what their clients have seen no longer matters. *)
Close(S) ==
  conn' = [s \in Socket |-> IF s \in S THEN [NoSocket EXCEPT !.phase = "closed"] ELSE conn[s]]

(* handleConnection, and the first check of subscribe. *)
Admit(s, i) ==
  /\ conn[s].phase = "none" /\ s \in signedIn /\ i \in up
  /\ conn' = [conn EXCEPT ![s].phase = "admitted", ![s].at = i]
  /\ UNCHANGED <<added, rights, servers, runs, faults>>

Join(s) ==
  /\ conn[s].phase = "admitted"
  /\ Goto(s, "joined")
  /\ UNCHANGED <<added, rights, servers, runs, faults>>

(* The read of the subscription. When it is refused or fails the room is left. *)
ReadChat(s) ==
  /\ conn[s].phase = "joined"
  /\ \/ /\ IF s \in member
           THEN conn' = [conn EXCEPT ![s].phase = "read", ![s].snapshot = 1 .. added]
           ELSE Close({s})
        /\ UNCHANGED faults
     \/ Close({s}) /\ Fault
  /\ UNCHANGED <<added, rights, servers, runs>>

HandOut(s) ==
  conn' = [conn EXCEPT ![s].phase = "subscribed", ![s].snapshot = {},
                       ![s].seen = @ \cup conn[s].snapshot]

Confirm_Unchecked(s) ==
  /\ conn[s].phase = "read"
  /\ HandOut(s)
  /\ UNCHANGED <<added, rights, servers, runs, faults>>

(* The session is checked once more before the history is handed out. *)
Confirm(s) ==
  /\ conn[s].phase = "read"
  /\ IF s \in signedIn THEN HandOut(s) ELSE Close({s})
  /\ UNCHANGED <<added, rights, servers, runs, faults>>

-----------------------------------------------------------------------------
(* deliverLocal *)

SetTask(r, i, t) == task' = [task EXCEPT ![r] = [@ EXCEPT ![i] = t]]

Delivered(r, i) == task[r][i].stage = "loop" /\ task[r][i].left = {}
Finished(r, i) == Delivered(r, i) \/ task[r][i].stage = "failed"

(* fetchSockets *)
Fetch(r, i) ==
  /\ task[r][i].stage = "fetch"
  /\ SetTask(r, i, [task[r][i] EXCEPT !.stage = "loop", !.left = {s \in InRoom : conn[s].at = i}])
  /\ UNCHANGED <<added, conn, rights, servers, run, faults>>

(* The session of the next socket is validated. A session that has ended, or an *)
(* auth service that does not answer, disconnects the socket.                   *)
Validate(r, i, s) ==
  LET t == task[r][i] IN
  /\ t.stage = "loop" /\ t.held = None /\ s \in t.left
  /\ \/ /\ s \in signedIn
        /\ SetTask(r, i, [t EXCEPT !.held = s])
        /\ UNCHANGED <<conn, faults>>
     \/ /\ s \in signedIn => Fault
        /\ s \notin signedIn => UNCHANGED faults
        /\ SetTask(r, i, [t EXCEPT !.left = @ \ {s}])
        /\ Close({s})
  /\ UNCHANGED <<added, rights, servers, run>>

(* canReadChat, and the emit that follows its answer at once. *)
Tell(r, i) ==
  LET t == task[r][i]
      s == t.held
  IN /\ t.stage = "loop" /\ s # None
     /\ SetTask(r, i, [t EXCEPT !.held = None, !.left = @ \ {s}])
     /\ IF s \notin member THEN Close({s})
        ELSE conn' = IF conn[s].phase = "closed" THEN conn
                     ELSE [conn EXCEPT ![s].seen = @ \cup {t.message}]
     /\ UNCHANGED <<added, rights, servers, run, faults>>

(* The database does not answer: the delivery has failed. *)
TellFails(r, i) ==
  /\ task[r][i].held # None
  /\ Fault
  /\ SetTask(r, i, [NoTask EXCEPT !.stage = "failed"])
  /\ UNCHANGED <<added, conn, rights, servers, run>>

-----------------------------------------------------------------------------
(* emitMessageCreated *)

SetStage(r, s) == run' = [run EXCEPT ![r].stage = s]

Over(r, i) == task[r][i].stage = "none" \/ Finished(r, i)

Idle(r) == run[r].stage = "free" /\ \A i \in Instance : Over(r, i)

(* An execution ends; deliveries at peers that have not answered go on. *)
Free(r) ==
  /\ run' = [run EXCEPT ![r] = NoRun]
  /\ task' = [task EXCEPT ![r] = [i \in Instance |-> IF Over(r, i) THEN NoTask ELSE @[i]]]

Accept(r, m, i) ==
  /\ Idle(r) /\ i \in up
  /\ run' = [run EXCEPT ![r] = [stage |-> "local", message |-> m, home |-> i, asked |-> {}]]
  /\ task' = [task EXCEPT ![r] =
       [j \in Instance |-> IF j = i THEN LocalTask(m) ELSE NoTask]]

(* The local delivery is over; the adapter is asked for the number of servers. *)
Count(r) ==
  /\ run[r].stage = "local" /\ Finished(r, run[r].home)
  /\ SetStage(r, IF ~Delivered(r, run[r].home) THEN "refused"
                 ELSE IF Cardinality(counted) <= 1 THEN "accepted" ELSE "emit")
  /\ UNCHANGED <<added, conn, rights, servers, task, faults>>

(* serverSideEmitWithAck *)
Emit(r) ==
  LET peers == counted \ {run[r].home} IN
  /\ run[r].stage = "emit"
  /\ run' = [run EXCEPT ![r].stage = "wait", ![r].asked = peers]
  /\ task' = [task EXCEPT ![r] =
       [i \in Instance |-> IF i \in peers \cap up THEN LocalTask(run[r].message) ELSE @[i]]]
  /\ UNCHANGED <<added, conn, rights, servers, faults>>

(* Every peer that was asked, and still counts, has answered. *)
Answer(r) ==
  /\ run[r].stage = "wait"
  /\ \A i \in run[r].asked : Finished(r, i)
  /\ SetStage(r, IF run[r].asked # {} /\ \A i \in run[r].asked : Delivered(r, i)
                 THEN "accepted" ELSE "refused")
  /\ UNCHANGED <<added, conn, rights, servers, task, faults>>

(* clusterDeliveryAckTimeoutMilliseconds have passed; the peers go on. *)
TimeOut(r) ==
  /\ run[r].stage = "wait"
  /\ Fault
  /\ SetStage(r, "refused")
  /\ UNCHANGED <<added, conn, rights, servers, task>>

-----------------------------------------------------------------------------
(* Instances, rights *)

Start(i) ==
  /\ i \notin up \cup counted
  /\ up' = up \cup {i} /\ counted' = counted \cup {i}
  /\ UNCHANGED <<added, conn, rights, runs, faults>>

(* Redis is lost: the instance closes its sockets. *)
Cut(i) ==
  /\ Fault /\ i \in up
  /\ Close({s \in Socket : conn[s].at = i})
  /\ UNCHANGED <<added, rights, servers, runs>>

(* An instance dies; another one is left. *)
Die(i) ==
  /\ Fault /\ i \in up /\ up # {i}
  /\ up' = up \ {i}
  /\ Close({s \in Socket : conn[s].at = i})
  /\ task' = [r \in Run |-> [task[r] EXCEPT ![i] = IF Finished(r, i) THEN @ ELSE NoTask]]
  /\ run' = [r \in Run |-> IF run[r].home = i /\ run[r].stage \in {"local", "emit", "wait"}
                           THEN [run[r] EXCEPT !.stage = "refused"] ELSE run[r]]
  /\ UNCHANGED <<added, rights, counted>>

(* The adapter misses the heartbeats of a dead instance. *)
Forget(i) ==
  /\ i \in counted \ up
  /\ counted' = counted \ {i}
  /\ run' = [r \in Run |-> IF Finished(r, i) THEN run[r]
                           ELSE [run[r] EXCEPT !.asked = @ \ {i}]]
  /\ UNCHANGED <<added, conn, rights, up, task, faults>>

Change == changes < MaxChanges /\ changes' = changes + 1

EndSession(s) ==
  /\ Change
  /\ s \in signedIn
  /\ signedIn' = signedIn \ {s}
  /\ before' = [before EXCEPT ![s] = 1 .. added]
  /\ UNCHANGED <<added, conn, member, servers, runs, faults>>

ChangeMembership(s) ==
  /\ Change
  /\ member' = (member \ {s}) \cup ({s} \ member)
  /\ UNCHANGED <<added, conn, signedIn, before, servers, runs, faults>>

-----------------------------------------------------------------------------
(* One instance runs; others are started at any time. *)
GatewayInit ==
  /\ added = 0
  /\ up = {CHOOSE i \in Instance : TRUE} /\ counted = up
  /\ conn = [s \in Socket |-> NoSocket]
  /\ signedIn = Socket
  /\ member = Socket
  /\ before = [s \in Socket |-> {}]
  /\ run = [r \in Run |-> NoRun]
  /\ task = [r \in Run |-> [i \in Instance |-> NoTask]]
  /\ faults = 0
  /\ changes = 0

(* What an execution does when nothing goes wrong. *)
Proceed(r) ==
  \/ Count(r) \/ Emit(r) \/ Answer(r)
  \/ \E i \in Instance : Fetch(r, i) \/ Tell(r, i) \/ \E s \in Socket : Validate(r, i, s)

GatewayNext ==
  \/ \E s \in Socket :
       \/ \E i \in Instance : Admit(s, i)
       \/ Join(s) \/ ReadChat(s) \/ Confirm(s) \/ EndSession(s) \/ ChangeMembership(s)
  \/ \E r \in Run : Proceed(r) \/ TimeOut(r) \/ \E i \in Instance : TellFails(r, i)
  \/ \E i \in Instance : Start(i) \/ Cut(i) \/ Die(i) \/ Forget(i)

GatewayTypeOK ==
  /\ added \in Nat /\ faults \in Nat /\ changes \in Nat
  /\ up \subseteq Instance /\ counted \subseteq Instance
  /\ conn \in [Socket -> [phase : {"none", "admitted", "joined", "read", "subscribed", "closed"},
                           at : Instance \cup {None}, snapshot : SUBSET Message,
                           seen : SUBSET Message]]
  /\ signedIn \subseteq Socket /\ member \subseteq Socket
  /\ before \in [Socket -> SUBSET Message]
  /\ run \in [Run -> [stage : {"free", "local", "emit", "wait", "accepted", "refused"},
                      message : Message \cup {None}, home : Instance \cup {None},
                      asked : SUBSET Instance]]
  /\ task \in [Run -> [Instance -> [stage : {"none", "fetch", "loop", "failed"},
                                    message : Message \cup {None},
                                    left : SUBSET Socket, held : Socket \cup {None}]]]
=============================================================================
