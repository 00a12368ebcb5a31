-------------------------- MODULE RealtimeDelivery --------------------------
(***************************************************************************)
(* The realtime relay of the worker, composed with RealtimeGateway: the    *)
(* consumer group realtime-relay over the application stream, and worker   *)
(* processes that reclaim or read its entries, POST them to an instance of *)
(* the API and acknowledge those it accepted.                              *)
(*                                                                         *)
(* Entries are numbered as the messages they announce; the group starts at *)
(* the first.  The stream holds no entry the relay cannot parse, which it  *)
(* would acknowledge unsent (OutboxPublisher!DeliveredWasPublished).  The  *)
(* pauses after errors and the name of a consumer are left out: XAUTOCLAIM *)
(* and XACK ask for neither.                                               *)
(* Definitions named X_<change> are mutants: X with one plausible mistake. *)
(***************************************************************************)
EXTENDS RealtimeGateway

CONSTANTS
  Worker,    \* worker processes
  BatchSize  \* COUNT

ASSUME RelayAssumption == BatchSize \in Nat \ {0} /\ None \notin Worker

VARIABLES
  taken,    \* the last entry the group has delivered to a consumer
  pending,  \* entries delivered and not acknowledged
  idle,     \* those whose last delivery is five seconds ago
  batch,    \* entries each worker has still to handle
  step,     \* what each worker does next
  post      \* the execution each worker awaits

group == <<taken, pending, idle>>
workers == <<batch, step, post>>
vars == <<gateway, faults, group, workers>>

Acknowledged == (1 .. taken) \ pending

-----------------------------------------------------------------------------
(* The first entries of a set, as many as a command returns. *)
FirstOf(S) == {e \in S : Cardinality({d \in S : d <= e}) <= BatchSize}

Current(w) == CHOOSE e \in batch[w] : \A d \in batch[w] : e <= d

Turn(w, s) == step' = [step EXCEPT ![w] = s]

Handle(w, S) ==
  /\ batch' = [batch EXCEPT ![w] = S]
  /\ Turn(w, IF S = {} THEN "reclaim" ELSE "post")

(* The current entry is done with, acknowledged or not. *)
Skip(w) == Handle(w, batch[w] \ {Current(w)})

Add ==
  /\ added + 1 \in Message
  /\ added' = added + 1
  /\ UNCHANGED <<conn, rights, servers, runs, faults, group, workers>>

Age(e) ==
  /\ e \in pending \ idle
  /\ idle' = idle \cup {e}
  /\ UNCHANGED <<gateway, faults, taken, pending, workers>>

Reclaim_NewOnly(w) ==
  /\ step[w] = "reclaim"
  /\ Turn(w, "read")
  /\ UNCHANGED <<gateway, faults, group, batch, post>>

(* XAUTOCLAIM; when nothing is reclaimed, new entries are read next. *)
Reclaim(w) ==
  LET S == FirstOf(idle) IN
  /\ step[w] = "reclaim"
  /\ idle' = idle \ S
  /\ IF S = {} THEN Turn(w, "read") /\ UNCHANGED batch ELSE Handle(w, S)
  /\ UNCHANGED <<gateway, faults, taken, pending, post>>

(* XREADGROUP of new entries; the reply may be lost. *)
ReadNew(w) ==
  LET S == FirstOf((taken + 1) .. added) IN
  /\ step[w] = "read"
  /\ taken' = taken + Cardinality(S)
  /\ pending' = pending \cup S
  /\ \/ Handle(w, S) /\ UNCHANGED faults
     \/ Handle(w, {}) /\ Fault
  /\ UNCHANGED <<gateway, idle, post>>

Post(w) ==
  /\ step[w] = "post"
  /\ \E r \in Run, i \in Instance :
       /\ Accept(r, Current(w), i)
       /\ \A q \in Run : Idle(q) => r <= q
       /\ post' = [post EXCEPT ![w] = r]
  /\ Turn(w, "wait")
  /\ UNCHANGED <<added, conn, rights, servers, faults, group, batch>>

(* The connection is refused. *)
PostFails(w) ==
  /\ step[w] = "post"
  /\ Fault
  /\ Skip(w)
  /\ UNCHANGED <<gateway, group, post>>

(* 202, or 503 (or the instance is gone). *)
Hear(w) ==
  LET r == post[w] IN
  /\ step[w] = "wait"
  /\ run[r].stage \in {"accepted", "refused"}
  /\ IF run[r].stage = "accepted" THEN Turn(w, "ack") /\ UNCHANGED batch ELSE Skip(w)
  /\ Free(r)
  /\ post' = [post EXCEPT ![w] = None]
  /\ UNCHANGED <<added, conn, rights, servers, faults, group>>

(* Five seconds have passed; the execution goes on and nobody awaits it. *)
GiveUp(w) ==
  /\ step[w] = "wait"
  /\ Fault
  /\ Skip(w)
  /\ post' = [post EXCEPT ![w] = None]
  /\ UNCHANGED <<gateway, group>>

(* XACK; when it fails, or its reply is lost, the rest of the batch is dropped. *)
Acknowledge(w) ==
  /\ step[w] = "ack"
  /\ pending' = pending \ {Current(w)}
  /\ idle' = idle \ {Current(w)}
  /\ \/ Skip(w) /\ UNCHANGED faults
     \/ Handle(w, {}) /\ Fault
  /\ UNCHANGED <<gateway, taken, post>>

(* The process dies and is started again, or a command of Redis fails. *)
Crash(w) ==
  /\ Fault
  /\ step[w] # "reclaim"
  /\ Handle(w, {})
  /\ post' = [post EXCEPT ![w] = None]
  /\ UNCHANGED <<gateway, group>>

(* The end of an execution nobody awaits. *)
End(r) ==
  /\ run[r].stage \in {"accepted", "refused"} /\ \A w \in Worker : post[w] # r
  /\ Free(r)
  /\ UNCHANGED <<added, conn, rights, servers, faults, group, workers>>

-----------------------------------------------------------------------------
Init ==
  /\ GatewayInit
  /\ taken = 0 /\ pending = {} /\ idle = {}
  /\ batch = [w \in Worker |-> {}]
  /\ step = [w \in Worker |-> "reclaim"]
  /\ post = [w \in Worker |-> None]

(* What a worker does when nothing goes wrong. *)
Work(w) == Reclaim(w) \/ ReadNew(w) \/ Post(w) \/ Hear(w) \/ Acknowledge(w)

Next ==
  \/ Add
  \/ \E e \in Message : Age(e)
  \/ \E w \in Worker : Work(w) \/ PostFails(w) \/ GiveUp(w) \/ Crash(w)
  \/ \E r \in Run : End(r)
  \/ GatewayNext /\ UNCHANGED <<group, workers>>

Spec == Init /\ [][Next]_vars

(* The relay loop of each worker and the executions of the API run on, dead      *)
(* instances are missed and entries come of age; faults end, and clients and     *)
(* messages owe nothing.                                                         *)
FairSpec ==
  /\ Spec
  /\ \A w \in Worker : WF_vars(Work(w))
  /\ \A r \in Run : WF_vars(End(r) \/ (Proceed(r) /\ UNCHANGED <<group, workers>>))
  /\ \A e \in Message : WF_vars(Age(e))
  /\ WF_vars((\E i \in Instance : Forget(i)) /\ UNCHANGED <<group, workers>>)

-----------------------------------------------------------------------------
TypeOK ==
  /\ GatewayTypeOK
  /\ taken \in Nat
  /\ pending \subseteq Message /\ idle \subseteq pending
  /\ batch \in [Worker -> SUBSET Message]
  /\ step \in [Worker -> {"reclaim", "read", "post", "wait", "ack"}]
  /\ post \in [Worker -> Run \cup {None}]

(* An entry is acknowledged only when every subscriber, at whatever instance, *)
(* has been told of it or has read its message: room and history leave no gap *)
(* between them, and no answer is given for a peer that failed or was late.   *)
AcknowledgedWasSeen ==
  \A s \in Subscribed : Acknowledged \subseteq conn[s].seen

(* A client is never given or told of a message written after its session     *)
(* ended, though the session is checked at some other time than the message   *)
(* is read or announced, and by another service.                              *)
SeenWithinSession ==
  \A s \in Socket \ signedIn : conn[s].seen \subseteq before[s]

(* The relay catches up: again and again every entry of the stream has been *)
(* acknowledged, whatever was lost, refused, late or died on the way.       *)
RelayCatchesUp == []<>(Acknowledged = 1 .. added)
=============================================================================
