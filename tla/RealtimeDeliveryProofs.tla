------------------------ MODULE RealtimeDeliveryProofs ------------------------
(***************************************************************************)
(* Theorems about RealtimeDelivery, for any number of messages, sockets,   *)
(* instances, workers and faults.                                          *)
(***************************************************************************)
EXTENDS RealtimeDelivery, FiniteSetTheorems, WellFoundedInduction, TLAPS

Live == {"admitted", "joined", "read", "subscribed"}

(* Sockets that are still there are at an instance that runs and is counted. *)
Places ==
  /\ up \subseteq counted
  /\ \A s \in Socket : conn[s].phase \in Live <=> conn[s].at # None
  /\ \A s \in Socket : conn[s].at \in up \cup {None}

(* Nothing is ahead of what has been written. *)
Bounds ==
  /\ added <= LastMessage /\ taken <= added
  /\ pending \subseteq 1 .. taken
  /\ \A w \in Worker : batch[w] \subseteq 1 .. taken
  /\ \A s \in Socket : conn[s].snapshot \subseteq 1 .. added /\ conn[s].seen \subseteq 1 .. added
  /\ \A r \in Run : run[r].stage # "free" => run[r].message \in 1 .. added
  /\ \A r \in Run, i \in Instance : task[r][i].stage \in {"fetch", "loop"} => task[r][i].message \in 1 .. added

(* What has been validated for a session that has ended since is not new to it. *)
HeldWithinSession ==
  \A r \in Run, i \in Instance :
    /\ task[r][i].held # None => task[r][i].stage = "loop"
    /\ \A s \in Socket \ signedIn : task[r][i].held = s => task[r][i].message \in before[s]

(* The client of a socket has a message, or is sure to read it. *)
Informed(c, m) ==
  \/ c.phase \notin {"read", "subscribed"}
  \/ m \in c.seen
  \/ c.phase = "read" /\ m \in c.snapshot

Knows(s, m) == Informed(conn[s], m)

(* The delivery of an execution at an instance has still to reach a socket. *)
Pends(r, i, s) ==
  \/ task[r][i].stage = "failed"
  \/ /\ task[r][i].message = run[r].message
     /\ task[r][i].stage = "fetch" \/ (task[r][i].stage = "loop" /\ s \in task[r][i].left)

(* What an execution still owes a socket that does not know the message. *)
Owed(r, s) ==
  \/ run[r].stage \in {"free", "refused"}
  \/ run[r].stage = "local" /\ (conn[s].at # run[r].home \/ Pends(r, run[r].home, s))
  \/ run[r].stage = "emit" /\ conn[s].at # run[r].home
  \/ run[r].stage = "wait" /\ conn[s].at \in run[r].asked /\ Pends(r, conn[s].at, s)

Executions ==
  \A r \in Run :
    /\ run[r].stage \in {"local", "emit", "wait"} => run[r].home \in up
    /\ \A s \in Socket : Knows(s, run[r].message) \/ Owed(r, s)

(* Who awaits an execution awaits it alone, and for the entry it handles. *)
Awaited ==
  \A w \in Worker :
    /\ step[w] \in {"post", "wait", "ack"} => batch[w] # {}
    /\ step[w] = "wait" => /\ post[w] \in Run
                           /\ run[post[w]].stage # "free"
                           /\ run[post[w]].message = Current(w)
    /\ step[w] # "wait" => post[w] = None
    /\ \A v \in Worker : v # w /\ post[w] # None => post[v] # post[w]
    /\ step[w] = "ack" => \A s \in Socket : Knows(s, Current(w))

AcknowledgedIsKnown == \A m \in Acknowledged : \A s \in Socket : Knows(s, m)

IInv ==
  /\ TypeOK /\ Places /\ Bounds /\ HeldWithinSession /\ SeenWithinSession
  /\ Executions /\ Awaited /\ AcknowledgedIsKnown

USE GatewayAssumption, RelayAssumption DEF Message

NatLess == {p \in Nat \X Nat : p[1] < p[2]}

LEMMA NatLessWellFounded == IsWellFoundedOn(NatLess, Nat)
BY NatLessThanWellFounded DEF OpToRel, NatLess

LEMMA LeastElement ==
  ASSUME NEW S, S \subseteq Nat, S # {}
  PROVE  \E e \in S : \A d \in S : e <= d
<1>1. PICK e \in S : \A d \in S : ~(<<d, e>> \in NatLess)
  BY NatLessWellFounded, WFMin
<1>2. \A d \in S : ~(d < e)
  BY <1>1 DEF NatLess
<1> QED BY <1>2

LEMMA CurrentInBatch ==
  ASSUME NEW w \in Worker, batch[w] \subseteq Nat, batch[w] # {}
  PROVE  Current(w) \in batch[w]
BY LeastElement DEF Current

(* Clients forget nothing, and who comes anew is sure to read everything. *)
Learn ==
  /\ \A s \in Socket : \A m \in 1 .. added : Knows(s, m) => Knows(s, m)'
  /\ \A s \in Socket : conn'[s].at = conn[s].at \/ \A m \in 1 .. added : Knows(s, m)'

LEMMA InitInv == Init => IInv
<1> SUFFICES ASSUME Init PROVE IInv
  OBVIOUS
<1> USE DEF Init, GatewayInit
<1>1. TypeOK
  BY DEF TypeOK, GatewayTypeOK, NoRun, NoTask, NoSocket
<1>2. Places /\ Bounds /\ HeldWithinSession /\ SeenWithinSession
  BY DEF Places, Bounds, HeldWithinSession, SeenWithinSession, Live, NoRun, NoTask, NoSocket
<1>3. Executions /\ Awaited /\ AcknowledgedIsKnown
  BY DEF Executions, Awaited, AcknowledgedIsKnown, Acknowledged, Knows, Informed, NoSocket, NoRun
<1> QED BY <1>1, <1>2, <1>3 DEF IInv

(* A step of the sockets alone. *)
LEMMA SocketsInv ==
  ASSUME IInv, TypeOK', Places', Learn, SeenWithinSession',
         UNCHANGED <<added, servers, runs, signedIn, before, group, workers>>,
         \A s \in Socket : conn'[s].snapshot \subseteq 1 .. added
                           /\ conn'[s].seen \subseteq 1 .. added
  PROVE  IInv'
<1> USE DEF servers, runs, group, workers
<1>1. Bounds' /\ HeldWithinSession'
  BY DEF IInv, Bounds, HeldWithinSession
<1>2. Executions'
  <2> SUFFICES ASSUME NEW r \in Run, NEW s \in Socket
               PROVE  (Knows(s, run[r].message) \/ Owed(r, s))'
    BY DEF IInv, Executions
  <2>1. CASE run[r].stage = "free"
    BY <2>1 DEF Owed
  <2>2. CASE run[r].stage # "free"
    <3>1. run[r].message \in 1 .. added
      BY <2>2 DEF IInv, Bounds
    <3>2. Knows(s, run[r].message) \/ Owed(r, s)
      BY DEF IInv, Executions
    <3>3. CASE conn'[s].at = conn[s].at
      BY <3>1, <3>2, <3>3 DEF Learn, Owed, Pends
    <3>4. CASE conn'[s].at # conn[s].at
      BY <3>1, <3>4 DEF Learn
    <3> QED BY <3>3, <3>4
  <2> QED BY <2>1, <2>2
<1>3. Awaited'
  <2>1. ASSUME NEW w \in Worker, step[w] = "ack" PROVE Current(w) \in 1 .. added
    <3>1. batch[w] # {} /\ batch[w] \subseteq 1 .. taken /\ taken <= added
      BY <2>1 DEF IInv, Awaited, Bounds
    <3>2. taken \in Nat /\ added \in Nat
      BY DEF IInv, TypeOK, GatewayTypeOK
    <3> QED BY <3>1, <3>2, CurrentInBatch
  <2> QED BY <2>1 DEF IInv, Awaited, Learn, Current
<1>4. AcknowledgedIsKnown'
  <2>1. Acknowledged \subseteq 1 .. added /\ Acknowledged' = Acknowledged
    BY DEF IInv, TypeOK, GatewayTypeOK, Bounds, Acknowledged
  <2> QED BY <2>1 DEF IInv, AcknowledgedIsKnown, Learn
<1> QED BY <1>1, <1>2, <1>3, <1>4 DEF IInv

-----------------------------------------------------------------------------
(* The sockets. *)

ConnRecord ==
  [phase : {"none", "admitted", "joined", "read", "subscribed", "closed"},
   at : Instance \cup {None}, snapshot : SUBSET Message, seen : SUBSET Message]
ConnType == [Socket -> ConnRecord]

LEMMA ConnTyped == ASSUME IInv PROVE conn \in ConnType
BY DEF IInv, TypeOK, GatewayTypeOK, ConnType, ConnRecord

LEMMA SocketsType ==
  ASSUME IInv, conn' \in ConnType, faults' \in Nat,
         UNCHANGED <<added, rights, servers, runs, group, workers>>
  PROVE  TypeOK'
<1> USE DEF IInv, TypeOK, GatewayTypeOK, rights, servers, runs, group, workers
<1>1. conn' \in [Socket -> [phase : {"none", "admitted", "joined", "read", "subscribed", "closed"},
                           at : Instance \cup {None}, snapshot : SUBSET Message,
                           seen : SUBSET Message]]
  BY DEF ConnType, ConnRecord
<1>2. (GatewayTypeOK /\ TypeOK => TypeOK')
  BY <1>1
<1> QED BY <1>2

LEMMA Written == ASSUME IInv PROVE 1 .. added \subseteq Message
BY DEF IInv, TypeOK, GatewayTypeOK, Bounds

(* One socket changes; its client forgets nothing. *)
LEMMA OneSocketInv ==
  ASSUME IInv, NEW s \in Socket, conn' \in ConnType,
         \A t \in Socket \ {s} : conn'[t] = conn[t],
         conn'[s].phase \in Live, conn'[s].at \in up,
         conn[s].at # None => conn'[s].at = conn[s].at,
         conn'[s].snapshot \subseteq 1 .. added, conn'[s].seen \subseteq 1 .. added,
         \A m \in 1 .. added : Informed(conn'[s], m) \/ (conn[s].at # None /\ ~Informed(conn[s], m)),
         s \notin signedIn => conn'[s].seen = conn[s].seen,
         UNCHANGED <<added, rights, servers, runs, faults, group, workers>>
  PROVE  IInv'
<1> USE DEF rights, servers, runs, group, workers
<1>1. TypeOK'
  BY SocketsType DEF IInv, TypeOK, GatewayTypeOK
<1>2. Places'
  <2>1. None \notin up
    BY DEF IInv, TypeOK, GatewayTypeOK
  <2> QED BY <2>1 DEF IInv, Places
<1>3. SeenWithinSession'
  BY DEF IInv, SeenWithinSession
<1>4. \A t \in Socket : conn'[t].snapshot \subseteq 1 .. added /\ conn'[t].seen \subseteq 1 .. added
  BY DEF IInv, Bounds
<1>5. Learn
  <2>1. \A t \in Socket : \A m \in 1 .. added : Informed(conn[t], m) => Informed(conn'[t], m)
    OBVIOUS
  <2>2. \A t \in Socket : conn'[t].at = conn[t].at \/ \A m \in 1 .. added : Informed(conn'[t], m)
    OBVIOUS
  <2> QED BY <2>1, <2>2 DEF Learn, Knows, Informed
<1> QED BY <1>1, <1>2, <1>3, <1>4, <1>5, SocketsInv

LEMMA AdmitInv ==
  ASSUME IInv, NEW s \in Socket, NEW i \in Instance, Admit(s, i), UNCHANGED <<group, workers>>
  PROVE  IInv'
<1>1. conn \in ConnType
  BY ConnTyped
<1>2. conn' \in ConnType /\ \A t \in Socket \ {s} : conn'[t] = conn[t]
  BY <1>1, Written DEF ConnType, ConnRecord, Admit
<1>3. /\ conn'[s].phase = "admitted" /\ conn'[s].at = i
      /\ conn'[s].snapshot = conn[s].snapshot /\ conn'[s].seen = conn[s].seen
  BY <1>1 DEF ConnType, ConnRecord, Admit
<1>4. conn[s].at = None /\ conn[s].snapshot \subseteq 1 .. added /\ conn[s].seen \subseteq 1 .. added
  BY <1>1 DEF IInv, Places, Live, Bounds, ConnType, ConnRecord, Admit
<1>5. \A m \in 1 .. added : Informed(conn'[s], m) \/ (conn[s].at # None /\ ~Informed(conn[s], m))
  BY <1>3, <1>4 DEF Informed, Admit
<1>6. conn'[s].phase \in Live /\ conn'[s].at \in up /\ (conn[s].at # None => conn'[s].at = conn[s].at)
  BY <1>3, <1>4 DEF Live, Admit
<1>7. conn'[s].snapshot \subseteq 1 .. added /\ conn'[s].seen \subseteq 1 .. added
  BY <1>3, <1>4
<1>8. s \notin signedIn => conn'[s].seen = conn[s].seen
  BY <1>3
<1> QED BY <1>2, <1>5, <1>6, <1>7, <1>8, OneSocketInv DEF rights, servers, runs, Admit

LEMMA JoinInv ==
  ASSUME IInv, NEW s \in Socket, Join(s), UNCHANGED <<group, workers>>
  PROVE  IInv'
<1>1. conn \in ConnType
  BY ConnTyped
<1>2. conn' \in ConnType /\ \A t \in Socket \ {s} : conn'[t] = conn[t]
  BY <1>1, Written DEF ConnType, ConnRecord, Join, Goto
<1>3. /\ conn'[s].phase = "joined" /\ conn'[s].at = conn[s].at
      /\ conn'[s].snapshot = conn[s].snapshot /\ conn'[s].seen = conn[s].seen
  BY <1>1 DEF ConnType, ConnRecord, Join, Goto
<1>4. conn[s].at \in up /\ conn[s].snapshot \subseteq 1 .. added /\ conn[s].seen \subseteq 1 .. added
  BY <1>1 DEF IInv, Places, Live, Bounds, ConnType, ConnRecord, Join, Goto
<1>5. \A m \in 1 .. added : Informed(conn'[s], m) \/ (conn[s].at # None /\ ~Informed(conn[s], m))
  BY <1>3, <1>4 DEF Informed, Join, Goto
<1>6. conn'[s].phase \in Live /\ conn'[s].at \in up /\ (conn[s].at # None => conn'[s].at = conn[s].at)
  BY <1>3, <1>4 DEF Live, Join, Goto
<1>7. conn'[s].snapshot \subseteq 1 .. added /\ conn'[s].seen \subseteq 1 .. added
  BY <1>3, <1>4
<1>8. s \notin signedIn => conn'[s].seen = conn[s].seen
  BY <1>3
<1> QED BY <1>2, <1>5, <1>6, <1>7, <1>8, OneSocketInv DEF rights, servers, runs, Join, Goto

(* What closing sockets does to each part of the invariant. *)
LEMMA CloseFacts ==
  ASSUME IInv, NEW S \in SUBSET Socket, Close(S)
  PROVE  /\ conn' \in ConnType
         /\ \A t \in Socket : conn'[t].at \in {conn[t].at, None}
         /\ \A t \in Socket : conn'[t].phase \in Live <=> conn'[t].at # None
         /\ \A t \in S : conn'[t].at = None
         /\ \A t \in Socket : /\ conn'[t].snapshot \subseteq conn[t].snapshot
                              /\ conn'[t].seen \subseteq conn[t].seen
         /\ Learn
<1> USE DEF Close, NoSocket
<1>1. conn' \in ConnType
  BY ConnTyped DEF ConnType, ConnRecord
<1>2. \A t \in Socket : conn'[t] = IF t \in S THEN [phase |-> "closed", at |-> None, snapshot |-> {}, seen |-> {}]
                                   ELSE conn[t]
  OBVIOUS
<1>3. \A t \in Socket : conn'[t].phase \in Live <=> conn'[t].at # None
  BY <1>2 DEF IInv, Places, Live
<1>4. Learn
  BY <1>2 DEF Learn, Knows, Informed
<1> QED BY <1>1, <1>2, <1>3, <1>4

(* Steps that close sockets and change nothing else the invariant is about. *)
LEMMA CloseInv ==
  ASSUME IInv, NEW S \in SUBSET Socket, Close(S), faults' \in Nat,
         UNCHANGED <<added, rights, servers, runs, group, workers>>
  PROVE  IInv'
<1> USE CloseFacts DEF rights, servers, runs, group, workers
<1>1. TypeOK'
  BY SocketsType
<1>2. Places'
  BY DEF IInv, Places, Live
<1>3. SeenWithinSession'
  BY DEF IInv, SeenWithinSession
<1>4. \A t \in Socket : conn'[t].snapshot \subseteq 1 .. added /\ conn'[t].seen \subseteq 1 .. added
  BY DEF IInv, Bounds
<1> QED BY <1>1, <1>2, <1>3, <1>4, SocketsInv

LEMMA FaultType == ASSUME IInv, Fault PROVE faults' \in Nat
BY DEF IInv, TypeOK, GatewayTypeOK, Fault

LEMMA ReadChatInv ==
  ASSUME IInv, NEW s \in Socket, ReadChat(s), UNCHANGED <<group, workers>>
  PROVE  IInv'
<1>1. CASE Close({s})
  BY <1>1, CloseInv, FaultType DEF ReadChat, IInv, TypeOK, GatewayTypeOK
<1>2. CASE /\ UNCHANGED faults
           /\ conn' = [conn EXCEPT ![s].phase = "read", ![s].snapshot = 1 .. added]
  <2>1. conn \in ConnType
    BY ConnTyped
  <2>2. conn' \in ConnType /\ \A t \in Socket \ {s} : conn'[t] = conn[t]
    BY <2>1, <1>2, Written DEF ConnType, ConnRecord, ReadChat
  <2>3. /\ conn'[s].phase = "read" /\ conn'[s].at = conn[s].at
        /\ conn'[s].snapshot = 1 .. added /\ conn'[s].seen = conn[s].seen
    BY <2>1, <1>2 DEF ConnType, ConnRecord, ReadChat
  <2>4. conn[s].at \in up /\ conn[s].snapshot \subseteq 1 .. added /\ conn[s].seen \subseteq 1 .. added
    BY <2>1, <1>2 DEF IInv, Places, Live, Bounds, ConnType, ConnRecord, ReadChat
  <2>5. \A m \in 1 .. added : Informed(conn'[s], m) \/ (conn[s].at # None /\ ~Informed(conn[s], m))
    BY <2>3, <2>4, <1>2 DEF Informed, ReadChat
  <2>6. conn'[s].phase \in Live /\ conn'[s].at \in up /\ (conn[s].at # None => conn'[s].at = conn[s].at)
    BY <2>3, <2>4, <1>2 DEF Live, ReadChat
  <2>7. conn'[s].snapshot \subseteq 1 .. added /\ conn'[s].seen \subseteq 1 .. added
    BY <2>3, <2>4
  <2>8. s \notin signedIn => conn'[s].seen = conn[s].seen
    BY <2>3, <1>2
  <2> QED BY <2>2, <2>5, <2>6, <2>7, <2>8, <1>2, OneSocketInv DEF rights, servers, runs, ReadChat
<1> QED BY <1>1, <1>2 DEF ReadChat

LEMMA ConfirmInv ==
  ASSUME IInv, NEW s \in Socket, Confirm(s), UNCHANGED <<group, workers>>
  PROVE  IInv'
<1>1. CASE s \notin signedIn
  BY <1>1, CloseInv DEF Confirm, IInv, TypeOK, GatewayTypeOK
<1>2. CASE s \in signedIn
  <2>1. conn \in ConnType
    BY ConnTyped
  <2>2. conn' \in ConnType /\ \A t \in Socket \ {s} : conn'[t] = conn[t]
    BY <2>1, <1>2, Written DEF ConnType, ConnRecord, Confirm, HandOut
  <2>3. /\ conn'[s].phase = "subscribed" /\ conn'[s].at = conn[s].at
        /\ conn'[s].snapshot = {} /\ conn'[s].seen = conn[s].seen \cup conn[s].snapshot
    BY <2>1, <1>2 DEF ConnType, ConnRecord, Confirm, HandOut
  <2>4. conn[s].phase = "read" /\ conn[s].at \in up
       /\ conn[s].snapshot \subseteq 1 .. added /\ conn[s].seen \subseteq 1 .. added
    BY <2>1, <1>2 DEF IInv, Places, Live, Bounds, ConnType, ConnRecord, Confirm, HandOut
  <2>5. \A m \in 1 .. added : Informed(conn'[s], m) \/ (conn[s].at # None /\ ~Informed(conn[s], m))
    <3>1. conn[s].at # None
      BY <2>4 DEF IInv, TypeOK, GatewayTypeOK
    <3> QED BY <2>3, <2>4, <3>1 DEF Informed
  <2>6. conn'[s].phase \in Live /\ conn'[s].at \in up /\ (conn[s].at # None => conn'[s].at = conn[s].at)
    BY <2>3, <2>4, <1>2 DEF Live, Confirm, HandOut
  <2>7. conn'[s].snapshot \subseteq 1 .. added /\ conn'[s].seen \subseteq 1 .. added
    BY <2>3, <2>4
  <2>8. s \notin signedIn => conn'[s].seen = conn[s].seen
    BY <2>3, <1>2
  <2> QED BY <2>2, <2>5, <2>6, <2>7, <2>8, <1>2, OneSocketInv DEF rights, servers, runs, Confirm, HandOut
<1> QED BY <1>1, <1>2

LEMMA CutInv ==
  ASSUME IInv, NEW i \in Instance, Cut(i), UNCHANGED <<group, workers>>
  PROVE  IInv'
BY CloseInv, FaultType DEF Cut

(* Rights change; nobody learns or forgets anything. *)
LEMMA RightsInv ==
  ASSUME IInv, NEW s \in Socket, EndSession(s) \/ ChangeMembership(s),
         UNCHANGED <<group, workers>>
  PROVE  IInv'
<1> USE DEF EndSession, ChangeMembership, Change, servers, runs, group, workers
<1>1. TypeOK'
  <2>1. signedIn' \subseteq Socket /\ member' \subseteq Socket /\ changes' \in Nat
    BY DEF IInv, TypeOK, GatewayTypeOK
  <2>2. before' \in [Socket -> SUBSET Message]
    BY Written DEF IInv, TypeOK, GatewayTypeOK
  <2>3. UNCHANGED <<added, conn, faults>>
    OBVIOUS
  <2> QED BY <2>1, <2>2, <2>3 DEF IInv, TypeOK, GatewayTypeOK
<1>2. Places' /\ Bounds'
  BY DEF IInv, Places, Bounds
<1>3. HeldWithinSession'
  <2> SUFFICES ASSUME NEW r \in Run, NEW i \in Instance, NEW t \in Socket \ signedIn',
                      task[r][i].held = t
               PROVE  task[r][i].message \in before'[t]
    BY DEF IInv, HeldWithinSession
  <2>1. CASE t \notin signedIn
    BY <2>1 DEF IInv, HeldWithinSession, TypeOK, GatewayTypeOK
  <2>2. CASE t \in signedIn
    <3>1. before'[t] = 1 .. added
      BY <2>2 DEF IInv, TypeOK, GatewayTypeOK
    <3>2. task[r][i].stage = "loop"
      BY DEF IInv, HeldWithinSession
    <3> QED BY <3>1, <3>2 DEF IInv, Bounds
  <2> QED BY <2>1, <2>2
<1>4. SeenWithinSession'
  BY DEF IInv, SeenWithinSession, Bounds, TypeOK, GatewayTypeOK
<1>5. Executions' /\ Awaited' /\ AcknowledgedIsKnown'
  BY DEF IInv, Executions, Awaited, AcknowledgedIsKnown, Acknowledged, Knows, Informed, Owed, Pends, Current
<1> QED BY <1>1, <1>2, <1>3, <1>4, <1>5 DEF IInv

-----------------------------------------------------------------------------
(* The executions. *)

TaskRecord == [stage : {"none", "fetch", "loop", "failed"}, message : Message \cup {None},
               left : SUBSET Socket, held : Socket \cup {None}]
TaskType == [Run -> [Instance -> TaskRecord]]
RunRecord == [stage : {"free", "local", "emit", "wait", "accepted", "refused"},
              message : Message \cup {None}, home : Instance \cup {None}, asked : SUBSET Instance]
RunType == [Run -> RunRecord]

LEMMA RunTyped == ASSUME IInv PROVE run \in RunType /\ task \in TaskType
BY DEF IInv, TypeOK, GatewayTypeOK, RunType, RunRecord, TaskType, TaskRecord

LEMMA GatewayTyped ==
  ASSUME IInv, added' \in Nat, faults' \in Nat, up' \subseteq Instance, counted' \subseteq Instance,
         conn' \in ConnType, run' \in RunType, task' \in TaskType,
         UNCHANGED <<rights, group, workers>>
  PROVE  TypeOK'
<1> USE DEF IInv, TypeOK, GatewayTypeOK, rights, group, workers
<1>1. conn' \in [Socket -> [phase : {"none", "admitted", "joined", "read", "subscribed", "closed"},
                           at : Instance \cup {None}, snapshot : SUBSET Message,
                           seen : SUBSET Message]]
  BY DEF ConnType, ConnRecord
<1>2. run' \in [Run -> [stage : {"free", "local", "emit", "wait", "accepted", "refused"},
                      message : Message \cup {None}, home : Instance \cup {None},
                      asked : SUBSET Instance]]
  BY DEF RunType, RunRecord
<1>3. task' \in [Run -> [Instance -> [stage : {"none", "fetch", "loop", "failed"},
                                    message : Message \cup {None},
                                    left : SUBSET Socket, held : Socket \cup {None}]]]
  BY DEF TaskType, TaskRecord
<1> QED BY <1>1, <1>2, <1>3

(* Executions keep their messages, and nobody begins or frees one. *)
RunsStay ==
  \A r \in Run : /\ run'[r].message = run[r].message
                 /\ run'[r].stage = "free" <=> run[r].stage = "free"

LEMMA LearnInv ==
  ASSUME IInv, Learn, RunsStay, UNCHANGED <<added, group, workers>>
  PROVE  Awaited' /\ AcknowledgedIsKnown'
<1> USE DEF group, workers
<1>1. Awaited'
  <2>1. ASSUME NEW w \in Worker, step[w] = "ack" PROVE Current(w) \in 1 .. added
    <3>1. batch[w] # {} /\ batch[w] \subseteq 1 .. taken /\ taken <= added
      BY <2>1 DEF IInv, Awaited, Bounds
    <3>2. taken \in Nat /\ added \in Nat
      BY DEF IInv, TypeOK, GatewayTypeOK
    <3> QED BY <3>1, <3>2, CurrentInBatch
  <2> QED BY <2>1 DEF IInv, Awaited, Learn, RunsStay, Current
<1>2. AcknowledgedIsKnown'
  <2>1. Acknowledged \subseteq 1 .. added /\ Acknowledged' = Acknowledged
    BY DEF IInv, TypeOK, GatewayTypeOK, Bounds, Acknowledged
  <2> QED BY <2>1 DEF IInv, AcknowledgedIsKnown, Learn
<1> QED BY <1>1, <1>2

LEMMA SetTaskFacts ==
  ASSUME IInv, NEW r \in Run, NEW i \in Instance, NEW t \in TaskRecord, SetTask(r, i, t)
  PROVE  /\ task' \in TaskType
         /\ task'[r][i] = t
         /\ \A q \in Run, j \in Instance : q # r \/ j # i => task'[q][j] = task[q][j]
<1>1. task \in TaskType
  BY RunTyped
<1>2. task' = [task EXCEPT ![r] = [task[r] EXCEPT ![i] = t]]
  BY DEF SetTask
<1>3. [task[r] EXCEPT ![i] = t] \in [Instance -> TaskRecord]
  BY <1>1 DEF TaskType
<1> QED BY <1>1, <1>2, <1>3 DEF TaskType

(* One delivery goes on, and tells or closes a socket. *)
LEMMA TaskInv ==
  ASSUME IInv, NEW r \in Run, NEW i \in Instance, NEW t \in TaskRecord, SetTask(r, i, t),
         conn' \in ConnType, faults' \in Nat, Places', Learn, SeenWithinSession',
         \A s \in Socket : conn'[s].snapshot \subseteq 1 .. added
                           /\ conn'[s].seen \subseteq 1 .. added,
         t.stage \in {"fetch", "loop"} => t.message \in 1 .. added,
         t.held # None => t.stage = "loop",
         \A s \in Socket \ signedIn : t.held = s => t.message \in before[s],
         \A s \in Socket : conn'[s].at = i /\ conn[s].at = i /\ Pends(r, i, s)
                           => Pends(r, i, s)' \/ Informed(conn'[s], run[r].message),
         UNCHANGED <<added, rights, servers, run, group, workers>>
  PROVE  IInv'
<1> USE DEF servers, rights, group, workers
<1>t. /\ task' \in TaskType
      /\ task'[r][i] = t
      /\ \A q \in Run, j \in Instance : q # r \/ j # i => task'[q][j] = task[q][j]
  BY SetTaskFacts
<1>1. TypeOK'
  BY <1>t, RunTyped, GatewayTyped DEF IInv, TypeOK, GatewayTypeOK
<1>2. Bounds'
  <2>1. \A q \in Run, j \in Instance : task'[q][j].stage \in {"fetch", "loop"} => task'[q][j].message \in 1 .. added
    BY <1>t DEF IInv, Bounds
  <2> QED BY <2>1 DEF IInv, Bounds
<1>3. HeldWithinSession'
  <2> SUFFICES ASSUME NEW q \in Run, NEW j \in Instance
               PROVE  /\ task'[q][j].held # None => task'[q][j].stage = "loop"
                      /\ \A s \in Socket \ signedIn : task'[q][j].held = s => task'[q][j].message \in before[s]
    BY DEF HeldWithinSession
  <2>1. CASE q = r /\ j = i
    BY <2>1, <1>t
  <2>2. CASE q # r \/ j # i
    BY <2>2, <1>t DEF IInv, HeldWithinSession
  <2> QED BY <2>1, <2>2
<1>4. Executions'
  <2> SUFFICES ASSUME NEW q \in Run, NEW s \in Socket
               PROVE  (Knows(s, run[q].message) \/ Owed(q, s))'
    BY DEF IInv, Executions
  <2>1. CASE run[q].stage \in {"free", "refused"}
    BY <2>1 DEF Owed
  <2>2. CASE run[q].stage \notin {"free", "refused"}
    <3>1. run[q].message \in 1 .. added
      BY <2>2 DEF IInv, Bounds
    <3>2. Knows(s, run[q].message) \/ Owed(q, s)
      BY DEF IInv, Executions
    <3>3. CASE conn'[s].at # conn[s].at \/ Knows(s, run[q].message)
      BY <3>1, <3>3 DEF Learn
    <3>4. CASE conn'[s].at = conn[s].at /\ Owed(q, s)
      <4>1. run[q].asked \subseteq Instance /\ run[q].home \in Instance \cup {None}
        BY RunTyped DEF RunType, RunRecord
      <4>2. ASSUME NEW j \in Instance, conn[s].at = j, Pends(q, j, s)
            PROVE  Pends(q, j, s)' \/ Knows(s, run[q].message)'
        <5>1. CASE q = r /\ j = i
          BY <5>1, <4>2, <3>4 DEF Knows
        <5>2. CASE q # r \/ j # i
          BY <5>2, <4>2, <1>t DEF Pends
        <5> QED BY <5>1, <5>2
      <4>3. CASE run[q].stage = "local"
        <5>1. run[q].home \in Instance
          BY <4>3 DEF IInv, Executions, TypeOK, GatewayTypeOK
        <5> QED BY <4>2, <4>3, <5>1, <3>4 DEF Owed
      <4>4. CASE run[q].stage = "emit"
        BY <4>4, <3>4 DEF Owed
      <4>5. CASE run[q].stage = "wait"
        BY <4>1, <4>2, <4>5, <3>4 DEF Owed
      <4> QED BY <4>3, <4>4, <4>5, <2>2, <3>4 DEF Owed
    <3> QED BY <3>2, <3>3, <3>4
  <2> QED BY <2>1, <2>2
<1>5. Awaited' /\ AcknowledgedIsKnown'
  BY LearnInv DEF RunsStay
<1> QED BY <1>1, <1>2, <1>3, <1>4, <1>5 DEF IInv

(* When no socket changes. *)
LEMMA SocketsStay ==
  ASSUME IInv, UNCHANGED <<added, conn, rights, servers>>
  PROVE  /\ conn' \in ConnType /\ Places' /\ Learn /\ SeenWithinSession'
         /\ \A s \in Socket : /\ conn'[s].snapshot \subseteq 1 .. added
                              /\ conn'[s].seen \subseteq 1 .. added
BY ConnTyped DEF IInv, Places, Learn, Knows, SeenWithinSession, Bounds, rights, servers

LEMMA FetchInv ==
  ASSUME IInv, NEW r \in Run, NEW i \in Instance, Fetch(r, i), UNCHANGED <<group, workers>>
  PROVE  IInv'
<1> DEFINE t == [task[r][i] EXCEPT !.stage = "loop", !.left = {s \in InRoom : conn[s].at = i}]
<1>1. task[r][i] \in TaskRecord
  BY RunTyped DEF TaskType
<1>2. t \in TaskRecord /\ t.stage = "loop" /\ t.left = {s \in InRoom : conn[s].at = i}
      /\ t.message = task[r][i].message /\ t.held = task[r][i].held
  BY <1>1 DEF TaskRecord, InRoom
<1>3. SetTask(r, i, t)
  BY DEF Fetch
<1> HIDE DEF t
<1>4. task'[r][i] = t
  BY <1>2, <1>3, SetTaskFacts
<1>5. t.message \in 1 .. added /\ t.held = None
  BY <1>2 DEF Fetch, IInv, Bounds, HeldWithinSession
<1>6. ASSUME NEW s \in Socket, conn'[s].at = i, conn[s].at = i, Pends(r, i, s)
      PROVE  Pends(r, i, s)' \/ Informed(conn'[s], run[r].message)
  <2>1. conn'[s] = conn[s] /\ run' = run
    BY DEF Fetch
  <2>2. CASE s \in InRoom
    BY <2>1, <2>2, <1>2, <1>4, <1>6 DEF Pends, Fetch
  <2>3. CASE s \notin InRoom
    BY <2>1, <2>3 DEF InRoom, Informed
  <2> QED BY <2>2, <2>3
<1>7. None \notin Socket
  OBVIOUS
<1>8. faults' \in Nat
  BY DEF Fetch, IInv, TypeOK, GatewayTypeOK
<1> QED BY <1>2, <1>3, <1>5, <1>6, <1>7, <1>8, SocketsStay, TaskInv DEF Fetch

LEMMA ValidateInv ==
  ASSUME IInv, NEW r \in Run, NEW i \in Instance, NEW s \in Socket, Validate(r, i, s),
         UNCHANGED <<group, workers>>
  PROVE  IInv'
<1>1. task[r][i] \in TaskRecord
  BY RunTyped DEF TaskType
<1>2. task[r][i].message \in 1 .. added /\ task[r][i].stage = "loop" /\ task[r][i].held = None
  BY DEF Validate, IInv, Bounds
<1>3. None \notin Socket
  OBVIOUS
<1>4. UNCHANGED <<added, rights, servers, run>>
  BY DEF Validate
<1>5. CASE s \in signedIn /\ SetTask(r, i, [task[r][i] EXCEPT !.held = s]) /\ UNCHANGED <<conn, faults>>
  <2> DEFINE t == [task[r][i] EXCEPT !.held = s]
  <2>1. t \in TaskRecord /\ t.stage = "loop" /\ t.left = task[r][i].left
        /\ t.message = task[r][i].message /\ t.held = s
    BY <1>1, <1>2 DEF TaskRecord
  <2>2. SetTask(r, i, t)
    BY <1>5
  <2> HIDE DEF t
  <2>3. task'[r][i] = t
    BY <2>1, <2>2, SetTaskFacts
  <2>4. ASSUME NEW u \in Socket, Pends(r, i, u) PROVE Pends(r, i, u)'
    BY <2>1, <2>3, <2>4, <1>2, <1>4 DEF Pends
  <2>5. faults' \in Nat
    BY <1>5 DEF IInv, TypeOK, GatewayTypeOK
  <2>6. \A u \in Socket \ signedIn : t.held = u => t.message \in before[u]
    BY <2>1, <1>5
  <2> QED BY <2>1, <2>2, <2>4, <2>5, <2>6, <1>2, <1>4, <1>5, SocketsStay, TaskInv
<1>6. CASE /\ s \in signedIn => Fault
           /\ s \notin signedIn => UNCHANGED faults
           /\ SetTask(r, i, [task[r][i] EXCEPT !.left = @ \ {s}])
           /\ Close({s})
  <2> DEFINE t == [task[r][i] EXCEPT !.left = @ \ {s}]
  <2>1. t \in TaskRecord /\ t.stage = "loop" /\ t.left = task[r][i].left \ {s}
        /\ t.message = task[r][i].message /\ t.held = None
    BY <1>1, <1>2 DEF TaskRecord
  <2>2. SetTask(r, i, t)
    BY <1>6
  <2> HIDE DEF t
  <2>3. task'[r][i] = t
    BY <2>1, <2>2, SetTaskFacts
  <2>4. ASSUME NEW u \in Socket, conn'[u].at = i, Pends(r, i, u) PROVE Pends(r, i, u)'
    <3>1. u # s
      BY <2>4, <1>6 DEF Close, NoSocket
    <3> QED BY <2>1, <2>3, <2>4, <1>2, <1>4, <3>1 DEF Pends
  <2>5. faults' \in Nat
    BY <1>6, FaultType DEF IInv, TypeOK, GatewayTypeOK
  <2>6. /\ conn' \in ConnType /\ Places' /\ Learn /\ SeenWithinSession'
        /\ \A u \in Socket : conn'[u].snapshot \subseteq 1 .. added /\ conn'[u].seen \subseteq 1 .. added
    BY <1>4, <1>6, CloseFacts DEF IInv, Places, SeenWithinSession, Bounds, servers, rights
  <2> QED BY <2>1, <2>2, <2>4, <2>5, <2>6, <1>2, <1>3, <1>4, TaskInv
<1> QED BY <1>5, <1>6 DEF Validate

LEMMA TellInv ==
  ASSUME IInv, NEW r \in Run, NEW i \in Instance, Tell(r, i), UNCHANGED <<group, workers>>
  PROVE  IInv'
<1> DEFINE s == task[r][i].held
           m == task[r][i].message
           t == [task[r][i] EXCEPT !.held = None, !.left = @ \ {s}]
<1>1. task[r][i] \in TaskRecord
  BY RunTyped DEF TaskType
<1>2. m \in 1 .. added /\ task[r][i].stage = "loop" /\ s \in Socket
  BY <1>1 DEF Tell, IInv, Bounds, TaskRecord
<1>3. t \in TaskRecord /\ t.stage = "loop" /\ t.left = task[r][i].left \ {s}
      /\ t.message = m /\ t.held = None
  BY <1>1, <1>2 DEF TaskRecord
<1>4. SetTask(r, i, t)
  BY DEF Tell
<1>5. UNCHANGED <<added, rights, servers, run, faults>>
  BY DEF Tell
<1>6. s \notin signedIn => m \in before[s]
  BY <1>2 DEF IInv, HeldWithinSession
<1>7. \/ Close({s})
      \/ conn' = conn /\ conn[s].phase = "closed"
      \/ conn' = [conn EXCEPT ![s].seen = @ \cup {m}]
  BY DEF Tell
<1> HIDE DEF t
<1>8. task'[r][i] = t
  BY <1>3, <1>4, SetTaskFacts
<1>9. ASSUME NEW u \in Socket, u # s, Pends(r, i, u) PROVE Pends(r, i, u)'
  BY <1>2, <1>3, <1>5, <1>8, <1>9 DEF Pends
<1>10. faults' \in Nat /\ None \notin Socket /\ conn \in ConnType
  BY <1>5, ConnTyped DEF IInv, TypeOK, GatewayTypeOK
<1>11. Pends(r, i, s) => m = run[r].message
  BY <1>2 DEF Pends
<1> HIDE DEF s, m
<1>12. CASE Close({s})
  <2>1. /\ conn' \in ConnType /\ Places' /\ Learn /\ SeenWithinSession'
        /\ \A u \in Socket : conn'[u].snapshot \subseteq 1 .. added /\ conn'[u].seen \subseteq 1 .. added
    BY <1>2, <1>5, <1>12, CloseFacts DEF IInv, Places, SeenWithinSession, Bounds, servers, rights
  <2>2. conn'[s].at # i
    BY <1>2, <1>12 DEF Close, NoSocket
  <2> QED BY <2>1, <2>2, <1>2, <1>3, <1>4, <1>5, <1>9, <1>10, TaskInv
<1>13. CASE conn' = conn /\ conn[s].phase = "closed"
  <2>1. conn'[s].at # i
    BY <1>2, <1>13 DEF IInv, Places, Live
  <2> QED BY <2>1, <1>2, <1>3, <1>4, <1>5, <1>9, <1>10, <1>13, SocketsStay, TaskInv
<1>14. CASE conn' = [conn EXCEPT ![s].seen = @ \cup {m}]
  <2>1. conn' \in ConnType /\ \A u \in Socket \ {s} : conn'[u] = conn[u]
    BY <1>2, <1>10, <1>14, Written DEF ConnType, ConnRecord
  <2>2. /\ conn'[s].phase = conn[s].phase /\ conn'[s].at = conn[s].at
        /\ conn'[s].snapshot = conn[s].snapshot /\ conn'[s].seen = conn[s].seen \cup {m}
    BY <1>2, <1>10, <1>14 DEF ConnType, ConnRecord
  <2>3. \A u \in Socket : conn'[u].snapshot \subseteq 1 .. added /\ conn'[u].seen \subseteq 1 .. added
    BY <2>1, <2>2, <1>2 DEF IInv, Bounds
  <2>4. Places'
    BY <2>1, <2>2, <1>5 DEF IInv, Places, Live, servers
  <2>5. SeenWithinSession'
    BY <2>1, <2>2, <1>5, <1>6 DEF IInv, SeenWithinSession, rights
  <2>6. Learn
    BY <2>1, <2>2 DEF Learn, Knows, Informed
  <2>7. Informed(conn'[s], m)
    BY <2>2 DEF Informed
  <2> QED BY <2>1, <2>3, <2>4, <2>5, <2>6, <2>7, <1>2, <1>3, <1>4, <1>5, <1>9, <1>10, <1>11, TaskInv
<1> QED BY <1>7, <1>12, <1>13, <1>14

LEMMA TellFailsInv ==
  ASSUME IInv, NEW r \in Run, NEW i \in Instance, TellFails(r, i), UNCHANGED <<group, workers>>
  PROVE  IInv'
<1> DEFINE t == [NoTask EXCEPT !.stage = "failed"]
<1>1. t \in TaskRecord /\ t.stage = "failed" /\ t.held = None
  BY DEF TaskRecord, NoTask
<1>2. SetTask(r, i, t)
  BY DEF TellFails
<1> HIDE DEF t
<1>3. task'[r][i] = t
  BY <1>1, <1>2, SetTaskFacts
<1>4. \A s \in Socket : Pends(r, i, s)'
  BY <1>1, <1>3 DEF Pends
<1>5. faults' \in Nat /\ None \notin Socket
  BY FaultType DEF TellFails
<1> QED BY <1>1, <1>2, <1>4, <1>5, SocketsStay, TaskInv DEF TellFails

(* A delivery that holds no socket cannot tell one too much. *)
LEMMA HeldStays ==
  ASSUME IInv, UNCHANGED <<signedIn, before>>,
         \A q \in Run, j \in Instance : task'[q][j] = task[q][j] \/ task'[q][j].held = None
  PROVE  HeldWithinSession'
<1> SUFFICES ASSUME NEW q \in Run, NEW j \in Instance
             PROVE  /\ task'[q][j].held # None => task'[q][j].stage = "loop"
                    /\ \A s \in Socket \ signedIn : task'[q][j].held = s => task'[q][j].message \in before[s]
  BY DEF HeldWithinSession
<1>1. CASE task'[q][j] = task[q][j]
  BY <1>1 DEF IInv, HeldWithinSession
<1>2. CASE task'[q][j].held = None
  BY <1>2
<1> QED BY <1>1, <1>2

(* The stage of one execution changes. *)
LEMMA StageInv ==
  ASSUME IInv, NEW r \in Run, NEW st \in {"emit", "accepted", "refused"},
         SetStage(r, st), run[r].stage # "free", faults' \in Nat,
         st = "emit" => run[r].home \in up,
         \A s \in Socket : \/ Knows(s, run[r].message)
                           \/ st = "refused"
                           \/ st = "emit" /\ conn[s].at # run[r].home,
         UNCHANGED <<added, conn, rights, servers, task, group, workers>>
  PROVE  IInv'
<1> USE DEF servers, rights, group, workers
<1>1. run \in RunType /\ task \in TaskType
  BY RunTyped
<1>2. run' \in RunType /\ \A q \in Run \ {r} : run'[q] = run[q]
  BY <1>1 DEF SetStage, RunType, RunRecord
<1>3. /\ run'[r].stage = st /\ run'[r].message = run[r].message
      /\ run'[r].home = run[r].home /\ run'[r].asked = run[r].asked
  BY <1>1 DEF SetStage, RunType, RunRecord
<1>4. TypeOK'
  BY <1>1, <1>2, ConnTyped, GatewayTyped DEF IInv, TypeOK, GatewayTypeOK
<1>5. Places' /\ Learn /\ SeenWithinSession'
  BY SocketsStay
<1>6. Bounds'
  <2>1. \A q \in Run : run'[q].stage # "free" => run'[q].message \in 1 .. added
    BY <1>2, <1>3 DEF IInv, Bounds
  <2> QED BY <2>1 DEF IInv, Bounds
<1>7. HeldWithinSession'
  BY DEF IInv, HeldWithinSession
<1>8. Executions'
  <2>1. ASSUME NEW q \in Run \ {r} PROVE
          /\ run'[q].stage \in {"local", "emit", "wait"} => run'[q].home \in up'
          /\ \A s \in Socket : Knows(s, run[q].message)' \/ Owed(q, s)'
    BY <1>2, <2>1 DEF IInv, Executions, Knows, Owed, Pends
  <2>2. run'[r].stage \in {"local", "emit", "wait"} => run'[r].home \in up'
    BY <1>3
  <2>3. ASSUME NEW s \in Socket PROVE Knows(s, run[r].message)' \/ Owed(r, s)'
    BY <1>3 DEF Knows, Owed
  <2> QED BY <2>1, <2>2, <2>3 DEF Executions
<1>9. Awaited' /\ AcknowledgedIsKnown'
  <2>1. RunsStay
    BY <1>2, <1>3 DEF RunsStay
  <2> QED BY <2>1, <1>5, LearnInv
<1> QED BY <1>4, <1>5, <1>6, <1>7, <1>8, <1>9 DEF IInv

(* Who is at no instance is sure to read. *)
LEMMA AwayKnows ==
  ASSUME IInv, NEW s \in Socket, conn[s].at \notin up
  PROVE  \A m : Knows(s, m)
BY DEF IInv, Places, Live, Knows, Informed

LEMMA Alone ==
  ASSUME IInv, NEW i \in up, Cardinality(counted) <= 1
  PROVE  up = {i}
<1>1. i \in counted /\ counted \subseteq Instance
  BY DEF IInv, Places, TypeOK, GatewayTypeOK
<1>2. IsFiniteSet(counted)
  BY <1>1, FS_Subset
<1>3. IsFiniteSet(counted \ {i}) /\ Cardinality(counted \ {i}) = Cardinality(counted) - 1
  BY <1>1, <1>2, FS_RemoveElement
<1>4. Cardinality(counted) \in Nat /\ Cardinality(counted \ {i}) \in Nat
  BY <1>2, <1>3, FS_CardinalityType
<1>5. Cardinality(counted \ {i}) = 0
  BY <1>3, <1>4
<1>6. counted \ {i} = {}
  BY <1>3, <1>5, FS_EmptySet
<1> QED BY <1>1, <1>6 DEF IInv, Places

LEMMA CountInv ==
  ASSUME IInv, NEW r \in Run, Count(r), UNCHANGED <<group, workers>>
  PROVE  IInv'
<1> DEFINE st == IF ~Delivered(r, run[r].home) THEN "refused"
                 ELSE IF Cardinality(counted) <= 1 THEN "accepted" ELSE "emit"
<1>1. SetStage(r, st) /\ run[r].stage = "local"
  BY DEF Count
<1>2. run[r].home \in up /\ \A s \in Socket : Knows(s, run[r].message) \/ Owed(r, s)
  BY <1>1 DEF IInv, Executions
<1>3. faults' \in Nat
  BY DEF Count, IInv, TypeOK, GatewayTypeOK
<1>4. ASSUME NEW s \in Socket, Delivered(r, run[r].home)
      PROVE  Knows(s, run[r].message) \/ conn[s].at # run[r].home
  BY <1>1, <1>2, <1>4 DEF Owed, Pends, Delivered
<1>5. ASSUME NEW s \in Socket, st = "accepted"
      PROVE  Knows(s, run[r].message)
  <2>1. Delivered(r, run[r].home) /\ Cardinality(counted) <= 1
    BY <1>5
  <2>2. up = {run[r].home}
    BY <1>2, <2>1, Alone
  <2> QED BY <1>4, <2>1, <2>2, AwayKnows
<1>6. \A s \in Socket : \/ Knows(s, run[r].message)
                        \/ st = "refused"
                        \/ st = "emit" /\ conn[s].at # run[r].home
  BY <1>4, <1>5
<1>7. st \in {"emit", "accepted", "refused"}
  OBVIOUS
<1>8. UNCHANGED <<added, conn, rights, servers, task>>
  BY DEF Count
<1> HIDE DEF st
<1> QED BY <1>1, <1>2, <1>3, <1>6, <1>7, <1>8, StageInv

LEMMA AnswerInv ==
  ASSUME IInv, NEW r \in Run, Answer(r), UNCHANGED <<group, workers>>
  PROVE  IInv'
<1> DEFINE st == IF run[r].asked # {} /\ \A i \in run[r].asked : Delivered(r, i)
                 THEN "accepted" ELSE "refused"
<1>1. SetStage(r, st) /\ run[r].stage = "wait" /\ UNCHANGED <<added, conn, rights, servers, task>>
  BY DEF Answer
<1>2. faults' \in Nat
  BY DEF Answer, IInv, TypeOK, GatewayTypeOK
<1>3. \A s \in Socket : Knows(s, run[r].message) \/ st = "refused"
  BY <1>1 DEF IInv, Executions, Owed, Pends, Delivered
<1>4. st \in {"accepted", "refused"}
  OBVIOUS
<1> HIDE DEF st
<1> QED BY <1>1, <1>2, <1>3, <1>4, StageInv

LEMMA TimeOutInv ==
  ASSUME IInv, NEW r \in Run, TimeOut(r), UNCHANGED <<group, workers>>
  PROVE  IInv'
BY FaultType, StageInv DEF TimeOut

LEMMA EmitInv ==
  ASSUME IInv, NEW r \in Run, Emit(r), UNCHANGED <<group, workers>>
  PROVE  IInv'
<1> DEFINE peers == counted \ {run[r].home}
<1> USE DEF servers, rights, group, workers
<1>1. run \in RunType /\ task \in TaskType /\ counted \subseteq Instance
  BY RunTyped DEF IInv, TypeOK, GatewayTypeOK
<1>2. run' = [run EXCEPT ![r].stage = "wait", ![r].asked = peers]
  BY DEF Emit
<1>3. run' \in RunType /\ \A q \in Run \ {r} : run'[q] = run[q]
  BY <1>1, <1>2 DEF RunType, RunRecord
<1>4. /\ run'[r].stage = "wait" /\ run'[r].message = run[r].message
      /\ run'[r].home = run[r].home /\ run'[r].asked = peers
  BY <1>1, <1>2 DEF RunType, RunRecord
<1>5. run[r].stage = "emit" /\ run[r].message \in 1 .. added /\ run[r].home \in up
  BY DEF Emit, IInv, Bounds, Executions
<1>6. LocalTask(run[r].message) \in TaskRecord
  BY <1>5, Written DEF LocalTask, NoTask, TaskRecord
<1>7. /\ task' \in TaskType
      /\ \A q \in Run \ {r} : task'[q] = task[q]
      /\ \A i \in Instance : task'[r][i] = IF i \in peers \cap up THEN LocalTask(run[r].message) ELSE task[r][i]
  BY <1>1, <1>6 DEF Emit, TaskType
<1>8. /\ LocalTask(run[r].message).stage = "fetch" /\ LocalTask(run[r].message).held = None
      /\ LocalTask(run[r].message).message = run[r].message
  BY DEF LocalTask, NoTask
<1>9. UNCHANGED <<added, conn, rights, servers, faults>>
  BY DEF Emit
<1>10. TypeOK'
  BY <1>3, <1>7, <1>9, ConnTyped, GatewayTyped DEF IInv, TypeOK, GatewayTypeOK
<1>11. Places' /\ Learn /\ SeenWithinSession'
  BY <1>9, SocketsStay
<1>12. Bounds'
  <2>1. \A q \in Run : run'[q].stage # "free" => run'[q].message \in 1 .. added
    BY <1>3, <1>4, <1>5 DEF IInv, Bounds
  <2>2. \A q \in Run, j \in Instance : task'[q][j].stage \in {"fetch", "loop"} => task'[q][j].message \in 1 .. added
    BY <1>5, <1>7, <1>8 DEF IInv, Bounds
  <2> QED BY <2>1, <2>2, <1>9 DEF IInv, Bounds
<1>13. HeldWithinSession'
  <2>1. ASSUME NEW q \in Run, NEW j \in Instance
        PROVE  task'[q][j] = task[q][j] \/ task'[q][j].held = None
    BY <1>7, <1>8
  <2> QED BY <2>1, <1>9, HeldStays
<1>14. Executions'
  <2>1. ASSUME NEW q \in Run \ {r} PROVE
          /\ run'[q].stage \in {"local", "emit", "wait"} => run'[q].home \in up'
          /\ \A s \in Socket : Knows(s, run[q].message)' \/ Owed(q, s)'
    BY <1>3, <1>7, <1>9, <2>1 DEF IInv, Executions, Knows, Owed, Pends
  <2>2. ASSUME NEW s \in Socket, ~Knows(s, run[r].message) PROVE Owed(r, s)'
    <3>1. conn[s].at \in peers \cap up
      BY <2>2, <1>5, AwayKnows DEF IInv, Executions, Owed, Places
    <3>2. Pends(r, conn[s].at, s)'
      BY <3>1, <1>1, <1>4, <1>7, <1>8, <1>9 DEF Pends
    <3> QED BY <3>1, <3>2, <1>4, <1>9 DEF Owed
  <2> QED BY <2>1, <2>2, <1>3, <1>4, <1>5, <1>9 DEF Executions, Knows
<1>15. Awaited' /\ AcknowledgedIsKnown'
  <2>1. RunsStay
    BY <1>3, <1>4, <1>5 DEF RunsStay
  <2> QED BY <2>1, <1>9, <1>11, LearnInv
<1> QED BY <1>10, <1>11, <1>12, <1>13, <1>14, <1>15 DEF IInv

(* Instances start, die and are missed. *)
LEMMA StartInv ==
  ASSUME IInv, NEW i \in Instance, Start(i), UNCHANGED <<group, workers>>
  PROVE  IInv'
<1> USE DEF Start, runs, rights, group, workers
<1>1. TypeOK'
  BY RunTyped, ConnTyped, GatewayTyped DEF IInv, TypeOK, GatewayTypeOK
<1>2. Places' /\ Bounds' /\ HeldWithinSession' /\ SeenWithinSession'
  BY DEF IInv, Places, Bounds, HeldWithinSession, SeenWithinSession
<1>3. Executions'
  BY DEF IInv, Executions, Knows, Owed, Pends
<1>4. Awaited' /\ AcknowledgedIsKnown'
  BY LearnInv DEF Learn, Knows, RunsStay
<1> QED BY <1>1, <1>2, <1>3, <1>4 DEF IInv

LEMMA ForgetInv ==
  ASSUME IInv, NEW i \in Instance, Forget(i), UNCHANGED <<group, workers>>
  PROVE  IInv'
<1> USE DEF rights, group, workers
<1>1. run \in RunType /\ task \in TaskType
  BY RunTyped
<1>2. i \notin up /\ counted' = counted \ {i} /\ UNCHANGED <<added, conn, rights, up, task, faults>>
  BY DEF Forget
<1>3. run' \in RunType
  BY <1>1 DEF Forget, RunType, RunRecord
<1>4. \A r \in Run : /\ run'[r].stage = run[r].stage /\ run'[r].message = run[r].message
                     /\ run'[r].home = run[r].home
                     /\ \A j \in run[r].asked : j # i => j \in run'[r].asked
  BY <1>1 DEF Forget, RunType, RunRecord
<1>5. TypeOK'
  BY <1>1, <1>2, <1>3, ConnTyped, GatewayTyped DEF IInv, TypeOK, GatewayTypeOK
<1>6. Places' /\ Bounds' /\ HeldWithinSession' /\ SeenWithinSession'
  BY <1>2, <1>4 DEF IInv, Places, Bounds, HeldWithinSession, SeenWithinSession
<1>7. Learn
  BY <1>2 DEF Learn, Knows
<1>8. Executions'
  <2> SUFFICES ASSUME NEW r \in Run, NEW s \in Socket, ~Knows(s, run[r].message)
               PROVE  Owed(r, s)'
    BY <1>2, <1>4 DEF IInv, Executions, Knows
  <2>1. Owed(r, s) /\ conn[s].at # i
    BY <1>2, AwayKnows DEF IInv, Executions
  <2> QED BY <2>1, <1>2, <1>4 DEF Owed, Pends
<1>9. Awaited' /\ AcknowledgedIsKnown'
  BY <1>2, <1>4, <1>7, LearnInv DEF RunsStay
<1> QED BY <1>5, <1>6, <1>8, <1>9 DEF IInv

LEMMA DieInv ==
  ASSUME IInv, NEW i \in Instance, Die(i), UNCHANGED <<group, workers>>
  PROVE  IInv'
<1> USE DEF rights, group, workers
<1>1. run \in RunType /\ task \in TaskType
  BY RunTyped
<1>2. up' = up \ {i} /\ UNCHANGED <<added, rights, counted>> /\ Close({s \in Socket : conn[s].at = i})
  BY DEF Die
<1>3. /\ run' \in RunType
      /\ \A r \in Run : /\ run'[r].message = run[r].message /\ run'[r].home = run[r].home
                        /\ run'[r].asked = run[r].asked
                        /\ run'[r].stage = IF run[r].home = i /\ run[r].stage \in {"local", "emit", "wait"}
                                           THEN "refused" ELSE run[r].stage
  BY <1>1 DEF Die, RunType, RunRecord
<1>4. /\ task' \in TaskType
      /\ \A r \in Run : \A j \in Instance \ {i} : task'[r][j] = task[r][j]
      /\ \A r \in Run : task'[r][i] = task[r][i] \/ task'[r][i] = NoTask
  <2>1. NoTask \in TaskRecord
    BY DEF NoTask, TaskRecord
  <2> QED BY <2>1, <1>1 DEF Die, TaskType
<1>5. /\ conn' \in ConnType /\ Learn
      /\ \A t \in Socket : /\ conn'[t].at \in {conn[t].at, None} /\ conn'[t].at # i
                           /\ conn'[t].phase \in Live <=> conn'[t].at # None
                           /\ conn'[t].snapshot \subseteq conn[t].snapshot
                           /\ conn'[t].seen \subseteq conn[t].seen
  BY <1>2, CloseFacts
<1>6. TypeOK'
  BY <1>2, <1>3, <1>4, <1>5, FaultType, GatewayTyped DEF Die, IInv, TypeOK, GatewayTypeOK
<1>7. Places'
  BY <1>2, <1>5 DEF IInv, Places
<1>8. SeenWithinSession'
  BY <1>2, <1>5 DEF IInv, SeenWithinSession
<1>9. NoTask.stage = "none" /\ NoTask.held = None
  BY DEF NoTask
<1>10. Bounds'
  <2>1. \A r \in Run : run'[r].stage # "free" => run'[r].message \in 1 .. added
    BY <1>3 DEF IInv, Bounds
  <2>2. \A r \in Run, j \in Instance : task'[r][j].stage \in {"fetch", "loop"} => task'[r][j].message \in 1 .. added
    BY <1>4, <1>9 DEF IInv, Bounds
  <2>3. \A s \in Socket : conn'[s].snapshot \subseteq 1 .. added /\ conn'[s].seen \subseteq 1 .. added
    BY <1>5 DEF IInv, Bounds
  <2> QED BY <2>1, <2>2, <2>3, <1>2 DEF IInv, Bounds
<1>11. HeldWithinSession'
  <2>1. ASSUME NEW q \in Run, NEW j \in Instance
        PROVE  task'[q][j] = task[q][j] \/ task'[q][j].held = None
    BY <1>4, <1>9
  <2> QED BY <2>1, <1>2, HeldStays
<1>12. Executions'
  <2> SUFFICES ASSUME NEW r \in Run
               PROVE  /\ run'[r].stage \in {"local", "emit", "wait"} => run'[r].home \in up'
                      /\ \A s \in Socket : Knows(s, run[r].message)' \/ Owed(r, s)'
    BY <1>3 DEF Executions, Knows
  <2>1. run'[r].stage \in {"local", "emit", "wait"} => run'[r].home \in up'
    BY <1>2, <1>3 DEF IInv, Executions
  <2>2. ASSUME NEW s \in Socket PROVE Knows(s, run[r].message)' \/ Owed(r, s)'
    <3>1. CASE run'[r].stage \in {"free", "refused"}
      BY <3>1 DEF Owed
    <3>2. CASE run'[r].stage \notin {"free", "refused"}
      <4>1. run'[r].stage = run[r].stage /\ run[r].message \in 1 .. added
        BY <3>2, <1>3 DEF IInv, Bounds
      <4>2. CASE Knows(s, run[r].message) \/ conn'[s].at # conn[s].at
        BY <4>1, <4>2, <1>3, <1>5 DEF Learn
      <4>3. CASE ~Knows(s, run[r].message) /\ conn'[s].at = conn[s].at
        <5>1. Owed(r, s) /\ conn[s].at # i
          BY <4>3, <1>5 DEF IInv, Executions
        <5>2. run[r].asked \subseteq Instance /\ (run[r].stage = "local" => run[r].home \in Instance \ {i})
          BY <2>1, <4>1, <1>1, <1>2, <1>3 DEF RunType, RunRecord, IInv, TypeOK, GatewayTypeOK
        <5>3. \A j \in Instance \ {i} : Pends(r, j, s)' <=> Pends(r, j, s)
          BY <1>3, <1>4 DEF Pends
        <5>4. CASE run[r].stage = "local"
          BY <5>1, <5>2, <5>3, <5>4, <4>1, <4>3, <1>3 DEF Owed
        <5>5. CASE run[r].stage = "emit"
          BY <5>1, <5>5, <4>1, <4>3, <1>3 DEF Owed
        <5>6. CASE run[r].stage = "wait"
          BY <5>1, <5>2, <5>3, <5>6, <4>1, <4>3, <1>3 DEF Owed
        <5> QED BY <5>1, <5>4, <5>5, <5>6, <4>1, <3>2 DEF Owed
      <4> QED BY <4>2, <4>3
    <3> QED BY <3>1, <3>2
  <2> QED BY <2>1, <2>2
<1>13. Awaited' /\ AcknowledgedIsKnown'
  BY <1>2, <1>3, <1>5, LearnInv DEF RunsStay
<1> QED BY <1>6, <1>7, <1>8, <1>10, <1>11, <1>12, <1>13 DEF IInv

LEMMA GatewayInv ==
  ASSUME IInv, GatewayNext, UNCHANGED <<group, workers>>
  PROVE  IInv'
<1>1. CASE \E s \in Socket :
             \/ \E i \in Instance : Admit(s, i)
             \/ Join(s) \/ ReadChat(s) \/ Confirm(s) \/ EndSession(s) \/ ChangeMembership(s)
  BY <1>1, AdmitInv, JoinInv, ReadChatInv, ConfirmInv, RightsInv
<1>2. CASE \E r \in Run : Proceed(r) \/ TimeOut(r) \/ \E i \in Instance : TellFails(r, i)
  BY <1>2, CountInv, EmitInv, AnswerInv, FetchInv, TellInv, ValidateInv, TimeOutInv, TellFailsInv
     DEF Proceed
<1>3. CASE \E i \in Instance : Start(i) \/ Cut(i) \/ Die(i) \/ Forget(i)
  BY <1>3, StartInv, CutInv, DieInv, ForgetInv
<1> QED BY <1>1, <1>2, <1>3 DEF GatewayNext

-----------------------------------------------------------------------------
(* The relay. *)

(* A worker turns to the entries S; it awaits nothing. *)
Turns(w, S) == Handle(w, S) /\ post' = [post EXCEPT ![w] = None]

LEMMA TurnsFacts ==
  ASSUME IInv, NEW w \in Worker, NEW S \in SUBSET Message, Turns(w, S)
  PROVE  /\ batch' \in [Worker -> SUBSET Message]
         /\ step' \in [Worker -> {"reclaim", "read", "post", "wait", "ack"}]
         /\ post' \in [Worker -> Run \cup {None}]
         /\ batch'[w] = S /\ post'[w] = None
         /\ step'[w] \in {"reclaim", "post"} /\ (step'[w] = "post" => S # {})
         /\ \A v \in Worker \ {w} : batch'[v] = batch[v] /\ step'[v] = step[v] /\ post'[v] = post[v]
BY DEF Turns, Handle, Turn, IInv, TypeOK

LEMMA PostedFree ==
  ASSUME IInv, NEW w \in Worker, step[w] # "wait"
  PROVE  post[w] = None /\ [post EXCEPT ![w] = None] = post
BY DEF IInv, Awaited, TypeOK

(* Nothing an execution or a socket does is undone. *)
LEMMA TurnsAwaited ==
  ASSUME IInv, NEW w \in Worker, NEW S \in SUBSET Message, Turns(w, S), UNCHANGED conn,
         \A v \in Worker \ {w} : step[v] = "wait" => run'[post[v]] = run[post[v]]
  PROVE  Awaited'
<1>1. /\ batch'[w] = S /\ post'[w] = None
      /\ step'[w] \in {"reclaim", "post"} /\ (step'[w] = "post" => S # {})
      /\ \A v \in Worker \ {w} : batch'[v] = batch[v] /\ step'[v] = step[v] /\ post'[v] = post[v]
  BY TurnsFacts
<1>2. \A v \in Worker \ {w} : Current(v)' = Current(v)
  BY <1>1 DEF Current
<1> QED BY <1>1, <1>2 DEF IInv, Awaited, Knows

(* The executions and the sockets stay as they are. *)
LEMMA GroupInv ==
  ASSUME IInv, NEW w \in Worker, NEW S \in SUBSET (1 .. taken'), Turns(w, S),
         taken' \in taken .. added, faults' \in Nat,
         pending' \subseteq 1 .. taken', idle' \subseteq pending',
         \A m \in Acknowledged' : m \in Acknowledged \/ \A s \in Socket : Knows(s, m),
         UNCHANGED gateway
  PROVE  IInv'
<1> USE DEF gateway, servers, runs, rights
<1>1. 1 .. taken' \subseteq Message /\ S \in SUBSET Message /\ taken' \in Nat
  BY DEF IInv, Bounds, TypeOK, GatewayTypeOK
<1>2. TypeOK'
  BY <1>1, TurnsFacts DEF IInv, TypeOK, GatewayTypeOK
<1>3. Places' /\ HeldWithinSession' /\ SeenWithinSession'
  BY DEF IInv, Places, HeldWithinSession, SeenWithinSession
<1>4. Bounds'
  <2>1. \A v \in Worker : batch'[v] \subseteq 1 .. taken'
    BY <1>1, TurnsFacts DEF IInv, Bounds, TypeOK
  <2>2. taken' <= added'
    OBVIOUS
  <2> QED BY <2>1, <2>2 DEF IInv, Bounds
<1>5. Executions'
  BY DEF IInv, Executions, Knows, Owed, Pends
<1>6. Awaited'
  BY <1>1, TurnsAwaited
<1>7. AcknowledgedIsKnown'
  BY DEF IInv, AcknowledgedIsKnown, Knows
<1> QED BY <1>2, <1>3, <1>4, <1>5, <1>6, <1>7 DEF IInv

LEMMA Numbers == ASSUME IInv PROVE taken \in Nat /\ added \in Nat /\ taken <= added /\ taken \in taken .. added
BY DEF IInv, TypeOK, GatewayTypeOK, Bounds

LEMMA AddInv == ASSUME IInv, Add PROVE IInv'
<1> USE DEF Add, servers, runs, rights, group, workers
<1>1. TypeOK'
  BY DEF IInv, TypeOK, GatewayTypeOK
<1>2. Places' /\ HeldWithinSession' /\ SeenWithinSession'
  BY DEF IInv, Places, HeldWithinSession, SeenWithinSession
<1>3. Bounds'
  <2>1. 1 .. added \subseteq 1 .. added' /\ added' <= LastMessage /\ taken <= added'
    BY Numbers
  <2> QED BY <2>1 DEF IInv, Bounds
<1>4. Executions'
  BY DEF IInv, Executions, Knows, Owed, Pends
<1>5. Awaited' /\ AcknowledgedIsKnown'
  BY DEF IInv, Awaited, AcknowledgedIsKnown, Acknowledged, Knows, Current
<1> QED BY <1>1, <1>2, <1>3, <1>4, <1>5 DEF IInv

LEMMA AgeInv == ASSUME IInv, NEW e \in Message, Age(e) PROVE IInv'
<1> USE DEF Age, gateway, servers, runs, rights, workers
<1>1. TypeOK'
  BY DEF IInv, TypeOK, GatewayTypeOK
<1>2. Places' /\ HeldWithinSession' /\ SeenWithinSession' /\ Bounds'
  BY DEF IInv, Places, HeldWithinSession, SeenWithinSession, Bounds
<1>3. Executions'
  BY DEF IInv, Executions, Knows, Owed, Pends
<1>4. Awaited' /\ AcknowledgedIsKnown'
  BY DEF IInv, Awaited, AcknowledgedIsKnown, Acknowledged, Knows, Current
<1> QED BY <1>1, <1>2, <1>3, <1>4 DEF IInv

(* Nothing but what a worker does next. *)
LEMMA ReadNextInv ==
  ASSUME IInv, NEW w \in Worker, step[w] = "reclaim", Turn(w, "read"),
         UNCHANGED <<gateway, faults, group, batch, post>>
  PROVE  IInv'
<1> USE DEF Turn, gateway, servers, runs, rights, group
<1>1. TypeOK'
  BY DEF IInv, TypeOK, GatewayTypeOK
<1>2. Places' /\ HeldWithinSession' /\ SeenWithinSession' /\ Bounds'
  BY DEF IInv, Places, HeldWithinSession, SeenWithinSession, Bounds
<1>3. Executions'
  BY DEF IInv, Executions, Knows, Owed, Pends
<1>4. Awaited'
  <2>1. step'[w] = "read" /\ \A v \in Worker \ {w} : step'[v] = step[v]
    BY DEF IInv, TypeOK
  <2> QED BY <2>1 DEF IInv, Awaited, Knows, Current
<1>5. AcknowledgedIsKnown'
  BY DEF IInv, AcknowledgedIsKnown, Acknowledged, Knows
<1> QED BY <1>1, <1>2, <1>3, <1>4, <1>5 DEF IInv

LEMMA ReclaimInv == ASSUME IInv, NEW w \in Worker, Reclaim(w) PROVE IInv'
<1> DEFINE S == FirstOf(idle)
<1>1. S \subseteq idle /\ idle \subseteq pending /\ pending \subseteq 1 .. taken
  BY DEF FirstOf, IInv, TypeOK, Bounds
<1>2. step[w] = "reclaim" /\ idle' = idle \ S /\ UNCHANGED <<gateway, faults, taken, pending, post>>
  BY DEF Reclaim
<1>3. Acknowledged' = Acknowledged /\ faults' \in Nat
  BY <1>2 DEF Acknowledged, IInv, TypeOK, GatewayTypeOK
<1>4. CASE S = {}
  <2>1. idle' = idle /\ Turn(w, "read") /\ UNCHANGED batch
    BY <1>2, <1>4 DEF Reclaim
  <2> QED BY <2>1, <1>2, ReadNextInv DEF group
<1>5. CASE S # {}
  <2>1. Turns(w, S)
    BY <1>2, <1>5, PostedFree DEF Reclaim, Turns
  <2> HIDE DEF S
  <2> QED BY <2>1, <1>1, <1>2, <1>3, Numbers, GroupInv
<1> QED BY <1>4, <1>5

(* A command takes the first entries of an interval. *)
LEMMA FirstOfInterval ==
  ASSUME NEW a \in Nat, NEW b \in Nat, a <= b
  PROVE  \E c \in a .. b : FirstOf((a + 1) .. b) = (a + 1) .. c
                           /\ Cardinality(FirstOf((a + 1) .. b)) = c - a
<1> DEFINE c == IF a + BatchSize <= b THEN a + BatchSize ELSE b
<1>1. c \in a .. b
  OBVIOUS
<1>2. ASSUME NEW e \in (a + 1) .. b
      PROVE  Cardinality({d \in (a + 1) .. b : d <= e}) = e - a
  <2>1. {d \in (a + 1) .. b : d <= e} = (a + 1) .. e
    OBVIOUS
  <2>2. Cardinality((a + 1) .. e) = e - a
    BY FS_Interval
  <2> QED BY <2>1, <2>2
<1>3. FirstOf((a + 1) .. b) = {e \in (a + 1) .. b : e - a <= BatchSize}
  BY <1>2 DEF FirstOf
<1>4. {e \in (a + 1) .. b : e - a <= BatchSize} = (a + 1) .. c
  OBVIOUS
<1>5. Cardinality((a + 1) .. c) = c - a
  <2>1. c \in Int /\ a + 1 \in Int
    OBVIOUS
  <2>2. Cardinality((a + 1) .. c) = IF a + 1 > c THEN 0 ELSE c - (a + 1) + 1
    BY <2>1, FS_Interval
  <2> QED BY <2>2, <1>1
<1> QED BY <1>1, <1>3, <1>4, <1>5

LEMMA ReadNewInv == ASSUME IInv, NEW w \in Worker, ReadNew(w) PROVE IInv'
<1> DEFINE S == FirstOf((taken + 1) .. added)
<1>1. PICK c \in taken .. added : S = (taken + 1) .. c /\ Cardinality(S) = c - taken
  BY Numbers, FirstOfInterval
<1>2. /\ step[w] = "read" /\ taken' = taken + Cardinality(S) /\ pending' = pending \cup S
      /\ UNCHANGED <<gateway, idle, post>>
  BY DEF ReadNew
<1>3. taken' = c
  BY <1>1, <1>2, Numbers
<1>4. pending \subseteq 1 .. taken /\ idle \subseteq pending
  BY DEF IInv, Bounds, TypeOK
<1>5. /\ S \subseteq 1 .. taken' /\ taken' \in taken .. added
      /\ pending' \subseteq 1 .. taken' /\ idle' \subseteq pending'
      /\ Acknowledged' = Acknowledged
  <2>1. S = (taken + 1) .. c /\ pending' = pending \cup S /\ idle' = idle
    BY <1>1, <1>2
  <2> HIDE DEF S
  <2>2. S \subseteq 1 .. taken' /\ 1 .. taken \subseteq 1 .. taken' /\ taken' \in taken .. added
    BY <2>1, <1>3, Numbers
  <2>3. (1 .. c) \ (pending \cup S) = (1 .. taken) \ pending
    BY <2>1, <1>4, Numbers
  <2>4. pending' \subseteq 1 .. taken' /\ idle' \subseteq pending'
    BY <2>1, <2>2, <1>4
  <2>5. Acknowledged' = Acknowledged
    BY <2>1, <2>3, <1>3 DEF Acknowledged
  <2> QED BY <2>2, <2>4, <2>5
<1>6. faults' \in Nat
  BY FaultType DEF ReadNew, IInv, TypeOK, GatewayTypeOK
<1>7. Turns(w, S) \/ Turns(w, {})
  BY <1>2, PostedFree DEF ReadNew, Turns
<1> HIDE DEF S
<1> QED BY <1>2, <1>5, <1>6, <1>7, GroupInv

(* The entry a worker handles. *)
LEMMA CurrentTaken ==
  ASSUME IInv, NEW w \in Worker, step[w] \in {"post", "wait", "ack"}
  PROVE  /\ Current(w) \in 1 .. taken /\ Current(w) \in Message
         /\ batch[w] \ {Current(w)} \in SUBSET (1 .. taken)
<1>1. batch[w] # {} /\ batch[w] \subseteq 1 .. taken
  BY DEF IInv, Awaited, Bounds
<1>2. Current(w) \in 1 .. taken
  BY <1>1, CurrentInBatch
<1> QED BY <1>1, <1>2, Numbers DEF IInv, Bounds, TypeOK, GatewayTypeOK

(* A worker goes on with the next entry, or drops them all. *)
LEMMA DropInv ==
  ASSUME IInv, NEW w \in Worker, NEW S \in SUBSET (1 .. taken), Turns(w, S), faults' \in Nat,
         UNCHANGED <<gateway, group>>
  PROVE  IInv'
BY Numbers, GroupInv DEF group, Acknowledged, IInv, Bounds, TypeOK

LEMMA PostFailsInv == ASSUME IInv, NEW w \in Worker, PostFails(w) PROVE IInv'
<1>1. Turns(w, batch[w] \ {Current(w)})
  BY PostedFree DEF PostFails, Skip, Turns
<1> QED BY <1>1, CurrentTaken, FaultType, DropInv DEF PostFails

LEMMA GiveUpInv == ASSUME IInv, NEW w \in Worker, GiveUp(w) PROVE IInv'
<1>1. Turns(w, batch[w] \ {Current(w)})
  BY DEF GiveUp, Skip, Turns
<1> QED BY <1>1, CurrentTaken, FaultType, DropInv DEF GiveUp

LEMMA CrashInv == ASSUME IInv, NEW w \in Worker, Crash(w) PROVE IInv'
<1>1. Turns(w, {})
  BY DEF Crash, Turns
<1> QED BY <1>1, FaultType, DropInv DEF Crash

LEMMA AcknowledgeInv == ASSUME IInv, NEW w \in Worker, Acknowledge(w) PROVE IInv'
<1>1. /\ step[w] = "ack" /\ UNCHANGED <<gateway, taken, post>>
      /\ pending' = pending \ {Current(w)} /\ idle' = idle \ {Current(w)}
  BY DEF Acknowledge
<1>2. Turns(w, batch[w] \ {Current(w)}) \/ Turns(w, {})
  BY <1>1, PostedFree DEF Acknowledge, Skip, Turns
<1>3. \A s \in Socket : Knows(s, Current(w))
  BY <1>1 DEF IInv, Awaited
<1>4. \A m \in Acknowledged' : m \in Acknowledged \/ \A s \in Socket : Knows(s, m)
  BY <1>1, <1>3 DEF Acknowledged
<1>5. pending' \subseteq 1 .. taken' /\ idle' \subseteq pending'
  BY <1>1 DEF IInv, Bounds, TypeOK
<1>6. faults' \in Nat
  BY FaultType DEF Acknowledge, IInv, TypeOK, GatewayTypeOK
<1>7. batch[w] \ {Current(w)} \in SUBSET (1 .. taken')
  BY <1>1, CurrentTaken
<1>8. taken' \in taken .. added
  BY <1>1, Numbers
<1> QED BY <1>1, <1>2, <1>4, <1>5, <1>6, <1>7, <1>8, GroupInv

(* An execution begins or ends, and its deliveries with it. *)
LEMMA RunInv ==
  ASSUME IInv, NEW r \in Run, NEW u \in RunRecord,
         run' = [run EXCEPT ![r] = u], task' \in TaskType,
         \A q \in Run \ {r} : task'[q] = task[q],
         u.stage # "free" => u.message \in 1 .. added,
         \A i \in Instance : /\ task'[r][i].stage \in {"fetch", "loop"} => task'[r][i].message \in 1 .. added
                             /\ task'[r][i] = task[r][i] \/ task'[r][i].held = None,
         u.stage = "free" \/ \E i \in up : /\ u.stage = "local" /\ u.home = i
                                          /\ \A s \in Socket : Pends(r, i, s)',
         batch' \in [Worker -> SUBSET Message], post' \in [Worker -> Run \cup {None}],
         step' \in [Worker -> {"reclaim", "read", "post", "wait", "ack"}],
         \A w \in Worker : batch'[w] \subseteq 1 .. taken,
         Awaited',
         UNCHANGED <<added, conn, rights, servers, faults, group>>
  PROVE  IInv'
<1> USE DEF servers, rights, group
<1>1. run \in RunType /\ task \in TaskType
  BY RunTyped
<1>2. run' \in RunType /\ run'[r] = u /\ \A q \in Run \ {r} : run'[q] = run[q]
  BY <1>1 DEF RunType
<1>3. TypeOK'
  <2>1. task' \in [Run -> [Instance -> [stage : {"none", "fetch", "loop", "failed"},
                                    message : Message \cup {None},
                                    left : SUBSET Socket, held : Socket \cup {None}]]]
    BY DEF TaskType, TaskRecord
  <2>2. run' \in [Run -> [stage : {"free", "local", "emit", "wait", "accepted", "refused"},
                      message : Message \cup {None}, home : Instance \cup {None},
                      asked : SUBSET Instance]]
    BY <1>2 DEF RunType, RunRecord
  <2> QED BY <2>1, <2>2 DEF IInv, TypeOK, GatewayTypeOK
<1>4. Places' /\ SeenWithinSession'
  BY SocketsStay
<1>5. Bounds'
  <2>1. \A q \in Run : run'[q].stage # "free" => run'[q].message \in 1 .. added
    BY <1>2 DEF IInv, Bounds
  <2>2. \A q \in Run, j \in Instance : task'[q][j].stage \in {"fetch", "loop"} => task'[q][j].message \in 1 .. added
    BY DEF IInv, Bounds
  <2> QED BY <2>1, <2>2 DEF IInv, Bounds
<1>6. HeldWithinSession'
  <2>1. ASSUME NEW q \in Run, NEW j \in Instance
        PROVE  task'[q][j] = task[q][j] \/ task'[q][j].held = None
    OBVIOUS
  <2> QED BY <2>1, HeldStays
<1>7. Executions'
  <2>1. ASSUME NEW q \in Run \ {r} PROVE
          /\ run'[q].stage \in {"local", "emit", "wait"} => run'[q].home \in up'
          /\ \A s \in Socket : Knows(s, run[q].message)' \/ Owed(q, s)'
    <3>1. run'[q] = run[q] /\ task'[q] = task[q]
      BY <1>2
    <3>2. \A s \in Socket : Knows(s, run[q].message)' <=> Knows(s, run[q].message)
      BY <3>1 DEF Knows
    <3>3. \A s \in Socket : Owed(q, s)' <=> Owed(q, s)
      BY <3>1 DEF Owed, Pends
    <3> QED BY <3>1, <3>2, <3>3 DEF IInv, Executions
  <2>2. run'[r].stage \in {"local", "emit", "wait"} => run'[r].home \in up'
    BY <1>2
  <2>3. ASSUME NEW s \in Socket PROVE Owed(r, s)'
    BY <1>2 DEF Owed
  <2> QED BY <2>1, <2>2, <2>3 DEF Executions
<1>8. AcknowledgedIsKnown'
  BY DEF IInv, AcknowledgedIsKnown, Acknowledged, Knows
<1> QED BY <1>3, <1>4, <1>5, <1>6, <1>7, <1>8 DEF IInv

LEMMA FreeFacts ==
  ASSUME IInv, NEW r \in Run, Free(r)
  PROVE  /\ NoRun \in RunRecord /\ NoRun.stage = "free"
         /\ run' = [run EXCEPT ![r] = NoRun]
         /\ \A q \in Run \ {r} : run'[q] = run[q]
         /\ task' \in TaskType /\ \A q \in Run \ {r} : task'[q] = task[q]
         /\ \A i \in Instance :
              /\ task'[r][i].stage \in {"fetch", "loop"} => task'[r][i].message \in 1 .. added
              /\ task'[r][i] = task[r][i] \/ task'[r][i].held = None
<1>1. run \in RunType /\ task \in TaskType
  BY RunTyped
<1>2. NoTask \in TaskRecord /\ NoTask.held = None /\ NoTask.stage = "none"
  BY DEF NoTask, TaskRecord
<1>3. NoRun \in RunRecord /\ NoRun.stage = "free"
  BY DEF NoRun, RunRecord
<1>4. /\ task' \in TaskType /\ \A q \in Run \ {r} : task'[q] = task[q]
      /\ \A i \in Instance : task'[r][i] = task[r][i] \/ task'[r][i] = NoTask
  BY <1>1, <1>2 DEF Free, TaskType
<1>5. \A i \in Instance : task'[r][i].stage \in {"fetch", "loop"} => task'[r][i].message \in 1 .. added
  BY <1>2, <1>4 DEF IInv, Bounds
<1>6. run' = [run EXCEPT ![r] = NoRun] /\ \A q \in Run \ {r} : run'[q] = run[q]
  BY <1>1 DEF Free, RunType
<1> QED BY <1>2, <1>3, <1>4, <1>5, <1>6

LEMMA EndInv == ASSUME IInv, NEW r \in Run, End(r) PROVE IInv'
<1>1. /\ Free(r) /\ \A w \in Worker : post[w] # r
      /\ UNCHANGED <<added, conn, rights, servers, faults, group, workers>>
  BY DEF End
<1>2. Awaited'
  <2>1. \A w \in Worker : step[w] = "wait" => run'[post[w]] = run[post[w]]
    <3>1. \A w \in Worker : step[w] = "wait" => post[w] \in Run \ {r}
      BY <1>1 DEF IInv, Awaited
    <3>2. \A q \in Run \ {r} : run'[q] = run[q]
      BY <1>1, FreeFacts
    <3> QED BY <3>1, <3>2
  <2> QED BY <2>1, <1>1 DEF IInv, Awaited, Knows, Current, workers
<1>3. /\ batch' \in [Worker -> SUBSET Message] /\ post' \in [Worker -> Run \cup {None}]
      /\ step' \in [Worker -> {"reclaim", "read", "post", "wait", "ack"}]
      /\ \A w \in Worker : batch'[w] \subseteq 1 .. taken
  BY <1>1 DEF IInv, TypeOK, Bounds, workers
<1> QED BY <1>1, <1>2, <1>3, FreeFacts, RunInv

LEMMA HearInv == ASSUME IInv, NEW w \in Worker, Hear(w) PROVE IInv'
<1> DEFINE r == post[w]
<1>1. /\ step[w] = "wait" /\ run[r].stage \in {"accepted", "refused"} /\ Free(r)
      /\ post' = [post EXCEPT ![w] = None]
      /\ UNCHANGED <<added, conn, rights, servers, faults, group>>
  BY DEF Hear
<1>2. r \in Run /\ run[r].message = Current(w) /\ batch[w] # {}
      /\ \A v \in Worker \ {w} : post[v] # r
  BY <1>1 DEF IInv, Awaited
<1>3. \A v \in Worker \ {w} : step[v] = "wait" => run'[post[v]] = run[post[v]]
  <2>1. \A v \in Worker \ {w} : step[v] = "wait" => post[v] \in Run \ {r}
    BY <1>2 DEF IInv, Awaited
  <2> HIDE DEF r
  <2>2. \A q \in Run \ {r} : run'[q] = run[q]
    BY <1>1, <1>2, FreeFacts
  <2> QED BY <2>1, <2>2
<1>4. CASE run[r].stage = "accepted" /\ Turn(w, "ack") /\ UNCHANGED batch
  <2>1. \A s \in Socket : Knows(s, Current(w))
    BY <1>2, <1>4 DEF IInv, Executions, Owed
  <2>2. /\ step'[w] = "ack" /\ post'[w] = None
        /\ \A v \in Worker \ {w} : step'[v] = step[v] /\ post'[v] = post[v]
        /\ post' \in [Worker -> Run \cup {None}]
        /\ step' \in [Worker -> {"reclaim", "read", "post", "wait", "ack"}]
    BY <1>1, <1>4 DEF Turn, IInv, TypeOK
  <2>3. \A v \in Worker : Current(v)' = Current(v) /\ batch'[v] = batch[v]
    BY <1>4 DEF Current
  <2>4. Awaited'
    BY <1>1, <1>2, <1>3, <2>1, <2>2, <2>3 DEF IInv, Awaited, Knows
  <2>5. batch' \in [Worker -> SUBSET Message] /\ \A v \in Worker : batch'[v] \subseteq 1 .. taken
    BY <1>4 DEF IInv, TypeOK, Bounds
  <2> HIDE DEF r
  <2> QED BY <1>1, <1>2, <2>2, <2>4, <2>5, FreeFacts, RunInv
<1>5. CASE Skip(w)
  <2> DEFINE S == batch[w] \ {Current(w)}
  <2>1. Turns(w, S)
    BY <1>1, <1>5 DEF Skip, Turns
  <2>2. S \in SUBSET (1 .. taken) /\ S \in SUBSET Message
    BY <1>1, CurrentTaken DEF IInv, TypeOK
  <2> HIDE DEF S
  <2>3. Awaited'
    BY <1>1, <1>3, <2>1, <2>2, TurnsAwaited
  <2>4. /\ batch' \in [Worker -> SUBSET Message] /\ post' \in [Worker -> Run \cup {None}]
        /\ step' \in [Worker -> {"reclaim", "read", "post", "wait", "ack"}]
        /\ \A v \in Worker : batch'[v] \subseteq 1 .. taken
    BY <2>1, <2>2, TurnsFacts DEF IInv, Bounds
  <2> HIDE DEF r
  <2> QED BY <1>1, <1>2, <2>3, <2>4, FreeFacts, RunInv
<1> QED BY <1>1, <1>4, <1>5 DEF Hear

LEMMA PostInv == ASSUME IInv, NEW w \in Worker, Post(w) PROVE IInv'
<1>1. PICK r \in Run, i \in Instance : Accept(r, Current(w), i) /\ post' = [post EXCEPT ![w] = r]
  BY DEF Post
<1>2. /\ step[w] = "post" /\ Turn(w, "wait")
      /\ UNCHANGED <<added, conn, rights, servers, faults, group, batch>>
  BY DEF Post
<1> DEFINE m == Current(w)
           u == [stage |-> "local", message |-> m, home |-> i, asked |-> {}]
<1>3. m \in 1 .. added /\ m \in Message /\ batch[w] # {}
  BY <1>2, CurrentTaken, Numbers DEF IInv, Awaited
<1>4. run[r].stage = "free" /\ i \in up /\ run' = [run EXCEPT ![r] = u]
  BY <1>1 DEF Accept, Idle
<1>5. u \in RunRecord /\ u.stage = "local" /\ u.message = m /\ u.home = i
  BY <1>3 DEF RunRecord
<1> HIDE DEF u
<1>6. run \in RunType /\ task \in TaskType
  BY RunTyped
<1>7. LocalTask(m) \in TaskRecord /\ NoTask \in TaskRecord
      /\ LocalTask(m).held = None /\ NoTask.held = None
      /\ LocalTask(m).stage = "fetch" /\ NoTask.stage = "none" /\ LocalTask(m).message = m
  BY <1>3 DEF LocalTask, NoTask, TaskRecord
<1>8. /\ task' \in TaskType /\ \A q \in Run \ {r} : task'[q] = task[q]
      /\ \A j \in Instance : task'[r][j] = IF j = i THEN LocalTask(m) ELSE NoTask
  BY <1>1, <1>6, <1>7 DEF Accept, TaskType
<1>9. run'[r] = u /\ \A q \in Run \ {r} : run'[q] = run[q]
  BY <1>4, <1>6 DEF RunType
<1>10. \A s \in Socket : Pends(r, i, s)'
  BY <1>5, <1>7, <1>8, <1>9 DEF Pends
<1>11. /\ post' \in [Worker -> Run \cup {None}]
       /\ step' \in [Worker -> {"reclaim", "read", "post", "wait", "ack"}]
       /\ batch' \in [Worker -> SUBSET Message] /\ \A v \in Worker : batch'[v] \subseteq 1 .. taken
       /\ step'[w] = "wait" /\ post'[w] = r
       /\ \A v \in Worker \ {w} : step'[v] = step[v] /\ post'[v] = post[v]
  BY <1>1, <1>2 DEF Turn, IInv, TypeOK, Bounds
<1>12. \A v \in Worker : post[v] # r
  BY <1>4 DEF IInv, Awaited
<1>13. Awaited'
  <2>1. \A v \in Worker : Current(v)' = Current(v) /\ batch'[v] = batch[v]
    BY <1>2 DEF Current
  <2>2. ASSUME NEW v \in Worker \ {w}, step[v] = "wait" PROVE run'[post[v]] = run[post[v]]
    BY <2>2, <1>9, <1>12 DEF IInv, Awaited
  <2> QED BY <2>1, <2>2, <1>2, <1>3, <1>5, <1>9, <1>11, <1>12 DEF IInv, Awaited, Knows
<1>14. \A j \in Instance :
         /\ task'[r][j].stage \in {"fetch", "loop"} => task'[r][j].message \in 1 .. added
         /\ task'[r][j] = task[r][j] \/ task'[r][j].held = None
  BY <1>3, <1>7, <1>8
<1> HIDE DEF m
<1> QED BY <1>2, <1>3, <1>4, <1>5, <1>8, <1>10, <1>11, <1>13, <1>14, RunInv

-----------------------------------------------------------------------------
LEMMA StepInv == ASSUME IInv, Next PROVE IInv'
<1>1. CASE \E w \in Worker : Work(w) \/ PostFails(w) \/ GiveUp(w) \/ Crash(w)
  BY <1>1, ReclaimInv, ReadNewInv, PostInv, HearInv, AcknowledgeInv, PostFailsInv, GiveUpInv, CrashInv
     DEF Work
<1> QED BY <1>1, AddInv, AgeInv, EndInv, GatewayInv DEF Next

LEMMA StutterInv == ASSUME IInv, UNCHANGED vars PROVE IInv'
<1> USE DEF vars, gateway, servers, runs, rights, group, workers
<1>1. TypeOK' /\ Places' /\ Bounds' /\ HeldWithinSession' /\ SeenWithinSession'
  BY DEF IInv, TypeOK, GatewayTypeOK, Places, Bounds, HeldWithinSession, SeenWithinSession
<1>2. Executions' /\ Awaited' /\ AcknowledgedIsKnown'
  BY DEF IInv, Executions, Awaited, AcknowledgedIsKnown, Acknowledged, Knows, Owed, Pends, Current
<1> QED BY <1>1, <1>2 DEF IInv

LEMMA Inductive == Spec => []IInv
<1>1. IInv /\ [Next]_vars => IInv'
  BY StepInv, StutterInv
<1> QED BY <1>1, InitInv, PTL DEF Spec

(* Every variable keeps its type. *)
THEOREM TypeCorrect == Spec => []TypeOK
<1>1. IInv => TypeOK
  BY DEF IInv
<1> QED BY <1>1, Inductive, PTL

(* A client is never given or told of a message written after its session ended. *)
THEOREM SessionBounds == Spec => []SeenWithinSession
<1>1. IInv => SeenWithinSession
  BY DEF IInv
<1> QED BY <1>1, Inductive, PTL

(* An entry is acknowledged only when every subscriber has been told of it or has read it. *)
THEOREM AcknowledgedAfterSeen == Spec => []AcknowledgedWasSeen
<1>1. IInv => AcknowledgedWasSeen
  BY DEF IInv, AcknowledgedIsKnown, AcknowledgedWasSeen, Knows, Informed, Subscribed
<1> QED BY <1>1, Inductive, PTL
=============================================================================
