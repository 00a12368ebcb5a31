--------------------------- MODULE OutboxPublisher ---------------------------
(***************************************************************************)
(* The transactional outbox of kovcheg: worker processes claim one pending *)
(* message.created row at a time under a lease, add it to the application  *)
(* stream in Redis and record its delivery.  Statements and the Redis      *)
(* command can fail, take effect without their reply arriving, or outlast  *)
(* the lease; a process can die between any two of them.                   *)
(*                                                                         *)
(* A claim token is made fresh for each claim and known to the process     *)
(* that made it, which works on one row at a time; the worker stands for   *)
(* it.  attempt_count, which nothing reads, and the pauses between two     *)
(* rounds of a worker are left out.                                        *)
(* Definitions named X_<change> are mutants: X with one plausible mistake. *)
(***************************************************************************)
EXTENDS Integers, Sequences, FiniteSets

CONSTANTS
  Event,      \* outbox rows, ordered as (available_at, occurred_at, id) orders them
  Malformed,  \* rows the realtime contract refuses: it knows ids of UUID versions 1 to 5
              \* only, while the API lets a chat be made with an id of versions 6 to 8
  Worker,     \* worker processes
  None,       \* no worker, no row
  MaxFaults   \* bound on failures, stalls and crashes

ASSUME EventsAssumption == Event \subseteq Nat /\ Malformed \subseteq Event
ASSUME WorkersAssumption == None \notin Worker /\ None \notin Event
ASSUME FaultsAssumption == MaxFaults \in Nat

VARIABLES
  row,     \* "absent" until its message commits; "delivered" once delivered_at is set
  claim,   \* the worker whose claim_token the row carries
  leased,  \* rows whose claim_expires_at is in the future
  stream,  \* entries of kovcheg:application-events:v1, oldest first
  job,     \* the row each worker works on
  step,    \* what each worker does next
  faults   \* failures, stalls and crashes so far

rows == <<row, claim, leased>>
workers == <<job, step>>
vars == <<rows, stream, workers, faults>>

Streamed == {stream[i] : i \in DOMAIN stream}

-----------------------------------------------------------------------------
Fault == faults < MaxFaults /\ faults' = faults + 1

Goto(w, s) == step' = [step EXCEPT ![w] = s]

Rest(w) == Goto(w, "idle") /\ job' = [job EXCEPT ![w] = None]

(* A message commits with its outbox row; commits need not follow the order *)
(* of occurred_at.                                                          *)
Create(e) ==
  /\ row[e] = "absent"
  /\ row' = [row EXCEPT ![e] = "pending"]
  /\ UNCHANGED <<claim, leased, stream, workers, faults>>

Claimable_Claimed == {e \in Event : row[e] = "pending"}
Claimable_Unclaimed == {e \in Event : row[e] = "pending" /\ claim[e] = None}
Claimable == {e \in Event : row[e] = "pending" /\ (claim[e] = None \/ e \notin leased)}

(* claimNext: the first row nobody has a running claim on. It skips rows that  *)
(* another claimNext has locked; that one's transaction is taken to commit.    *)
Claim(w) ==
  /\ step[w] = "idle"
  /\ \E e \in Claimable :
       /\ \A d \in Claimable : e <= d
       /\ claim' = [claim EXCEPT ![e] = w]
       /\ leased' = leased \cup {e}
       /\ job' = [job EXCEPT ![w] = e]
       /\ Goto(w, IF e \in Malformed THEN "release" ELSE "publish")
  /\ UNCHANGED <<row, stream, faults>>

(* XADD.  When it fails, or its reply is lost, the claim is given back. *)
Publish(w) ==
  /\ step[w] = "publish"
  /\ stream' = Append(stream, job[w])
  /\ \/ Goto(w, "mark") /\ UNCHANGED faults
     \/ Goto(w, "release") /\ Fault
  /\ UNCHANGED <<rows, job>>

PublishFails_Swallowed(w) ==
  /\ step[w] = "publish"
  /\ Goto(w, "mark") /\ Fault
  /\ UNCHANGED <<rows, stream, job>>

PublishFails(w) ==
  /\ step[w] = "publish"
  /\ Goto(w, "release") /\ Fault
  /\ UNCHANGED <<rows, stream, job>>

Owns(w) == claim[job[w]] = w /\ row[job[w]] = "pending"

EndClaim_AnyToken(w) ==
  /\ claim' = [claim EXCEPT ![job[w]] = None]
  /\ leased' = leased \ {job[w]}

(* Ends the claim of the row a worker works on, unless it is no longer its. *)
EndClaim(w) ==
  IF Owns(w)
  THEN claim' = [claim EXCEPT ![job[w]] = None] /\ leased' = leased \ {job[w]}
  ELSE UNCHANGED <<claim, leased>>

(* markPublished: only under the token of the claim, and only once. *)
Mark(w) ==
  /\ step[w] = "mark"
  /\ EndClaim(w)
  /\ row' = IF Owns(w) THEN [row EXCEPT ![job[w]] = "delivered"] ELSE row
  /\ \/ /\ IF Owns(w) THEN Rest(w) ELSE Goto(w, "release") /\ UNCHANGED job
        /\ UNCHANGED faults
     \/ Goto(w, "release") /\ UNCHANGED job /\ Fault
  /\ UNCHANGED stream

MarkFails(w) ==
  /\ step[w] = "mark"
  /\ Goto(w, "release") /\ Fault
  /\ UNCHANGED <<rows, stream, job>>

(* release; its own failure is swallowed. *)
Release(w) ==
  /\ step[w] = "release"
  /\ EndClaim(w)
  /\ Rest(w)
  /\ UNCHANGED <<row, stream, faults>>

(* The process dies (and is started again), or release fails. *)
Crash(w) ==
  /\ step[w] # "idle"
  /\ Fault
  /\ Rest(w)
  /\ UNCHANGED <<rows, stream>>

(* A lease runs out: of a claim nobody works on any more, or, as a fault, of  *)
(* one whose worker stalls.                                                   *)
Working(e) == \E w \in Worker : job[w] = e /\ claim[e] = w

Expire(e) ==
  /\ e \in leased
  /\ leased' = leased \ {e}
  /\ IF Working(e) THEN Fault ELSE UNCHANGED faults
  /\ UNCHANGED <<row, claim, stream, workers>>

-----------------------------------------------------------------------------
Init ==
  /\ row = [e \in Event |-> "absent"]
  /\ claim = [e \in Event |-> None]
  /\ leased = {}
  /\ stream = <<>>
  /\ job = [w \in Worker |-> None]
  /\ step = [w \in Worker |-> "idle"]
  /\ faults = 0

(* What a worker does when nothing goes wrong. *)
Work(w) == Claim(w) \/ Publish(w) \/ Mark(w) \/ Release(w)

Next ==
  \/ \E e \in Event : Create(e) \/ Expire(e)
  \/ \E w \in Worker : Work(w) \/ PublishFails(w) \/ MarkFails(w) \/ Crash(w)

Spec == Init /\ [][Next]_vars

(* The publisher loop of each worker runs on, and time passes; faults end, and *)
(* messages need not be written.                                               *)
FairSpec ==
  /\ Spec
  /\ \A w \in Worker : WF_vars(Work(w))
  /\ \A e \in Event : WF_vars(Expire(e) /\ ~Working(e))

-----------------------------------------------------------------------------
TypeOK ==
  /\ row \in [Event -> {"absent", "pending", "delivered"}]
  /\ claim \in [Event -> Worker \cup {None}]
  /\ leased \in SUBSET Event
  /\ stream \in Seq(Event)
  /\ job \in [Worker -> Event \cup {None}]
  /\ step \in [Worker -> {"idle", "publish", "mark", "release"}]
  /\ faults \in Nat

(* A row is recorded as delivered only after its event is in the stream, even *)
(* when the worker that records it is not the one that added it; a row that   *)
(* violates the contract is never published.                                  *)
DeliveredWasPublished ==
  /\ \A e \in Event : row[e] = "delivered" => e \in Streamed
  /\ Streamed \cap Malformed = {}

(* An event is published more than once only when something went wrong: every *)
(* duplicate entry is paid for by a failure, a stall or a crash.              *)
DuplicatesNeedFaults == Len(stream) - Cardinality(Streamed) <= faults

(* While a lease runs, nobody but its holder takes the row away or gives it   *)
(* back, and nobody else records its delivery.                                *)
LeaseIsExclusive ==
  [][\A w \in Worker :
       job[w] # None /\ step'[w] = step[w] /\ job[w] \in leased /\ Owns(w)
       => claim'[job[w]] = w /\ row'[job[w]] = "pending"]_vars

(* Every message's event is published and recorded, whatever fails on the way, *)
(* unless a row that can never be published stands before it in the order.     *)
EventsAreDelivered ==
  \A e \in Event :
    (\A m \in Malformed : e < m) => (row[e] = "pending" ~> row[e] = "delivered")

(* "Delivery is at least once": every row the contract accepts is published.  *)
(* A refused row is given back and, being first in the order, claimed again at *)
(* once, so that a worker never gets past it.                                  *)
DeliveryIsAtLeastOnce ==
  \A e \in Event \ Malformed : row[e] = "pending" ~> row[e] = "delivered"
=============================================================================
