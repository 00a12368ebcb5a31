------------------------ MODULE OutboxPublisherProofs ------------------------
(***************************************************************************)
(* Theorems about OutboxPublisher, for any number of rows, workers and     *)
(* faults.                                                                 *)
(***************************************************************************)
EXTENDS OutboxPublisher, FiniteSetTheorems, TLAPS

(* A worker that goes on to record a delivery has seen Redis accept the row. *)
StepsAgree ==
  \A w \in Worker :
    /\ step[w] # "idle" => job[w] \in Event
    /\ step[w] \in {"publish", "mark"} => job[w] \notin Malformed
    /\ step[w] = "mark" => job[w] \in Streamed

IInv == TypeOK /\ StepsAgree /\ DeliveredWasPublished

LEMMA InitInv == Init => IInv
<1> SUFFICES ASSUME Init PROVE IInv
  OBVIOUS
<1>1. TypeOK
  BY FaultsAssumption DEF Init, TypeOK
<1>2. Streamed = {}
  BY DEF Init, Streamed
<1> QED BY <1>1, <1>2 DEF Init, IInv, StepsAgree, DeliveredWasPublished

(* Steps that leave the stream alone and deliver nothing. *)
LEMMA QuietInv ==
  ASSUME IInv, TypeOK', UNCHANGED stream,
         \A e \in Event : row'[e] = "delivered" => row[e] = "delivered",
         \A w \in Worker : /\ step'[w] # "idle" => job'[w] \in Event
                           /\ step'[w] = "publish" => job'[w] \notin Malformed
                           /\ step'[w] = "mark" => step[w] = "mark" /\ job'[w] = job[w]
  PROVE  IInv'
<1>1. Streamed' = Streamed
  BY DEF Streamed
<1>2. DeliveredWasPublished'
  BY <1>1 DEF IInv, DeliveredWasPublished
<1>3. StepsAgree'
  BY <1>1 DEF IInv, StepsAgree
<1> QED BY <1>2, <1>3 DEF IInv

LEMMA ClaimInv == ASSUME IInv, NEW w \in Worker, Claim(w) PROVE IInv'
<1>1. PICK e \in Event :
        /\ row[e] = "pending"
        /\ claim' = [claim EXCEPT ![e] = w]
        /\ leased' = leased \cup {e}
        /\ job' = [job EXCEPT ![w] = e]
        /\ Goto(w, IF e \in Malformed THEN "release" ELSE "publish")
  BY DEF Claim, Claimable
<1>2. TypeOK'
  BY <1>1 DEF Claim, IInv, TypeOK, Goto
<1> QED BY <1>1, <1>2, QuietInv DEF Claim, IInv, TypeOK, StepsAgree, Goto

LEMMA PublishInv == ASSUME IInv, NEW w \in Worker, Publish(w) PROVE IInv'
<1>1. /\ job[w] \in Event \ Malformed
      /\ stream' = Append(stream, job[w])
      /\ step' \in {[step EXCEPT ![w] = s] : s \in {"mark", "release"}}
      /\ faults' \in Nat
      /\ UNCHANGED <<rows, job>>
  BY DEF Publish, IInv, StepsAgree, Goto, Fault, TypeOK
<1>2. TypeOK'
  BY <1>1 DEF IInv, TypeOK, rows
<1>3. Streamed' = Streamed \cup {job[w]}
  <2>1. /\ DOMAIN stream = 1 .. Len(stream) /\ Len(stream) \in Nat
        /\ DOMAIN stream' = 1 .. Len(stream) + 1
        /\ stream'[Len(stream) + 1] = job[w]
        /\ \A i \in 1 .. Len(stream) : stream'[i] = stream[i]
    BY <1>1 DEF IInv, TypeOK
  <2> QED BY <2>1 DEF Streamed
<1>4. DeliveredWasPublished'
  BY <1>1, <1>3 DEF IInv, DeliveredWasPublished, rows
<1>5. StepsAgree'
  BY <1>1, <1>3 DEF IInv, StepsAgree, TypeOK
<1> QED BY <1>2, <1>4, <1>5 DEF IInv

LEMMA EndClaimType ==
  ASSUME TypeOK, NEW w \in Worker, EndClaim(w)
  PROVE  claim' \in [Event -> Worker \cup {None}] /\ leased' \in SUBSET Event
BY DEF TypeOK, EndClaim

LEMMA MarkInv == ASSUME IInv, NEW w \in Worker, Mark(w) PROVE IInv'
<1>1. job[w] \in Event /\ job[w] \in Streamed
  BY DEF Mark, IInv, StepsAgree
<1>2. faults' \in Nat /\ row' \in [Event -> {"absent", "pending", "delivered"}]
  BY <1>1 DEF Mark, Fault, IInv, TypeOK
<1>3. \/ step' = [step EXCEPT ![w] = "idle"] /\ job' = [job EXCEPT ![w] = None]
      \/ step' = [step EXCEPT ![w] = "release"] /\ job' = job
  BY DEF Mark, Rest, Goto
<1>4. TypeOK'
  BY <1>2, <1>3, EndClaimType DEF Mark, IInv, TypeOK
<1>5. Streamed' = Streamed
  BY DEF Mark, Streamed
<1>6. \A e \in Event : row'[e] = "delivered" => row[e] = "delivered" \/ e = job[w]
  BY DEF Mark, IInv, TypeOK
<1>7. DeliveredWasPublished'
  BY <1>1, <1>5, <1>6 DEF IInv, DeliveredWasPublished
<1>8. StepsAgree'
  <2> SUFFICES ASSUME NEW u \in Worker
               PROVE  /\ step'[u] # "idle" => job'[u] \in Event
                      /\ step'[u] \in {"publish", "mark"} => job'[u] \notin Malformed
                      /\ step'[u] = "mark" => job'[u] \in Streamed'
    BY DEF StepsAgree
  <2>1. CASE u = w
    BY <1>1, <1>3, <2>1 DEF IInv, TypeOK
  <2>2. CASE u # w
    <3>1. step'[u] = step[u] /\ job'[u] = job[u]
      BY <1>3, <2>2 DEF IInv, TypeOK
    <3> QED BY <1>5, <3>1 DEF IInv, StepsAgree
  <2> QED BY <2>1, <2>2
<1> QED BY <1>4, <1>7, <1>8 DEF IInv

LEMMA ReleaseInv == ASSUME IInv, NEW w \in Worker, Release(w) \/ Crash(w) PROVE IInv'
<1>1. /\ step' = [step EXCEPT ![w] = "idle"] /\ job' = [job EXCEPT ![w] = None]
      /\ row' = row /\ stream' = stream
  BY DEF Release, Crash, Rest, Goto, rows
<1>2. TypeOK'
  BY <1>1, EndClaimType DEF Release, Crash, Fault, IInv, TypeOK, rows
<1> QED BY <1>1, <1>2, QuietInv DEF IInv, TypeOK, StepsAgree

LEMMA FailInv == ASSUME IInv, NEW w \in Worker, PublishFails(w) \/ MarkFails(w) PROVE IInv'
<1>1. /\ step' = [step EXCEPT ![w] = "release"] /\ job' = job
      /\ step[w] # "idle"
      /\ row' = row /\ stream' = stream
  BY DEF PublishFails, MarkFails, Goto, rows
<1>2. TypeOK'
  BY <1>1 DEF PublishFails, MarkFails, Fault, IInv, TypeOK, rows
<1> QED BY <1>1, <1>2, QuietInv DEF IInv, TypeOK, StepsAgree

LEMMA NextInv == IInv /\ [Next]_vars => IInv'
<1> SUFFICES ASSUME IInv, [Next]_vars PROVE IInv'
  OBVIOUS
<1>1. ASSUME NEW e \in Event, Create(e) \/ Expire(e) PROVE IInv'
  <2>1. TypeOK'
    BY <1>1 DEF Create, Expire, Fault, IInv, TypeOK, workers
  <2>2. /\ \A d \in Event : row'[d] = "delivered" => row[d] = "delivered"
        /\ UNCHANGED <<stream, job, step>>
    BY <1>1 DEF Create, Expire, IInv, TypeOK, workers
  <2> QED BY <2>1, <2>2, QuietInv DEF IInv, StepsAgree
<1>2. CASE UNCHANGED vars
  <2>1. TypeOK'
    BY <1>2 DEF IInv, TypeOK, vars, rows, workers
  <2> QED BY <1>2, <2>1, QuietInv DEF IInv, StepsAgree, vars, rows, workers
<1> QED BY <1>1, <1>2, ClaimInv, PublishInv, MarkInv, ReleaseInv, FailInv DEF Next, Work

(* The strengthening that is inductive holds in every reachable state: a claim *)
(* is only ever marked by a worker that has put its row in the stream.         *)
THEOREM Inductive == Spec => []IInv
BY InitInv, NextInv, PTL DEF Spec

(* Every reachable state is well typed. *)
THEOREM TypeCorrect == Spec => []TypeOK
<1>1. IInv => TypeOK
  BY DEF IInv
<1> QED BY <1>1, Inductive, PTL

(* No row is recorded as delivered unless its event is in the stream, whoever  *)
(* recorded it and whatever failed, stalled or died before.                    *)
THEOREM NothingIsSkipped == Spec => []DeliveredWasPublished
<1>1. IInv => DeliveredWasPublished
  BY DEF IInv
<1> QED BY <1>1, Inductive, PTL

(* The claim token fences workers off: while a lease runs, only the worker    *)
(* that holds it gives the row back or records its delivery.                   *)
THEOREM LeasesExclude == Spec => LeaseIsExclusive
<1> DEFINE Kept(w) ==
             job[w] # None /\ step'[w] = step[w] /\ job[w] \in leased /\ Owns(w)
             => claim'[job[w]] = w /\ row'[job[w]] = "pending"
<1>1. IInv /\ [Next]_vars => [\A w \in Worker : Kept(w)]_vars
  <2> SUFFICES ASSUME IInv, [Next]_vars, NEW w \in Worker,
                      job[w] # None, step'[w] = step[w], job[w] \in leased, Owns(w)
               PROVE  claim'[job[w]] = w /\ row'[job[w]] = "pending"
    OBVIOUS
  <2>0. job[w] \in Event /\ claim[job[w]] = w /\ row[job[w]] = "pending"
    BY DEF IInv, TypeOK, Owns
  <2>1. ASSUME NEW e \in Event, Create(e) \/ Expire(e)
        PROVE  claim'[job[w]] = w /\ row'[job[w]] = "pending"
    BY <2>0, <2>1 DEF Create, Expire, IInv, TypeOK
  <2>2. ASSUME NEW u \in Worker, Claim(u)
        PROVE  claim'[job[w]] = w /\ row'[job[w]] = "pending"
    <3>1. job[w] \notin Claimable
      BY <2>0, WorkersAssumption DEF Claimable
    <3> QED BY <2>0, <2>2, <3>1 DEF Claim, Claimable, IInv, TypeOK
  <2>3. ASSUME NEW u \in Worker, Mark(u) \/ Release(u)
        PROVE  claim'[job[w]] = w /\ row'[job[w]] = "pending"
    <3>1. u # w
      BY <2>3 DEF Mark, Release, Rest, Goto, IInv, TypeOK
    <3>2. Owns(u) => job[u] # job[w]
      BY <2>0, <3>1 DEF Owns
    <3> QED BY <2>0, <2>3, <3>2 DEF Mark, Release, EndClaim, IInv, TypeOK
  <2>4. ASSUME NEW u \in Worker, Publish(u) \/ PublishFails(u) \/ MarkFails(u) \/ Crash(u)
        PROVE  claim'[job[w]] = w /\ row'[job[w]] = "pending"
    BY <2>0, <2>4 DEF Publish, PublishFails, MarkFails, Crash, rows
  <2>5. CASE UNCHANGED vars
    BY <2>0, <2>5 DEF vars, rows
  <2> QED BY <2>1, <2>2, <2>3, <2>4, <2>5 DEF Next, Work
<1> QED BY <1>1, Inductive, PTL DEF Spec, LeaseIsExclusive
-----------------------------------------------------------------------------
(* Duplicates.  Every row that was created is owed one entry of the stream.    *)
(* An entry is there, or a worker is about to add one, or somebody will still  *)
(* have to claim the row; whatever exceeds the rows was paid for by a fault.   *)
Created == {e \in Event : row[e] # "absent"}
Publishing == {w \in Worker : step[w] = "publish"}

(* A row whose claim needs no further worker, unless something goes wrong. *)
Serves(w, e) ==
  claim[e] = w /\ e \in leased /\ job[w] = e /\ step[w] \in {"publish", "mark"}
Unserved == {e \in Event : row[e] = "pending" /\ \A w \in Worker : ~Serves(w, e)}

Paid ==
  /\ IsFiniteSet(Created) /\ IsFiniteSet(Publishing)
  /\ Len(stream) + Cardinality(Publishing) + Cardinality(Unserved)
       <= faults + Cardinality(Created)

LEMMA SizesAreNumbers ==
  ASSUME Paid
  PROVE  /\ IsFiniteSet(Unserved)
         /\ Cardinality(Created) \in Nat /\ Cardinality(Publishing) \in Nat
         /\ Cardinality(Unserved) \in Nat
<1>1. Unserved \in SUBSET Created
  BY DEF Unserved, Created
<1> QED BY <1>1, FS_Subset, FS_CardinalityType DEF Paid

(* A step that creates no row keeps the books if its changes of the stream, of *)
(* those who publish and of what is unserved are covered by its fault.         *)
LEMMA PaidStep ==
  ASSUME IInv, TypeOK', Paid, Created' = Created, NEW e, NEW w,
         \/ Publishing' = Publishing /\ Len(stream') = Len(stream)
         \/ Publishing' = Publishing \ {w} /\ w \in Publishing /\ Len(stream') <= Len(stream) + 1,
         \/ Unserved' \subseteq Unserved
         \/ Unserved' \subseteq Unserved \cup {e} /\ faults' = faults + 1
         \/ /\ Unserved' \subseteq Unserved \cup {e} /\ faults' = faults
            /\ Publishing' = Publishing \ {w} /\ w \in Publishing /\ Len(stream') = Len(stream),
         faults' \in {faults, faults + 1}
  PROVE  Paid'
<1>1. /\ IsFiniteSet(Unserved) /\ IsFiniteSet(Publishing)
      /\ Cardinality(Created) \in Nat /\ Cardinality(Publishing) \in Nat
      /\ Cardinality(Unserved) \in Nat
  BY SizesAreNumbers DEF Paid
<1>2. /\ IsFiniteSet(Publishing \ {w})
      /\ w \in Publishing => Cardinality(Publishing \ {w}) = Cardinality(Publishing) - 1
  BY <1>1, FS_RemoveElement
<1>3. /\ IsFiniteSet(Unserved \cup {e})
      /\ Cardinality(Unserved \cup {e}) <= Cardinality(Unserved) + 1
      /\ Cardinality(Unserved \cup {e}) \in Nat
  <2>1. /\ IsFiniteSet(Unserved \cup {e})
        /\ Cardinality(Unserved \cup {e}) =
             IF e \in Unserved THEN Cardinality(Unserved) ELSE Cardinality(Unserved) + 1
    BY <1>1, FS_AddElement
  <2> QED BY <1>1, <2>1
<1>4. /\ Unserved' \subseteq Unserved => Cardinality(Unserved') <= Cardinality(Unserved)
      /\ Unserved' \subseteq Unserved \cup {e} =>
           /\ IsFiniteSet(Unserved')
           /\ Cardinality(Unserved') <= Cardinality(Unserved) + 1
  <2>1. Unserved' \subseteq Unserved => Cardinality(Unserved') <= Cardinality(Unserved)
    BY <1>1, FS_Subset
  <2>2. ASSUME Unserved' \subseteq Unserved \cup {e}
        PROVE  IsFiniteSet(Unserved') /\ Cardinality(Unserved') <= Cardinality(Unserved \cup {e})
    BY <1>3, <2>2, FS_Subset
  <2>3. ASSUME Unserved' \subseteq Unserved \cup {e}
        PROVE  IsFiniteSet(Unserved') /\ Cardinality(Unserved') <= Cardinality(Unserved) + 1
    <3>1. IsFiniteSet(Unserved') /\ Cardinality(Unserved') <= Cardinality(Unserved \cup {e})
      BY <2>2, <2>3
    <3>2. Cardinality(Unserved') \in Nat
      BY <3>1, FS_CardinalityType
    <3> QED BY <1>1, <1>3, <3>1, <3>2
  <2> QED BY <2>1, <2>3
<1>5. IsFiniteSet(Unserved') /\ Cardinality(Unserved') \in Nat
  BY <1>4, FS_CardinalityType
<1>6. /\ Len(stream) \in Nat /\ Len(stream') \in Nat /\ faults \in Nat /\ faults' \in Nat
      /\ Len(stream) + Cardinality(Publishing) + Cardinality(Unserved)
           <= faults + Cardinality(Created)
  BY DEF IInv, TypeOK, Paid
<1>7. IsFiniteSet(Created') /\ IsFiniteSet(Publishing')
  BY <1>2 DEF Paid
<1>8. CASE Publishing' = Publishing /\ Len(stream') = Len(stream)
  <2>1. Cardinality(Publishing') = Cardinality(Publishing)
    BY <1>8
  <2>2. \/ Cardinality(Unserved') <= Cardinality(Unserved)
        \/ faults' = faults + 1 /\ Cardinality(Unserved') <= Cardinality(Unserved) + 1
    <3>1. Publishing # Publishing \ {w} \/ w \notin Publishing
      OBVIOUS
    <3> QED BY <1>4, <1>8, <3>1
  <2> QED BY <1>1, <1>5, <1>6, <1>7, <1>8, <2>1, <2>2 DEF Paid
<1>9. CASE /\ Publishing' = Publishing \ {w} /\ w \in Publishing
           /\ Len(stream') <= Len(stream) + 1
  <2>1. Cardinality(Publishing') = Cardinality(Publishing) - 1
    BY <1>2, <1>9
  <2>2. \/ Cardinality(Unserved') <= Cardinality(Unserved)
        \/ faults' = faults + 1 /\ Cardinality(Unserved') <= Cardinality(Unserved) + 1
        \/ Len(stream') = Len(stream) /\ Cardinality(Unserved') <= Cardinality(Unserved) + 1
    BY <1>4
  <2> QED BY <1>1, <1>5, <1>6, <1>7, <1>9, <2>1, <2>2 DEF Paid
<1> QED BY <1>8, <1>9
(* What one worker does to one row leaves every other row as well served. *)
LEMMA UnservedElsewhere ==
  ASSUME NEW w \in Worker, NEW e \in Event,
         \A d \in Event \ {e} : /\ row'[d] = row[d] /\ claim'[d] = claim[d]
                                /\ d \in leased => d \in leased',
         \A u \in Worker \ {w} : job'[u] = job[u] /\ step'[u] = step[u],
         step[w] \notin {"publish", "mark"} \/ job[w] = e
  PROVE  Unserved' \subseteq Unserved \cup {e}
<1> SUFFICES ASSUME NEW d \in Event \ {e}, d \in Unserved' PROVE d \in Unserved
  BY DEF Unserved
<1>1. \A u \in Worker : Serves(u, d) => Serves(u, d)'
  BY DEF Serves
<1> QED BY <1>1 DEF Unserved

LEMMA CreatePaid == ASSUME IInv, Paid, NEW e \in Event, Create(e) PROVE Paid'
<1>1. /\ row[e] = "absent" /\ row' = [row EXCEPT ![e] = "pending"]
      /\ UNCHANGED <<claim, leased, stream, job, step, faults>>
  BY DEF Create, workers
<1>2. e \notin Created /\ Created' = Created \cup {e} /\ Publishing' = Publishing
  BY <1>1 DEF Created, Publishing, IInv, TypeOK
<1>3. Unserved' \subseteq Unserved \cup {e}
  <2>1. ASSUME NEW u, NEW d PROVE Serves(u, d)' = Serves(u, d)
    BY <1>1 DEF Serves
  <2> QED BY <1>1, <2>1 DEF Unserved, IInv, TypeOK
<1>4. /\ IsFiniteSet(Created') /\ Cardinality(Created') = Cardinality(Created) + 1
  BY <1>2, FS_AddElement DEF Paid
<1>5. /\ IsFiniteSet(Unserved) /\ Cardinality(Created) \in Nat
      /\ Cardinality(Publishing) \in Nat /\ Cardinality(Unserved) \in Nat
  BY SizesAreNumbers
<1>6. Cardinality(Unserved') \in Nat /\ Cardinality(Unserved') <= Cardinality(Unserved) + 1
  <2>1. /\ IsFiniteSet(Unserved \cup {e})
        /\ Cardinality(Unserved \cup {e}) \in {Cardinality(Unserved), Cardinality(Unserved) + 1}
    BY <1>5, FS_AddElement
  <2>2. IsFiniteSet(Unserved') /\ Cardinality(Unserved') <= Cardinality(Unserved \cup {e})
    BY <1>3, <2>1, FS_Subset
  <2>3. Cardinality(Unserved') \in Nat
    BY <2>2, FS_CardinalityType
  <2> QED BY <1>5, <2>1, <2>2, <2>3
<1> QED BY <1>1, <1>2, <1>4, <1>5, <1>6 DEF Paid, IInv, TypeOK

LEMMA ExpirePaid == ASSUME IInv, TypeOK', Paid, NEW e \in Event, Expire(e) PROVE Paid'
<1>1. /\ leased' = leased \ {e} /\ UNCHANGED <<row, claim, stream, job, step>>
      /\ faults' = faults \/ (Working(e) /\ faults' = faults + 1)
      /\ Working(e) => faults' = faults + 1
  BY DEF Expire, Fault, workers
<1>2. Created' = Created /\ Publishing' = Publishing /\ Len(stream') = Len(stream)
  BY <1>1 DEF Created, Publishing
<1>3. Unserved' \subseteq Unserved \cup {e}
  <2>1. ASSUME NEW u \in Worker, NEW d \in Event \ {e}, Serves(u, d) PROVE Serves(u, d)'
    BY <1>1, <2>1 DEF Serves
  <2> QED BY <1>1, <2>1 DEF Unserved
<1>4. ~Working(e) => Unserved' \subseteq Unserved
  <2>1. ASSUME ~Working(e), e \in Unserved' PROVE e \in Unserved
    BY <1>1, <2>1 DEF Working, Unserved, Serves
  <2> QED BY <1>3, <2>1
<1> QED BY <1>1, <1>2, <1>3, <1>4, PaidStep

LEMMA ClaimPaid == ASSUME IInv, TypeOK', Paid, NEW w \in Worker, Claim(w) PROVE Paid'
<1>1. PICK e \in Claimable :
        /\ claim' = [claim EXCEPT ![e] = w]
        /\ leased' = leased \cup {e}
        /\ job' = [job EXCEPT ![w] = e]
        /\ step' = [step EXCEPT ![w] = IF e \in Malformed THEN "release" ELSE "publish"]
  BY DEF Claim, Goto
<1>2. /\ step[w] = "idle" /\ UNCHANGED <<row, stream, faults>>
  BY DEF Claim
<1>3. e \in Event /\ row[e] = "pending" /\ (claim[e] = None \/ e \notin leased)
  BY DEF Claimable
<1>4. e \in Unserved
  BY <1>3, WorkersAssumption DEF Unserved, Serves
<1>5. Unserved' \subseteq Unserved
  <2>1. /\ \A d \in Event \ {e} : /\ row'[d] = row[d] /\ claim'[d] = claim[d]
                                  /\ d \in leased => d \in leased'
        /\ \A u \in Worker \ {w} : job'[u] = job[u] /\ step'[u] = step[u]
    BY <1>1, <1>2 DEF IInv, TypeOK
  <2>2. Unserved' \subseteq Unserved \cup {e}
    BY <1>2, <1>3, <2>1, UnservedElsewhere
  <2> QED BY <1>4, <2>2
<1>6. Created' = Created
  BY <1>2 DEF Created
<1>7. CASE e \in Malformed
  <2>1. Publishing' = Publishing
    BY <1>1, <1>2, <1>7 DEF Publishing, IInv, TypeOK
  <2> QED BY <1>2, <1>5, <1>6, <2>1, PaidStep
<1>8. CASE e \notin Malformed
  <2>1. w \notin Publishing /\ Publishing' = Publishing \cup {w}
    BY <1>1, <1>2, <1>8 DEF Publishing, IInv, TypeOK
  <2>2. e \notin Unserved'
    <3>1. Serves(w, e)'
      BY <1>1, <1>3, <1>8 DEF Serves, IInv, TypeOK
    <3> QED BY <3>1 DEF Unserved
  <2>3. /\ IsFiniteSet(Unserved) /\ Cardinality(Created) \in Nat
        /\ Cardinality(Publishing) \in Nat /\ Cardinality(Unserved) \in Nat
    BY SizesAreNumbers
  <2>4. /\ IsFiniteSet(Publishing')
        /\ Cardinality(Publishing') = Cardinality(Publishing) + 1
    BY <2>1, FS_AddElement DEF Paid
  <2>5. /\ IsFiniteSet(Unserved \ {e})
        /\ Cardinality(Unserved \ {e}) = Cardinality(Unserved) - 1
    BY <1>4, <2>3, FS_RemoveElement
  <2>6. IsFiniteSet(Unserved') /\ Cardinality(Unserved') <= Cardinality(Unserved \ {e})
    BY <1>5, <2>2, <2>5, FS_Subset
  <2>7. Cardinality(Unserved') \in Nat
    BY <2>6, FS_CardinalityType
  <2> QED BY <1>2, <1>6, <2>3, <2>4, <2>5, <2>6, <2>7 DEF Paid, IInv, TypeOK
<1> QED BY <1>7, <1>8

(* A worker's step that touches neither the rows nor another worker. *)
LEMMA StepPaid ==
  ASSUME IInv, TypeOK', Paid, NEW w \in Worker,
         Publish(w) \/ PublishFails(w) \/ MarkFails(w) \/ Crash(w)
  PROVE  Paid'
<1>0. PICK e \in Event : e = job[w]
  BY DEF Publish, PublishFails, MarkFails, Crash, IInv, StepsAgree
<1>1. /\ UNCHANGED <<row, claim, leased>>
      /\ \A u \in Worker \ {w} : job'[u] = job[u] /\ step'[u] = step[u]
  BY DEF Publish, PublishFails, MarkFails, Crash, Rest, Goto, rows, IInv, TypeOK
<1>2. Created' = Created /\ Unserved' \subseteq Unserved \cup {e}
  <2>1. Created' = Created
    BY <1>1 DEF Created
  <2> QED BY <1>0, <1>1, <2>1, UnservedElsewhere
<1>3. Len(stream) \in Nat /\ faults \in Nat
  BY DEF IInv, TypeOK
<1>4. CASE Publish(w)
  <2>1. w \in Publishing /\ Publishing' = Publishing \ {w}
    BY <1>4 DEF Publish, Publishing, Goto, IInv, TypeOK
  <2>2. Len(stream') = Len(stream) + 1
    BY <1>0, <1>4 DEF Publish, IInv, TypeOK
  <2>3. CASE Goto(w, "mark") /\ UNCHANGED faults
    <3>1. \A u \in Worker, d \in Event : Serves(u, d) => Serves(u, d)'
      BY <1>1, <1>4, <2>3 DEF Publish, Goto, Serves, IInv, TypeOK
    <3>2. Unserved' \subseteq Unserved
      BY <1>1, <3>1 DEF Unserved
    <3> QED BY <1>2, <1>3, <2>1, <2>2, <2>3, <3>2, PaidStep
  <2>4. CASE Fault
    BY <1>2, <1>3, <2>1, <2>2, <2>4, PaidStep DEF Fault
  <2> QED BY <1>4, <2>3, <2>4 DEF Publish
<1>5. CASE PublishFails(w) \/ (Crash(w) /\ step[w] = "publish")
  <2>1. /\ w \in Publishing /\ Publishing' = Publishing \ {w}
        /\ Len(stream') = Len(stream) /\ faults' = faults + 1
    BY <1>5 DEF PublishFails, Crash, Rest, Publishing, Goto, Fault, IInv, TypeOK
  <2>2. Len(stream') <= Len(stream) + 1
    BY <1>3, <2>1
  <2> QED BY <1>2, <2>1, <2>2, PaidStep
<1>6. CASE MarkFails(w) \/ (Crash(w) /\ step[w] # "publish")
  <2>1. /\ Publishing' = Publishing
        /\ Len(stream') = Len(stream) /\ faults' = faults + 1
    BY <1>6 DEF MarkFails, Crash, Rest, Publishing, Goto, Fault, IInv, TypeOK
  <2> QED BY <1>2, <2>1, PaidStep
<1> QED BY <1>4, <1>5, <1>6

(* Recording a delivery, or giving back what one holds, takes nobody's place. *)
LEMMA EndPaid ==
  ASSUME IInv, TypeOK', Paid, NEW w \in Worker, Mark(w) \/ Release(w)
  PROVE  Paid'
<1>0. PICK e \in Event : e = job[w]
  BY DEF Mark, Release, IInv, StepsAgree
<1>1. /\ stream' = stream
      /\ step[w] \in {"mark", "release"} /\ step'[w] \in {"idle", "release"}
      /\ step[w] = "mark" => Mark(w)
      /\ faults' \in {faults, faults + 1}
      /\ \A u \in Worker \ {w} : job'[u] = job[u] /\ step'[u] = step[u]
  BY DEF Mark, Release, Rest, Goto, Fault, IInv, TypeOK
<1>2. /\ \A d \in Event \ {e} : row'[d] = row[d] /\ claim'[d] = claim[d]
      /\ \A d \in Event \ {e} : d \in leased => d \in leased'
      /\ ~Owns(w) => UNCHANGED <<row, claim, leased>>
      /\ Owns(w) => row[e] = "pending" /\ claim[e] = w
      /\ row'[e] = row[e] \/ (row'[e] = "delivered" /\ row[e] = "pending")
      /\ Mark(w) /\ Owns(w) => row'[e] = "delivered"
  BY <1>0, <1>1 DEF Mark, Release, EndClaim, Owns, IInv, TypeOK
<1>3. Created' = Created
  BY <1>1, <1>2 DEF Created
<1>4. Publishing' = Publishing
  BY <1>1 DEF Publishing
<1>5. Unserved' \subseteq Unserved
  <2>1. Unserved' \subseteq Unserved \cup {e}
    BY <1>0, <1>1, <1>2, UnservedElsewhere
  <2>2. ASSUME e \in Unserved' PROVE e \in Unserved
    <3>1. row'[e] = "pending" /\ row[e] = "pending"
      BY <1>2, <2>2 DEF Unserved
    <3>2. ~Serves(w, e)
      BY <1>0, <1>1, <1>2, <3>1 DEF Serves, Owns
    <3>3. ASSUME NEW u \in Worker \ {w}, Serves(u, e) PROVE Serves(u, e)'
      <4>1. ~Owns(w)
        BY <1>0, <3>3 DEF Serves, Owns
      <4> QED BY <1>1, <1>2, <3>3, <4>1 DEF Serves
    <3> QED BY <2>2, <3>1, <3>2, <3>3 DEF Unserved
  <2> QED BY <2>1, <2>2
<1> QED BY <1>1, <1>3, <1>4, <1>5, PaidStep

LEMMA PaidNext == IInv /\ Paid /\ [Next]_vars => Paid'
<1> SUFFICES ASSUME IInv, Paid, [Next]_vars PROVE Paid'
  OBVIOUS
<1>1. TypeOK'
  BY NextInv DEF IInv
<1>2. CASE UNCHANGED vars
  <2>1. UNCHANGED <<Created, Publishing, Unserved, stream, faults>>
    BY <1>2 DEF vars, rows, workers, Created, Publishing, Unserved, Serves
  <2> QED BY <2>1 DEF Paid
<1> QED BY <1>1, <1>2, CreatePaid, ExpirePaid, ClaimPaid, StepPaid, EndPaid DEF Next, Work

LEMMA PaidInit == Init => Paid
<1> SUFFICES ASSUME Init PROVE Paid
  OBVIOUS
<1>1. Created = {} /\ Publishing = {} /\ Unserved = {} /\ Len(stream) = 0 /\ faults = 0
  BY DEF Init, Created, Publishing, Unserved
<1> QED BY <1>1, FS_EmptySet DEF Paid

(* Rows without an entry are about to get one, or unserved. *)
LEMMA PaidIsEnough == IInv /\ Paid => DuplicatesNeedFaults
<1> SUFFICES ASSUME IInv, Paid PROVE DuplicatesNeedFaults
  OBVIOUS
<1> DEFINE Jobs == {job[w] : w \in Publishing}
           JobOf == [w \in Publishing |-> job[w]]
           EntryAt == [i \in 1 .. Len(stream) |-> stream[i]]
<1>1. Created \subseteq (Streamed \cup Jobs) \cup Unserved
  <2> SUFFICES ASSUME NEW e \in Created, e \notin Streamed, e \notin Unserved PROVE e \in Jobs
    OBVIOUS
  <2>1. row[e] = "pending"
    BY DEF Created, IInv, TypeOK, DeliveredWasPublished
  <2>2. PICK w \in Worker : Serves(w, e)
    BY <2>1 DEF Unserved, Created
  <2>3. step[w] = "publish"
    BY <2>2 DEF Serves, IInv, StepsAgree
  <2> QED BY <2>2, <2>3 DEF Serves, Publishing
<1>2. /\ IsFiniteSet(Unserved) /\ Cardinality(Created) \in Nat
      /\ Cardinality(Publishing) \in Nat /\ Cardinality(Unserved) \in Nat
  BY SizesAreNumbers
<1>3. /\ IsFiniteSet(Jobs) /\ Cardinality(Jobs) <= Cardinality(Publishing)
      /\ Cardinality(Jobs) \in Nat
  <2>1. JobOf \in Surjection(Publishing, Jobs)
    BY DEF Surjection
  <2> QED BY <2>1, FS_Surjection, FS_CardinalityType DEF Paid
<1>4. IsFiniteSet(Streamed) /\ Cardinality(Streamed) \in Nat
  <2>1. Len(stream) \in Nat /\ DOMAIN stream = 1 .. Len(stream)
    BY DEF IInv, TypeOK
  <2>2. EntryAt \in Surjection(1 .. Len(stream), Streamed)
    BY <2>1 DEF Surjection, Streamed
  <2>3. IsFiniteSet(1 .. Len(stream))
    BY <2>1, FS_Interval
  <2> QED BY <2>2, <2>3, FS_Surjection, FS_CardinalityType
<1>5. /\ IsFiniteSet(Streamed \cup Jobs) /\ Cardinality(Streamed \cup Jobs) \in Nat
      /\ Cardinality(Streamed \cup Jobs) <= Cardinality(Streamed) + Cardinality(Jobs)
  <2> HIDE DEF Jobs
  <2>1. /\ IsFiniteSet(Streamed \cup Jobs) /\ IsFiniteSet(Streamed \cap Jobs)
        /\ Cardinality(Streamed \cup Jobs)
             = Cardinality(Streamed) + Cardinality(Jobs) - Cardinality(Streamed \cap Jobs)
    BY <1>3, <1>4, FS_Union, FS_Intersection
  <2>2. Cardinality(Streamed \cup Jobs) \in Nat /\ Cardinality(Streamed \cap Jobs) \in Nat
    BY <2>1, FS_CardinalityType
  <2> QED BY <1>3, <1>4, <2>1, <2>2
<1>6. /\ IsFiniteSet((Streamed \cup Jobs) \cup Unserved)
      /\ Cardinality((Streamed \cup Jobs) \cup Unserved)
           <= Cardinality(Streamed \cup Jobs) + Cardinality(Unserved)
      /\ Cardinality((Streamed \cup Jobs) \cup Unserved) \in Nat
  <2> HIDE DEF Jobs
  <2> DEFINE Both == Streamed \cup Jobs
  <2> HIDE DEF Both
  <2>0. IsFiniteSet(Both) /\ Cardinality(Both) \in Nat
    BY <1>5 DEF Both
  <2>1. /\ IsFiniteSet(Both \cup Unserved) /\ IsFiniteSet(Both \cap Unserved)
        /\ Cardinality(Both \cup Unserved)
             = Cardinality(Both) + Cardinality(Unserved) - Cardinality(Both \cap Unserved)
    BY <1>2, <2>0, FS_Union, FS_Intersection
  <2>2. Cardinality(Both \cup Unserved) \in Nat /\ Cardinality(Both \cap Unserved) \in Nat
    BY <2>1, FS_CardinalityType
  <2>3. Cardinality(Both \cup Unserved) <= Cardinality(Both) + Cardinality(Unserved)
    BY <1>2, <2>0, <2>1, <2>2
  <2> QED BY <2>1, <2>2, <2>3 DEF Both
<1>7. Cardinality(Created) <= Cardinality((Streamed \cup Jobs) \cup Unserved)
  <2> HIDE DEF Jobs
  <2> QED BY <1>1, <1>6, FS_Subset
<1> HIDE DEF Jobs
<1>8. /\ Len(stream) \in Nat /\ faults \in Nat
      /\ Len(stream) + Cardinality(Publishing) + Cardinality(Unserved)
           <= faults + Cardinality(Created)
  BY DEF Paid, IInv, TypeOK
<1> QED BY <1>2, <1>3, <1>4, <1>5, <1>6, <1>7, <1>8 DEF DuplicatesNeedFaults

(* Every duplicate entry of the stream is paid for by a failure, a stall or a  *)
(* crash, whatever the workers, the rows and the order of their steps: without *)
(* a fault an event is published once.                                         *)
THEOREM DuplicatesArePaid == Spec => []DuplicatesNeedFaults
<1>1. Init => Paid
  BY PaidInit
<1>2. IInv /\ Paid /\ [Next]_vars => Paid'
  BY PaidNext
<1>3. IInv /\ Paid => DuplicatesNeedFaults
  BY PaidIsEnough
<1> QED BY <1>1, <1>2, <1>3, Inductive, PTL DEF Spec
=============================================================================
