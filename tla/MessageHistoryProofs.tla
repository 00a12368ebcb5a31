------------------------ MODULE MessageHistoryProofs ------------------------
(***************************************************************************)
(* Theorems about MessageHistory, for any number of walks, any page limit  *)
(* and any number of messages.                                             *)
(***************************************************************************)
EXTENDS MessageHistory, TLAPS

(* Where a walk is. *)
WalkAt(w) ==
  /\ w \in Up => /\ status[w] = "walking"
                    => /\ start[w] <= cursor[w]
                       /\ cursor[w] <= length \/ cursor[w] = start[w]
                       /\ seen[w] = start[w] + 1 .. cursor[w]
                 /\ status[w] = "done" => \E n \in 0 .. length : seen[w] = start[w] + 1 .. n
  /\ w \in Down => /\ start[w] <= length
                   /\ status[w] = "walking" /\ cursor[w] = 0 => seen[w] = {}
                   /\ status[w] = "walking" /\ cursor[w] # 0
                      => cursor[w] <= start[w] /\ seen[w] = cursor[w] .. start[w]
                   /\ status[w] = "done" => seen[w] = 1 .. start[w]

IInv == TypeOK /\ \A w \in Walk : WalkAt(w)

(* The rows a read selects upwards and downwards, and the page it keeps. *)
LEMMA UpPage ==
  ASSUME TypeOK, NEW w \in Up
  PROVE  /\ First(w) \in Nat /\ Final(w) \in Nat
         /\ HasMore(w) => /\ First(w) = cursor[w] + 1 /\ Final(w) = cursor[w] + Limit
                          /\ Final(w) < length
         /\ ~HasMore(w) /\ cursor[w] <= length
            => First(w) = cursor[w] + 1 /\ Final(w) = length
         /\ ~HasMore(w) /\ cursor[w] > length => First(w) = length + 1 /\ Final(w) = length
<1>1. cursor[w] \in Nat /\ length \in Nat /\ Limit \in Nat \ {0} /\ w \notin Down
  BY LimitAssumption, WalksAssumption DEF TypeOK, Walk
<1> QED BY <1>1 DEF First, Final, HasMore, Rows, Least

LEMMA DownPage ==
  ASSUME TypeOK, NEW w \in Down, cursor[w] <= length
  PROVE  LET top == IF cursor[w] = 0 THEN length ELSE cursor[w] - 1
         IN  /\ First(w) \in Nat \ {0} /\ Final(w) = top
             /\ HasMore(w) => First(w) = top - Limit + 1 /\ First(w) <= top /\ First(w) # 1
             /\ ~HasMore(w) => First(w) = 1
<1>1. cursor[w] \in Nat /\ length \in Nat /\ Limit \in Nat \ {0} /\ w \notin Up
  BY LimitAssumption, WalksAssumption DEF TypeOK, Walk
<1> QED BY <1>1 DEF First, Final, HasMore, Rows, Least, Most

LEMMA InitInv == Init => IInv
<1> SUFFICES ASSUME Init PROVE IInv
  OBVIOUS
<1>1. TypeOK
  BY LimitAssumption DEF Init, TypeOK
<1>2. ASSUME NEW w \in Walk PROVE WalkAt(w)
  BY <1>1, <1>2 DEF Init, TypeOK, WalkAt, Walk
<1> QED BY <1>1, <1>2 DEF IInv

(* A read changes its walk only. *)
LEMMA OtherWalks ==
  ASSUME IInv, NEW w \in Walk, Read(w), NEW u \in Walk, u # w
  PROVE  WalkAt(u)'
<1>1. /\ status'[u] = status[u] /\ cursor'[u] = cursor[u]
      /\ start'[u] = start[u] /\ seen'[u] = seen[u] /\ length' = length
  BY DEF Read, IInv, TypeOK
<1> QED BY <1>1 DEF IInv, WalkAt

LEMMA ReadType ==
  ASSUME IInv, NEW w \in Walk, Read(w)
  PROVE  TypeOK'
<1>1. First(w) \in Nat /\ Final(w) \in Nat
  <2>1. CASE w \in Up
    BY <2>1, UpPage DEF IInv
  <2>2. CASE w \in Down
    <3>1. cursor[w] <= length /\ cursor[w] \in Nat /\ length \in Nat
      BY <2>2 DEF Read, IInv, WalkAt, TypeOK
    <3>2. First(w) \in Nat /\ Final(w) = IF cursor[w] = 0 THEN length ELSE cursor[w] - 1
      BY <2>2, <3>1, DownPage DEF IInv
    <3> QED BY <3>1, <3>2
  <2> QED BY <2>1, <2>2 DEF Walk
<1>2. Page(w) \in SUBSET Nat
  BY <1>1 DEF Page
<1>3. length' = length /\ rights' = rights
  BY DEF Read
<1> QED BY <1>1, <1>2, <1>3 DEF Read, IInv, TypeOK, rights

LEMMA ReadInv == ASSUME IInv, NEW w \in Walk, Read(w) PROVE IInv'
<1>1. TypeOK'
  BY ReadType
<1>2. WalkAt(w)'
  <2>0. /\ length' = length /\ length \in Nat /\ Limit \in Nat \ {0}
        /\ cursor[w] \in Nat /\ start[w] \in Nat /\ seen[w] \in SUBSET Nat
        /\ status[w] = "walking"
    BY LimitAssumption DEF Read, IInv, TypeOK
  <2>1. CASE ~(active /\ member)
    <3>1. status'[w] = "refused" /\ start'[w] = start[w]
      BY <2>1 DEF Read, IInv, TypeOK
    <3> QED BY <2>0, <3>1 DEF WalkAt, IInv
  <2>2. CASE active /\ member
    <3>1. /\ seen'[w] = seen[w] \cup (First(w) .. Final(w))
          /\ status'[w] = IF HasMore(w) THEN "walking" ELSE "done"
          /\ cursor'[w] = IF ~HasMore(w) THEN cursor[w]
                          ELSE IF w \in Up THEN Final(w) ELSE First(w)
          /\ start'[w] = IF w \in Down /\ cursor[w] = 0 THEN length ELSE start[w]
      BY <2>2 DEF Read, Page, IInv, TypeOK
    <3>2. CASE w \in Up
      <4>1. w \notin Down /\ start'[w] = start[w]
        BY <3>1, <3>2, WalksAssumption
      <4>2. /\ start[w] <= cursor[w]
            /\ cursor[w] <= length \/ cursor[w] = start[w]
            /\ seen[w] = start[w] + 1 .. cursor[w]
        BY <2>0, <3>2 DEF IInv, WalkAt
      <4>3. CASE HasMore(w)
        <5>1. First(w) = cursor[w] + 1 /\ Final(w) = cursor[w] + Limit /\ Final(w) < length
          BY <3>2, <4>3, UpPage DEF IInv
        <5>2. seen'[w] = start[w] + 1 .. cursor[w] + Limit
          BY <2>0, <3>1, <4>2, <5>1
        <5> QED BY <2>0, <3>1, <4>1, <4>2, <4>3, <5>1, <5>2 DEF WalkAt
      <4>4. CASE ~HasMore(w)
        <5>1. CASE cursor[w] <= length
          <6>1. First(w) = cursor[w] + 1 /\ Final(w) = length
            BY <3>2, <4>4, <5>1, UpPage DEF IInv
          <6>2. seen'[w] = start[w] + 1 .. length
            BY <2>0, <3>1, <4>2, <5>1, <6>1
          <6>3. length \in 0 .. length
            BY <2>0
          <6> QED BY <2>0, <3>1, <4>1, <4>4, <6>2, <6>3 DEF WalkAt
        <5>2. CASE cursor[w] > length
          <6>1. First(w) = length + 1 /\ Final(w) = length
            BY <3>2, <4>4, <5>2, UpPage DEF IInv
          <6>2. seen'[w] = start[w] + 1 .. 0
            BY <2>0, <3>1, <4>2, <5>2, <6>1
          <6>3. 0 \in 0 .. length
            BY <2>0
          <6> QED BY <2>0, <3>1, <4>1, <4>4, <6>2, <6>3 DEF WalkAt
        <5> QED BY <2>0, <5>1, <5>2
      <4> QED BY <4>3, <4>4
    <3>3. CASE w \in Down
      <4> DEFINE top == IF cursor[w] = 0 THEN length ELSE cursor[w] - 1
                 from == IF cursor[w] = 0 THEN length ELSE start[w]
      <4>1. w \notin Up /\ start'[w] = from
        BY <3>1, <3>3, WalksAssumption
      <4>2. /\ start[w] <= length
            /\ cursor[w] = 0 => seen[w] = {}
            /\ cursor[w] # 0 => cursor[w] <= start[w] /\ seen[w] = cursor[w] .. start[w]
        BY <2>0, <3>3 DEF IInv, WalkAt
      <4>3. cursor[w] <= length
        BY <2>0, <4>2
      <4>4. /\ First(w) \in Nat \ {0} /\ Final(w) = top
            /\ HasMore(w) => First(w) = top - Limit + 1 /\ First(w) <= top /\ First(w) # 1
            /\ ~HasMore(w) => First(w) = 1
        BY <3>3, <4>3, DownPage DEF IInv
      <4>5. /\ seen'[w] = First(w) .. from /\ from <= length
            /\ HasMore(w) => First(w) <= from
        BY <2>0, <3>1, <4>2, <4>4
      <4> HIDE DEF from, top
      <4> QED BY <2>0, <3>1, <4>1, <4>4, <4>5 DEF WalkAt
    <3> QED BY <3>2, <3>3 DEF Walk
  <2> QED BY <2>1, <2>2
<1> QED BY <1>1, <1>2, OtherWalks DEF IInv

LEMMA NextInv == IInv /\ [Next]_vars => IInv'
<1> SUFFICES ASSUME IInv, [Next]_vars PROVE IInv'
  OBVIOUS
<1>1. CASE Write
  <2>1. TypeOK'
    BY <1>1 DEF Write, IInv, TypeOK, rights, walks
  <2>2. ASSUME NEW w \in Walk PROVE WalkAt(w)'
    <3>1. /\ WalkAt(w) /\ length \in Nat /\ length' = length + 1
          /\ cursor[w] \in Nat /\ start[w] \in Nat
          /\ UNCHANGED <<cursor, status, start, seen>>
      BY <1>1, <2>2 DEF Write, IInv, TypeOK, walks
    <3>2. \A n \in 0 .. length : n \in 0 .. length'
      BY <3>1
    <3> QED BY <3>1, <3>2 DEF WalkAt
  <2> QED BY <2>1, <2>2 DEF IInv
<1>2. CASE Deactivate \/ Leave \/ Join \/ UNCHANGED vars
  <2>1. /\ UNCHANGED <<length, cursor, status, start, seen>>
        /\ changes' \in Nat /\ active' \in BOOLEAN /\ member' \in BOOLEAN
    <3>1. UNCHANGED <<length, cursor, status, start, seen>>
      BY <1>2 DEF Deactivate, Leave, Join, vars, walks
    <3>2. changes' \in Nat
      <4>1. changes \in Nat
        BY DEF IInv, TypeOK
      <4>2. changes' \in {changes, changes + 1}
        BY <1>2 DEF Deactivate, Leave, Join, Change, vars, rights
      <4> QED BY <4>1, <4>2
    <3>3. active' \in BOOLEAN /\ member' \in BOOLEAN
      BY <1>2, Zenon DEF Deactivate, Leave, Join, IInv, TypeOK, vars, rights
    <3> QED BY <3>1, <3>2, <3>3
  <2>2. periods' \in SUBSET [after: Nat, upto: Nat, open: BOOLEAN]
    <3> DEFINE Period == [after: Nat, upto: Nat, open: BOOLEAN]
    <3>0. periods \in SUBSET Period /\ length \in Nat
      BY DEF IInv, TypeOK
    <3>1. CASE Leave
      <4>1. ASSUME NEW p \in periods
            PROVE  (IF p.open THEN [p EXCEPT !.open = FALSE, !.upto = length] ELSE p) \in Period
        BY <3>0, <4>1
      <4> QED BY <3>1, <4>1 DEF Leave
    <3>2. CASE Join
      <4>1. [after |-> length, upto |-> 0, open |-> TRUE] \in Period
        BY <3>0
      <4> QED BY <3>0, <3>2, <4>1 DEF Join
    <3>3. CASE Deactivate \/ UNCHANGED vars
      BY <3>0, <3>3 DEF Deactivate, vars, rights
    <3> QED BY <1>2, <3>1, <3>2, <3>3
  <2>3. TypeOK'
    BY <2>1, <2>2 DEF IInv, TypeOK
  <2>4. ASSUME NEW w \in Walk PROVE WalkAt(w)'
    BY <2>1, <2>4 DEF IInv, WalkAt
  <2> QED BY <2>3, <2>4 DEF IInv
<1> QED BY <1>1, <1>2, ReadInv DEF Next

(* The strengthening that is inductive holds in every reachable state: every  *)
(* walk has been given exactly what lies between its start and its cursor.     *)
THEOREM Inductive == Spec => []IInv
BY InitInv, NextInv, PTL DEF Spec

(* Every reachable state is well typed. *)
THEOREM TypeCorrect == Spec => []TypeOK
<1>1. IInv => TypeOK
  BY DEF IInv
<1> QED BY <1>1, Inductive, PTL

(* A client that follows the cursors of the history pages misses nothing of  *)
(* the range it walks, whatever the page limit and however many messages are  *)
(* written between its reads.                                                 *)
THEOREM NothingLeftOut == Spec => []WalksLeaveNothingOut
<1>1. IInv => WalksLeaveNothingOut
  BY DEF IInv, WalkAt, WalksLeaveNothingOut, Walk
<1> QED BY <1>1, Inductive, PTL

(* No walk is given a message twice, and a walk upwards ends only once it has *)
(* been given the last message there is.                                      *)
THEOREM EndAtTheEnd == Spec => WalksEndAtTheEnd
<1> DEFINE Ends(w) ==
             status[w] = "walking" /\ status'[w] # "refused" /\ walks' # walks
             => /\ seen'[w] # seen[w] => Page(w) \cap seen[w] = {}
                /\ (w \in Up /\ status'[w] = "done" /\ start[w] < length)
                   => length \in seen'[w]
<1>1. IInv /\ [Next]_vars => [\A w \in Walk : Ends(w)]_vars
  <2> SUFFICES ASSUME IInv, [Next]_vars, NEW w \in Walk, walks' # walks,
                      status[w] = "walking", status'[w] # "refused"
               PROVE  Ends(w)
    OBVIOUS
  <2>1. PICK u \in Walk : Read(u)
    BY DEF Next, Write, Deactivate, Leave, Join, vars
  <2>2. CASE u # w
    BY <2>1, <2>2 DEF Read, IInv, TypeOK
  <2>3. CASE u = w
    <3>0. /\ length \in Nat /\ Limit \in Nat \ {0} /\ cursor[w] \in Nat /\ start[w] \in Nat
          /\ seen'[w] = seen[w] \cup (First(w) .. Final(w))
          /\ status'[w] = IF HasMore(w) THEN "walking" ELSE "done"
      BY <2>1, <2>3, LimitAssumption DEF Read, Page, IInv, TypeOK
    <3>1. CASE w \in Up
      <4>1. /\ start[w] <= cursor[w] /\ seen[w] = start[w] + 1 .. cursor[w]
            /\ cursor[w] <= length \/ cursor[w] = start[w]
        BY <3>1 DEF IInv, WalkAt
      <4>2. /\ First(w) \in Nat /\ Final(w) \in Nat
            /\ cursor[w] <= length => First(w) = cursor[w] + 1
            /\ cursor[w] > length => First(w) = length + 1 /\ Final(w) = length
        BY <3>0, <3>1, UpPage DEF IInv
      <4>3. (First(w) .. Final(w)) \cap seen[w] = {}
        BY <3>0, <4>1, <4>2
      <4>4. ASSUME ~HasMore(w), start[w] < length PROVE length \in seen'[w]
        <5>1. cursor[w] <= length
          BY <3>0, <4>1, <4>4
        <5>2. First(w) = cursor[w] + 1 /\ Final(w) = length
          BY <3>1, <4>4, <5>1, UpPage DEF IInv
        <5> QED BY <3>0, <4>1, <4>4, <5>1, <5>2
      <4> QED BY <3>0, <4>3, <4>4 DEF Page
    <3>2. CASE w \in Down
      <4>1. /\ start[w] <= length
            /\ cursor[w] = 0 => seen[w] = {}
            /\ cursor[w] # 0 => cursor[w] <= start[w] /\ seen[w] = cursor[w] .. start[w]
        BY <3>2 DEF IInv, WalkAt
      <4>2. Final(w) = IF cursor[w] = 0 THEN length ELSE cursor[w] - 1
        <5>1. cursor[w] <= length
          BY <3>0, <4>1
        <5> QED BY <3>2, <5>1, DownPage DEF IInv
      <4>3. First(w) \in Nat
        <5>1. cursor[w] <= length
          BY <3>0, <4>1
        <5> QED BY <3>2, <5>1, DownPage DEF IInv
      <4>4. (First(w) .. Final(w)) \cap seen[w] = {}
        BY <3>0, <4>1, <4>2, <4>3
      <4> QED BY <3>2, <4>4, WalksAssumption DEF Page
    <3> QED BY <3>1, <3>2 DEF Walk
  <2> QED BY <2>2, <2>3
<1> QED BY <1>1, Inductive, PTL DEF Spec, WalksEndAtTheEnd
=============================================================================
