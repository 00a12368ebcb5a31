--------------------------- MODULE MessageHistory ---------------------------
(***************************************************************************)
(* Reading the history of one chat page by page, as one account: clients   *)
(* follow nextAfterSequence upwards or nextBeforeSequence downwards, while *)
(* messages are added and the account leaves and joins the chat.           *)
(*                                                                         *)
(* A read is one REPEATABLE READ transaction: authorization and rows come  *)
(* from one snapshot, so a read is one action. The messages of the chat    *)
(* are the sequences 1 .. length (module MessageWrite).                    *)
(* Definitions named X_<change> are mutants: X with one plausible mistake. *)
(***************************************************************************)
EXTENDS Integers, FiniteSets

CONSTANTS
  Up,          \* walks that follow nextAfterSequence
  Down,        \* walks that follow nextBeforeSequence from the newest page
  Limit,       \* items of a page
  MaxLength,   \* bound on messages
  MaxChanges   \* bound on changes of the account's rights

Walk == Up \cup Down

ASSUME WalksAssumption == Up \cap Down = {}
ASSUME LimitAssumption == Limit \in Nat \ {0} /\ MaxLength \in Nat /\ MaxChanges \in Nat

VARIABLES
  length,    \* messages of the chat
  active,    \* the account is active
  member,    \* its membership of the chat is active
  periods,   \* its rows of chat_membership_periods
  changes,   \* changes of its rights so far
  cursor,    \* the cursor of each walk's next read; 0 downwards: the newest page
  status,    \* "walking", "done" when a page said there is no next, or "refused"
  start,     \* the sequence after which, or up to which, each walk covers the chat
  seen       \* the sequences each walk was given

rights == <<active, member, periods, changes>>
walks == <<cursor, status, start, seen>>
vars == <<length, rights, walks>>

Least(m, n) == IF m < n THEN m ELSE n
Most(m, n) == IF m > n THEN m ELSE n

-----------------------------------------------------------------------------
(* The rows low + 1 .. high a read selects: LIMIT is one more than the page. *)
Rows_PageOnly(w) ==
  IF w \in Up
  THEN [low |-> cursor[w], high |-> Least(length, cursor[w] + Limit)]
  ELSE LET top == IF cursor[w] = 0 THEN length ELSE Least(length, cursor[w] - 1)
       IN  [low |-> Most(0, top - Limit), high |-> top]

Rows_CursorIncluded(w) ==
  IF w \in Up
  THEN [low |-> Most(0, cursor[w] - 1), high |-> Least(length, cursor[w] + Limit)]
  ELSE LET top == IF cursor[w] = 0 THEN length ELSE Least(length, cursor[w])
       IN  [low |-> Most(0, top - (Limit + 1)), high |-> top]

Rows(w) ==
  IF w \in Up
  THEN [low |-> Least(cursor[w], length), high |-> Least(length, cursor[w] + Limit + 1)]
  ELSE LET top == IF cursor[w] = 0 THEN length ELSE Least(length, cursor[w] - 1)
       IN  [low |-> Most(0, top - (Limit + 1)), high |-> top]

HasMore(w) == Rows(w).high - Rows(w).low > Limit

(* The page leaves the additional row out. *)
First(w) == IF w \in Down /\ HasMore(w) THEN Rows(w).low + 2 ELSE Rows(w).low + 1
Final(w) == IF w \in Up /\ HasMore(w) THEN Rows(w).high - 1 ELSE Rows(w).high
Page(w) == First(w) .. Final(w)

(* readMessageHistory, and the cursor the next read of the walk uses. *)
Read(w) ==
  /\ status[w] = "walking"
  /\ IF active /\ member
     THEN /\ seen' = [seen EXCEPT ![w] = @ \cup Page(w)]
          /\ status' = [status EXCEPT ![w] = IF HasMore(w) THEN "walking" ELSE "done"]
          /\ cursor' = [cursor EXCEPT ![w] = IF ~HasMore(w) THEN @
                                             ELSE IF w \in Up THEN Final(w) ELSE First(w)]
          /\ start' = IF w \in Down /\ cursor[w] = 0 THEN [start EXCEPT ![w] = length]
                      ELSE start
     ELSE /\ status' = [status EXCEPT ![w] = "refused"]
          /\ UNCHANGED <<cursor, start, seen>>
  /\ UNCHANGED <<length, rights>>

(* A message of the chat commits. *)
Write ==
  /\ length < MaxLength /\ length' = length + 1
  /\ UNCHANGED <<rights, walks>>

Change == changes < MaxChanges /\ changes' = changes + 1

Deactivate ==
  /\ Change
  /\ active' = FALSE
  /\ UNCHANGED <<length, member, periods, walks>>

(* track_chat_membership_period: the boundary is the last sequence so far. *)
Leave ==
  /\ Change
  /\ member /\ member' = FALSE
  /\ periods' = {IF p.open THEN [p EXCEPT !.open = FALSE, !.upto = length] ELSE p :
                   p \in periods}
  /\ UNCHANGED <<length, active, walks>>

Join ==
  /\ Change
  /\ ~member /\ member' = TRUE
  /\ periods' = periods \cup {[after |-> length, upto |-> 0, open |-> TRUE]}
  /\ UNCHANGED <<length, active, walks>>

-----------------------------------------------------------------------------
Init ==
  /\ length \in 0 .. MaxLength
  /\ active = TRUE /\ member = TRUE /\ changes = 0
  /\ periods = {[after |-> 0, upto |-> 0, open |-> TRUE]}
  /\ start \in [Walk -> 0 .. 1] /\ \A w \in Down : start[w] = 0
  /\ cursor = start
  /\ status = [w \in Walk |-> "walking"]
  /\ seen = [w \in Walk |-> {}]

Next == (\E w \in Walk : Read(w)) \/ Write \/ Deactivate \/ Leave \/ Join

Spec == Init /\ [][Next]_vars

-----------------------------------------------------------------------------
TypeOK ==
  /\ length \in Nat /\ active \in BOOLEAN /\ member \in BOOLEAN
  /\ periods \in SUBSET [after: Nat, upto: Nat, open: BOOLEAN]
  /\ changes \in Nat
  /\ cursor \in [Walk -> Nat] /\ start \in [Walk -> Nat]
  /\ status \in [Walk -> {"walking", "done", "refused"}]
  /\ seen \in [Walk -> SUBSET Nat]

(* What a walk has been given is one stretch of the chat, from where it began  *)
(* to its cursor, however many messages were added between its pages; when a  *)
(* page says that there is no next one, nothing of the walk's range is missing: *)
(* down to the first message, or up to whatever was there at the last read.   *)
WalksLeaveNothingOut ==
  /\ \A w \in Up : /\ status[w] = "walking" => seen[w] = start[w] + 1 .. cursor[w]
                   /\ status[w] = "done" => \E n \in 0 .. length : seen[w] = start[w] + 1 .. n
  /\ \A w \in Down : /\ status[w] = "walking" /\ cursor[w] # 0
                        => seen[w] = cursor[w] .. start[w]
                     /\ status[w] = "done" => seen[w] = 1 .. start[w]

(* An upward walk ends only at the last message there is, and no walk is given *)
(* a message twice.                                                           *)
WalksEndAtTheEnd ==
  [][\A w \in Walk :
       status[w] = "walking" /\ status'[w] # "refused" /\ walks' # walks
       => /\ seen'[w] # seen[w] => Page(w) \cap seen[w] = {}
          /\ (w \in Up /\ status'[w] = "done" /\ start[w] < length) => length \in seen'[w]]_vars

(* "Filtered through active account, current membership, and membership-period *)
(* checks": the account is given only messages of the times it was a member.   *)
ReadsStayInPeriods ==
  \A w \in Walk : \A n \in seen[w] :
    \E p \in periods : p.after < n /\ (p.open \/ n <= p.upto)
=============================================================================
