------------------------ MODULE AuthRepositoryProofs ------------------------
(***************************************************************************)
(* Lemmas about the port AuthRepository, for its store (AuthStoreProofs)   *)
(* and for the services on top of it (SignInProofs): what the operators on *)
(* the tables return, and what every operation leaves of the tables        *)
(* (Grows): rows keep their types, sessions and passkeys are added under   *)
(* fresh ids only and stay with their accounts, and revoked ones revoked.  *)
(***************************************************************************)
EXTENDS AuthRepository, TLAPS

-----------------------------------------------------------------------------
(* Rows *)

LEMMA TableTypes ==
  ASSUME TablesOK
  PROVE  /\ \A a \in DOMAIN accounts :
              /\ a \in Accounts /\ accounts[a] \in AccountRow
              /\ accounts[a].status \in {"active", "deactivated"}
              /\ accounts[a].email \in Emails /\ accounts[a].version \in Nat
              /\ accounts[a].grants \in SUBSET Grants /\ accounts[a].domain \in Domains
         /\ \A c \in DOMAIN challenges :
              /\ c \in Challenges /\ challenges[c] \in ChallengeRow
              /\ challenges[c].account \in Accounts /\ challenges[c].issued \in Nat
              /\ challenges[c].expires \in Nat /\ challenges[c].attempts \in Nat
              /\ challenges[c].state \in {"open", "used", "invalidated"}
         /\ \A s \in DOMAIN sessions :
              /\ s \in Sessions /\ sessions[s] \in SessionRow
              /\ sessions[s].account \in Accounts /\ sessions[s].proof \in Proofs
              /\ sessions[s].issued \in Nat /\ sessions[s].idle \in Nat
              /\ sessions[s].absolute \in Nat /\ sessions[s].revoked \in BOOLEAN
         /\ \A p \in DOMAIN passkeys :
              /\ p \in Passkeys /\ passkeys[p] \in PasskeyRow
              /\ passkeys[p].account \in Accounts /\ passkeys[p].created \in Nat
              /\ passkeys[p].count \in Nat /\ passkeys[p].revoked \in BOOLEAN
<1>1. \A a \in DOMAIN accounts : a \in Accounts /\ accounts[a] \in AccountRow
  BY DEF TablesOK
<1>2. \A c \in DOMAIN challenges : c \in Challenges /\ challenges[c] \in ChallengeRow
  BY DEF TablesOK
<1>3. \A s \in DOMAIN sessions : s \in Sessions /\ sessions[s] \in SessionRow
  BY DEF TablesOK
<1>4. \A p \in DOMAIN passkeys : p \in Passkeys /\ passkeys[p] \in PasskeyRow
  BY DEF TablesOK
<1>5. \A a \in DOMAIN accounts :
         /\ accounts[a].status \in {"active", "deactivated"}
         /\ accounts[a].email \in Emails /\ accounts[a].version \in Nat
         /\ accounts[a].grants \in SUBSET Grants /\ accounts[a].domain \in Domains
  BY <1>1 DEF AccountRow
<1>6. \A c \in DOMAIN challenges :
         /\ challenges[c].account \in Accounts /\ challenges[c].issued \in Nat
         /\ challenges[c].expires \in Nat /\ challenges[c].attempts \in Nat
         /\ challenges[c].state \in {"open", "used", "invalidated"}
  BY <1>2 DEF ChallengeRow
<1>7. \A s \in DOMAIN sessions :
         /\ sessions[s].account \in Accounts /\ sessions[s].proof \in Proofs
         /\ sessions[s].issued \in Nat /\ sessions[s].idle \in Nat
         /\ sessions[s].absolute \in Nat /\ sessions[s].revoked \in BOOLEAN
  BY <1>3 DEF SessionRow
<1>8. \A p \in DOMAIN passkeys :
         /\ passkeys[p].account \in Accounts /\ passkeys[p].created \in Nat
         /\ passkeys[p].count \in Nat /\ passkeys[p].revoked \in BOOLEAN
  BY <1>4 DEF PasskeyRow
<1> QED
  BY <1>1, <1>2, <1>3, <1>4, <1>5, <1>6, <1>7, <1>8

LEMMA StoredRows ==
  ASSUME NEW f, NEW key, NEW r
  PROVE  /\ DOMAIN Stored(f, key, r) = DOMAIN f \cup {key}
         /\ Stored(f, key, r)[key] = r
         /\ \A x \in DOMAIN f \ {key} : Stored(f, key, r)[x] = f[x]
         /\ Stored(f, key, r) = [x \in DOMAIN Stored(f, key, r) |-> Stored(f, key, r)[x]]
  BY DEF Stored

LEMMA RevokedSession ==
  ASSUME NEW R, \A s \in DOMAIN R : R[s] \in SessionRow, NEW S
  PROVE  /\ DOMAIN Revoked(R, S) = DOMAIN R
         /\ Revoked(R, S) \in [DOMAIN R -> SessionRow]
         /\ \A s \in DOMAIN R :
              /\ Revoked(R, S)[s].account = R[s].account
              /\ Revoked(R, S)[s].proof = R[s].proof
              /\ s \in S => Revoked(R, S)[s].revoked
              /\ s \notin S => Revoked(R, S)[s] = R[s]
              /\ R[s].revoked => Revoked(R, S)[s] = R[s]
<1>1. /\ DOMAIN Revoked(R, S) = DOMAIN R
      /\ \A s \in DOMAIN R : Revoked(R, S)[s] = [R[s] EXCEPT !.revoked = R[s].revoked \/ s \in S]
      /\ Revoked(R, S) = [s \in DOMAIN R |-> Revoked(R, S)[s]]
  BY DEF Revoked
<1>2. ASSUME NEW r \in SessionRow, NEW b \in BOOLEAN
      PROVE  /\ [r EXCEPT !.revoked = b] \in SessionRow
             /\ [r EXCEPT !.revoked = b].account = r.account
             /\ [r EXCEPT !.revoked = b].proof = r.proof
             /\ [r EXCEPT !.revoked = b].revoked = b
             /\ r.revoked \in BOOLEAN
             /\ r.revoked = b => [r EXCEPT !.revoked = b] = r
  BY DEF SessionRow
<1>3. ASSUME NEW s \in DOMAIN R
      PROVE  /\ Revoked(R, S)[s] \in SessionRow
             /\ Revoked(R, S)[s].account = R[s].account
             /\ Revoked(R, S)[s].proof = R[s].proof
             /\ s \in S => Revoked(R, S)[s].revoked
             /\ s \notin S => Revoked(R, S)[s] = R[s]
             /\ R[s].revoked => Revoked(R, S)[s] = R[s]
  <2>1. R[s].revoked \in BOOLEAN /\ R[s] \in SessionRow
    BY <1>2
  <2>2. CASE s \in S \/ R[s].revoked
    <3>1. (R[s].revoked \/ s \in S) = TRUE
      BY <2>1, <2>2
    <3>2. Revoked(R, S)[s] = [R[s] EXCEPT !.revoked = TRUE]
      BY <1>1, <3>1
    <3>3. R[s].revoked => R[s].revoked = TRUE
      BY <2>1
    <3>4. [R[s] EXCEPT !.revoked = TRUE].revoked
      BY <1>2, <2>1
    <3>5. R[s].revoked => [R[s] EXCEPT !.revoked = TRUE] = R[s]
      BY <1>2, <2>1, <3>3
    <3>6. Revoked(R, S)[s].revoked
      BY <3>2, <3>4
    <3>7. /\ [R[s] EXCEPT !.revoked = TRUE] \in SessionRow
          /\ [R[s] EXCEPT !.revoked = TRUE].account = R[s].account
          /\ [R[s] EXCEPT !.revoked = TRUE].proof = R[s].proof
      BY <1>2, <2>1
    <3> QED
      BY <2>2, <3>2, <3>5, <3>6, <3>7
  <2>3. CASE ~(s \in S \/ R[s].revoked)
    <3>1. (R[s].revoked \/ s \in S) = FALSE
      BY <2>1, <2>3
    <3>2. Revoked(R, S)[s] = [R[s] EXCEPT !.revoked = FALSE]
      BY <1>1, <3>1
    <3> QED
      BY <1>2, <2>1, <2>3, <3>2
  <2> QED
    BY <2>2, <2>3
<1> QED
  BY <1>1, <1>3

LEMMA RevokedPasskey ==
  ASSUME TablesOK, NEW S
  PROVE  /\ DOMAIN Revoked(passkeys, S) = DOMAIN passkeys
         /\ Revoked(passkeys, S) \in [DOMAIN passkeys -> PasskeyRow]
         /\ \A p \in DOMAIN passkeys :
              /\ Revoked(passkeys, S)[p].account = passkeys[p].account
              /\ p \in S => Revoked(passkeys, S)[p].revoked
              /\ p \notin S => Revoked(passkeys, S)[p] = passkeys[p]
              /\ passkeys[p].revoked => Revoked(passkeys, S)[p] = passkeys[p]
<1> DEFINE R == passkeys
<1>1. /\ DOMAIN Revoked(R, S) = DOMAIN R
      /\ \A s \in DOMAIN R : Revoked(R, S)[s] = [R[s] EXCEPT !.revoked = R[s].revoked \/ s \in S]
      /\ Revoked(R, S) = [s \in DOMAIN R |-> Revoked(R, S)[s]]
  BY DEF Revoked
<1>2. ASSUME NEW r \in PasskeyRow, NEW b \in BOOLEAN
      PROVE  /\ [r EXCEPT !.revoked = b] \in PasskeyRow
             /\ [r EXCEPT !.revoked = b].account = r.account
             /\ [r EXCEPT !.revoked = b].revoked = b
             /\ r.revoked \in BOOLEAN
             /\ r.revoked = b => [r EXCEPT !.revoked = b] = r
  BY DEF PasskeyRow
<1>3. ASSUME NEW s \in DOMAIN R
      PROVE  /\ Revoked(R, S)[s] \in PasskeyRow
             /\ Revoked(R, S)[s].account = R[s].account
             /\ s \in S => Revoked(R, S)[s].revoked
             /\ s \notin S => Revoked(R, S)[s] = R[s]
             /\ R[s].revoked => Revoked(R, S)[s] = R[s]
  <2>1. R[s].revoked \in BOOLEAN /\ R[s] \in PasskeyRow
    BY TableTypes
  <2>2. CASE s \in S \/ R[s].revoked
    <3>1. (R[s].revoked \/ s \in S) = TRUE
      BY <2>1, <2>2
    <3>2. Revoked(R, S)[s] = [R[s] EXCEPT !.revoked = TRUE]
      BY <1>1, <3>1
    <3>3. R[s].revoked => R[s].revoked = TRUE
      BY <2>1
    <3>4. [R[s] EXCEPT !.revoked = TRUE].revoked
      BY <1>2, <2>1
    <3>5. R[s].revoked => [R[s] EXCEPT !.revoked = TRUE] = R[s]
      BY <1>2, <2>1, <3>3
    <3>6. Revoked(R, S)[s].revoked
      BY <3>2, <3>4
    <3>7. /\ [R[s] EXCEPT !.revoked = TRUE] \in PasskeyRow
          /\ [R[s] EXCEPT !.revoked = TRUE].account = R[s].account
      BY <1>2, <2>1
    <3> QED
      BY <2>2, <3>2, <3>5, <3>6, <3>7
  <2>3. CASE ~(s \in S \/ R[s].revoked)
    <3>1. (R[s].revoked \/ s \in S) = FALSE
      BY <2>1, <2>3
    <3>2. Revoked(R, S)[s] = [R[s] EXCEPT !.revoked = FALSE]
      BY <1>1, <3>1
    <3> QED
      BY <1>2, <2>1, <2>3, <3>2
  <2> QED
    BY <2>2, <2>3
<1> QED
  BY <1>1, <1>3

LEMMA InvalidatedChallenges ==
  ASSUME TablesOK, NEW C
  PROVE  /\ DOMAIN Invalidated(C) = DOMAIN challenges
         /\ Invalidated(C) \in [DOMAIN challenges -> ChallengeRow]
         /\ \A c \in DOMAIN challenges :
              /\ Invalidated(C)[c].account = challenges[c].account
              /\ Invalidated(C)[c].issued = challenges[c].issued
              /\ Invalidated(C)[c].attempts = challenges[c].attempts
              /\ c \in C => Invalidated(C)[c].state # "open"
              /\ c \notin C => Invalidated(C)[c] = challenges[c]
              /\ challenges[c].state # "open" => Invalidated(C)[c] = challenges[c]
<1>1. /\ DOMAIN Invalidated(C) = DOMAIN challenges
      /\ \A c \in DOMAIN challenges :
           /\ c \in C /\ challenges[c].state = "open" =>
                Invalidated(C)[c] = [challenges[c] EXCEPT !.state = "invalidated"]
           /\ ~(c \in C /\ challenges[c].state = "open") => Invalidated(C)[c] = challenges[c]
      /\ Invalidated(C) = [c \in DOMAIN challenges |-> Invalidated(C)[c]]
  BY DEF Invalidated, Open
<1>2. ASSUME NEW r \in ChallengeRow
      PROVE  /\ [r EXCEPT !.state = "invalidated"] \in ChallengeRow
             /\ [r EXCEPT !.state = "invalidated"].account = r.account
             /\ [r EXCEPT !.state = "invalidated"].issued = r.issued
             /\ [r EXCEPT !.state = "invalidated"].attempts = r.attempts
             /\ [r EXCEPT !.state = "invalidated"].state = "invalidated"
  BY DEF ChallengeRow
<1>3. ASSUME NEW c \in DOMAIN challenges
      PROVE  /\ Invalidated(C)[c] \in ChallengeRow
             /\ Invalidated(C)[c].account = challenges[c].account
             /\ Invalidated(C)[c].issued = challenges[c].issued
             /\ Invalidated(C)[c].attempts = challenges[c].attempts
             /\ c \in C => Invalidated(C)[c].state # "open"
             /\ c \notin C => Invalidated(C)[c] = challenges[c]
             /\ challenges[c].state # "open" => Invalidated(C)[c] = challenges[c]
  BY <1>1, <1>2, TableTypes
<1> QED
  BY <1>1, <1>3

LEMMA TouchedSessions ==
  ASSUME TablesOK, NEW s \in DOMAIN sessions, NEW now \in Nat
  PROVE  /\ DOMAIN Touched(s, now) = DOMAIN sessions
         /\ Touched(s, now) \in [DOMAIN sessions -> SessionRow]
         /\ \A x \in DOMAIN sessions :
              /\ Touched(s, now)[x].account = sessions[x].account
              /\ Touched(s, now)[x].proof = sessions[x].proof
              /\ Touched(s, now)[x].revoked = sessions[x].revoked
              /\ x # s => Touched(s, now)[x] = sessions[x]
<1>1. now + IdleLifetime \in Nat
  BY PolicyAssumption
<1>2. Least(sessions[s].absolute, now + IdleLifetime) \in Nat
  BY <1>1, TableTypes DEF Least
<1>3. PICK n \in Nat : Touched(s, now) = [sessions EXCEPT ![s].idle = n]
  BY <1>2 DEF Touched
<1>4. ASSUME NEW r \in SessionRow
      PROVE  /\ [r EXCEPT !.idle = n] \in SessionRow
             /\ [r EXCEPT !.idle = n].account = r.account
             /\ [r EXCEPT !.idle = n].proof = r.proof
             /\ [r EXCEPT !.idle = n].revoked = r.revoked
  BY <1>3 DEF SessionRow
<1>5. sessions \in [DOMAIN sessions -> SessionRow]
  BY DEF TablesOK
<1>6. \A x \in DOMAIN sessions :
        /\ x = s => Touched(s, now)[x] = [sessions[s] EXCEPT !.idle = n]
        /\ x # s => Touched(s, now)[x] = sessions[x]
  BY <1>3, <1>5
<1>7. \A x \in DOMAIN sessions : Touched(s, now)[x] \in SessionRow
  BY <1>4, <1>5, <1>6
<1>8. Touched(s, now) = [x \in DOMAIN sessions |-> Touched(s, now)[x]]
  BY <1>3
<1> QED
  <2>1. DOMAIN Touched(s, now) = DOMAIN sessions
    BY <1>3
  <2>2. Touched(s, now) \in [DOMAIN sessions -> SessionRow]
    BY <1>7, <1>8
  <2>3. ASSUME NEW x \in DOMAIN sessions
        PROVE  /\ Touched(s, now)[x].account = sessions[x].account
               /\ Touched(s, now)[x].proof = sessions[x].proof
               /\ Touched(s, now)[x].revoked = sessions[x].revoked
               /\ x # s => Touched(s, now)[x] = sessions[x]
    <3>1. sessions[x] \in SessionRow
      BY <1>5
    <3>2. CASE x = s
      <4>1. Touched(s, now)[x] = [sessions[x] EXCEPT !.idle = n]
        BY <1>6, <3>2
      <4> QED
        BY <1>4, <3>1, <3>2, <4>1
    <3>3. CASE x # s
      BY <1>6, <3>3
    <3> QED
      BY <3>2, <3>3
  <2> QED
    BY <2>1, <2>2, <2>3

LEMMA NewSessionRow ==
  ASSUME NEW a \in Accounts, NEW proof \in Proofs, NEW now \in Nat
  PROVE  /\ NewSession(a, proof, now) \in SessionRow
         /\ NewSession(a, proof, now).account = a /\ NewSession(a, proof, now).proof = proof
<1>1. /\ now + IdleLifetime \in Nat /\ now + AbsoluteLifetime \in Nat
      /\ Least(now + AbsoluteLifetime, now + IdleLifetime) \in Nat
  BY PolicyAssumption DEF Least
<1> QED
  BY <1>1 DEF NewSession, SessionRow

-----------------------------------------------------------------------------
(* What an operation may do to each table *)

GrowAccounts ==
  DOMAIN accounts' \subseteq Accounts /\ accounts' \in [DOMAIN accounts' -> AccountRow]

GrowChallenges ==
  DOMAIN challenges' \subseteq Challenges /\ challenges' \in [DOMAIN challenges' -> ChallengeRow]

\* Sessions are added under ids of S only.
GrowSessions(S) ==
  /\ DOMAIN sessions' \subseteq Sessions /\ sessions' \in [DOMAIN sessions' -> SessionRow]
  /\ DOMAIN sessions \subseteq DOMAIN sessions' /\ DOMAIN sessions' \subseteq DOMAIN sessions \cup S
  /\ \A s \in DOMAIN sessions \ S :
       /\ sessions'[s].account = sessions[s].account
       /\ sessions[s].revoked => sessions'[s].revoked

\* Passkeys are added under ids of P only.
GrowPasskeys(P) ==
  /\ DOMAIN passkeys' \subseteq Passkeys /\ passkeys' \in [DOMAIN passkeys' -> PasskeyRow]
  /\ DOMAIN passkeys \subseteq DOMAIN passkeys' /\ DOMAIN passkeys' \subseteq DOMAIN passkeys \cup P
  /\ \A p \in DOMAIN passkeys \ P : passkeys'[p].account = passkeys[p].account

Grows(S, P) == GrowAccounts /\ GrowChallenges /\ GrowSessions(S) /\ GrowPasskeys(P)

LEMMA KeepAccounts == ASSUME TablesOK, accounts' = accounts PROVE GrowAccounts
  BY DEF TablesOK, GrowAccounts

LEMMA KeepChallenges == ASSUME TablesOK, challenges' = challenges PROVE GrowChallenges
  BY DEF TablesOK, GrowChallenges

LEMMA KeepSessions == ASSUME TablesOK, sessions' = sessions PROVE GrowSessions({})
  BY DEF TablesOK, GrowSessions

LEMMA KeepPasskeys == ASSUME TablesOK, passkeys' = passkeys PROVE GrowPasskeys({})
  BY DEF TablesOK, GrowPasskeys

LEMMA KeepTables == ASSUME TablesOK, UNCHANGED tables PROVE Grows({}, {})
  BY KeepAccounts, KeepChallenges, KeepSessions, KeepPasskeys DEF Grows, tables

\* Room for sessions and passkeys that are not added
LEMMA GrowsWithin ==
  ASSUME NEW S, NEW P, Grows({}, {})
  PROVE  Grows(S, P)
  BY DEF Grows, GrowSessions, GrowPasskeys

LEMMA AddAccount ==
  ASSUME TablesOK, NEW a \in Accounts, NEW r \in AccountRow, accounts' = Stored(accounts, a, r)
  PROVE  GrowAccounts
<1>1. /\ DOMAIN accounts' = DOMAIN accounts \cup {a}
      /\ accounts' = [x \in DOMAIN accounts' |-> accounts'[x]]
      /\ accounts'[a] = r /\ \A x \in DOMAIN accounts \ {a} : accounts'[x] = accounts[x]
  BY DEF Stored
<1>2. \A x \in DOMAIN accounts' : accounts'[x] \in AccountRow
  BY <1>1 DEF TablesOK
<1> QED
  BY <1>1, <1>2 DEF TablesOK, GrowAccounts

LEMMA ChangeAccount_ ==
  ASSUME TablesOK, NEW a \in DOMAIN accounts, NEW r \in AccountRow,
         accounts' = [accounts EXCEPT ![a] = r]
  PROVE  GrowAccounts
  BY DEF TablesOK, GrowAccounts

LEMMA AddChallenge ==
  ASSUME TablesOK, NEW c \in Challenges, NEW r \in ChallengeRow, NEW C,
         challenges' = Stored(Invalidated(C), c, r)
  PROVE  GrowChallenges
<1>1. DOMAIN Invalidated(C) = DOMAIN challenges /\ Invalidated(C) \in [DOMAIN challenges -> ChallengeRow]
  BY InvalidatedChallenges
<1>2. /\ DOMAIN challenges' = DOMAIN challenges \cup {c}
      /\ challenges' = [x \in DOMAIN challenges' |-> challenges'[x]]
      /\ challenges'[c] = r /\ \A x \in DOMAIN challenges \ {c} : challenges'[x] = Invalidated(C)[x]
  BY <1>1 DEF Stored
<1>3. \A x \in DOMAIN challenges' : challenges'[x] \in ChallengeRow
  BY <1>1, <1>2
<1> QED
  BY <1>2, <1>3 DEF TablesOK, GrowChallenges

LEMMA InvalidateChallenges ==
  ASSUME TablesOK, NEW C, challenges' = Invalidated(C)
  PROVE  GrowChallenges
  BY InvalidatedChallenges DEF TablesOK, GrowChallenges

LEMMA ChangeChallenge ==
  ASSUME TablesOK, NEW c \in DOMAIN challenges,
         \/ challenges' = [challenges EXCEPT ![c].attempts = @ + 1]
         \/ challenges' = [challenges EXCEPT ![c].state = "used"]
  PROVE  GrowChallenges
<1>1. challenges[c] \in ChallengeRow
  BY TableTypes
<1>2. /\ [challenges[c] EXCEPT !.attempts = @ + 1] \in ChallengeRow
      /\ [challenges[c] EXCEPT !.state = "used"] \in ChallengeRow
  BY <1>1 DEF ChallengeRow
<1>3. PICK r \in ChallengeRow : challenges' = [challenges EXCEPT ![c] = r]
  BY <1>2 DEF TablesOK
<1> QED
  BY <1>3 DEF TablesOK, GrowChallenges

LEMMA AddSession ==
  ASSUME TablesOK, NEW k \in Sessions, NEW a \in Accounts, NEW proof \in Proofs, NEW now \in Nat,
         sessions' = Stored(sessions, k, NewSession(a, proof, now))
  PROVE  GrowSessions({k}) /\ k \in DOMAIN sessions'
<1> DEFINE r == NewSession(a, proof, now)
<1>1. r \in SessionRow
  BY NewSessionRow
<1> HIDE DEF r
<1>2. sessions' = Stored(sessions, k, r)
  BY DEF r
<1>3. /\ DOMAIN sessions' = DOMAIN sessions \cup {k}
      /\ sessions' = [x \in DOMAIN sessions' |-> sessions'[x]]
      /\ sessions'[k] = r /\ \A x \in DOMAIN sessions \ {k} : sessions'[x] = sessions[x]
  BY <1>2 DEF Stored
<1>4. \A x \in DOMAIN sessions' : sessions'[x] \in SessionRow
  BY <1>1, <1>3 DEF TablesOK
<1> QED
  BY <1>3, <1>4 DEF TablesOK, GrowSessions

\* The sessions after activity: none, or some of a kept one
LEMMA ActiveSessions ==
  ASSUME TablesOK, NEW s \in DOMAIN sessions, NEW now \in Nat, NEW rows \in Activity(s, now)
  PROVE  /\ DOMAIN rows = DOMAIN sessions /\ rows \in [DOMAIN sessions -> SessionRow]
         /\ \A x \in DOMAIN sessions :
              rows[x].account = sessions[x].account /\ rows[x].revoked = sessions[x].revoked
<1>1. CASE rows = sessions
  BY <1>1 DEF TablesOK
<1>2. CASE rows = Touched(s, now)
  BY <1>2, TouchedSessions
<1> QED
  BY <1>1, <1>2 DEF Activity

LEMMA TouchSessions ==
  ASSUME TablesOK, NEW s \in DOMAIN sessions, NEW now \in Nat, sessions' \in Activity(s, now)
  PROVE  GrowSessions({})
<1>1. /\ DOMAIN sessions' = DOMAIN sessions /\ sessions' \in [DOMAIN sessions -> SessionRow]
      /\ \A x \in DOMAIN sessions :
           sessions'[x].account = sessions[x].account /\ sessions'[x].revoked = sessions[x].revoked
  BY ActiveSessions
<1> QED
  BY <1>1 DEF TablesOK, GrowSessions

LEMMA RevokeSessions ==
  ASSUME TablesOK, NEW s \in DOMAIN sessions, NEW now \in Nat, NEW S,
         \E rows \in Activity(s, now) : sessions' = Revoked(rows, S)
  PROVE  GrowSessions({})
<1>1. PICK rows \in Activity(s, now) : sessions' = Revoked(rows, S)
  OBVIOUS
<1>2. /\ DOMAIN rows = DOMAIN sessions /\ \A x \in DOMAIN rows : rows[x] \in SessionRow
      /\ \A x \in DOMAIN sessions :
           rows[x].account = sessions[x].account /\ rows[x].revoked = sessions[x].revoked
  BY ActiveSessions
<1>3. /\ DOMAIN sessions' = DOMAIN rows /\ sessions' \in [DOMAIN rows -> SessionRow]
      /\ \A x \in DOMAIN rows :
           /\ sessions'[x].account = rows[x].account
           /\ rows[x].revoked => sessions'[x] = rows[x]
  BY <1>1, <1>2, RevokedSession
<1> QED
  BY <1>2, <1>3 DEF TablesOK, GrowSessions

LEMMA EndSession ==
  ASSUME TablesOK, NEW s, sessions' = Revoked(sessions, {s})
  PROVE  GrowSessions({}) /\ (s \in DOMAIN sessions => sessions'[s].revoked)
<1>1. \A x \in DOMAIN sessions : sessions[x] \in SessionRow
  BY TableTypes
<1>2. /\ DOMAIN sessions' = DOMAIN sessions /\ sessions' \in [DOMAIN sessions -> SessionRow]
      /\ \A x \in DOMAIN sessions :
           /\ sessions'[x].account = sessions[x].account
           /\ x \in {s} => sessions'[x].revoked
           /\ sessions[x].revoked => sessions'[x] = sessions[x]
  BY <1>1, RevokedSession
<1> QED
  BY <1>2 DEF TablesOK, GrowSessions

LEMMA AddPasskey ==
  ASSUME TablesOK, NEW p \in Passkeys, NEW r \in PasskeyRow, passkeys' = Stored(passkeys, p, r)
  PROVE  GrowPasskeys({p}) /\ p \in DOMAIN passkeys' /\ passkeys'[p] = r
<1>1. /\ DOMAIN passkeys' = DOMAIN passkeys \cup {p}
      /\ passkeys' = [x \in DOMAIN passkeys' |-> passkeys'[x]]
      /\ passkeys'[p] = r /\ \A x \in DOMAIN passkeys \ {p} : passkeys'[x] = passkeys[x]
  BY DEF Stored
<1>2. \A x \in DOMAIN passkeys' : passkeys'[x] \in PasskeyRow
  BY <1>1 DEF TablesOK
<1> QED
  BY <1>1, <1>2 DEF TablesOK, GrowPasskeys

LEMMA RevokePasskeys ==
  ASSUME TablesOK, NEW P, passkeys' = Revoked(passkeys, P)
  PROVE  GrowPasskeys({})
<1>1. /\ DOMAIN passkeys' = DOMAIN passkeys /\ passkeys' \in [DOMAIN passkeys -> PasskeyRow]
      /\ \A p \in DOMAIN passkeys : passkeys'[p].account = passkeys[p].account
  BY RevokedPasskey
<1> QED
  BY <1>1 DEF TablesOK, GrowPasskeys

LEMMA CountPasskey ==
  ASSUME TablesOK, NEW p \in DOMAIN passkeys, NEW n \in Nat,
         passkeys' = [passkeys EXCEPT ![p].count = Greatest(@, n)]
  PROVE  GrowPasskeys({})
<1>1. passkeys[p] \in PasskeyRow /\ passkeys[p].count \in Nat
  BY TableTypes
<1>2. PICK m \in Nat : m = Greatest(passkeys[p].count, n)
  BY <1>1 DEF Greatest
<1>3. /\ [passkeys[p] EXCEPT !.count = m] \in PasskeyRow
      /\ [passkeys[p] EXCEPT !.count = m].account = passkeys[p].account
  BY <1>1, <1>2 DEF PasskeyRow
<1>4. passkeys' = [passkeys EXCEPT ![p] = [passkeys[p] EXCEPT !.count = m]]
  BY <1>2
<1> QED
  BY <1>3, <1>4 DEF TablesOK, GrowPasskeys

-----------------------------------------------------------------------------
(* What each operation does to the tables *)

LEMMA AuthenticateGrows ==
  ASSUME TablesOK, NEW s, NEW now \in Nat, NEW r, AuthenticateSession(s, now, r)
  PROVE  Grows({}, {}) /\ (r = "ok" => s \in DOMAIN sessions /\ Active(sessions[s].account))
<1>1. CASE UNCHANGED tables /\ r = "invalid"
  BY <1>1, KeepTables
<1>2. CASE r = "invalid" /\ sessions' = Revoked(sessions, {s}) /\ UNCHANGED <<accounts, challenges, passkeys>>
  BY <1>2, EndSession, KeepAccounts, KeepChallenges, KeepPasskeys DEF Grows
<1>3. CASE /\ r = "ok" /\ Kept(s) /\ Active(sessions[s].account)
           /\ sessions' = Touched(s, now) /\ UNCHANGED <<accounts, challenges, passkeys>>
  <2>1. s \in DOMAIN sessions /\ sessions' \in Activity(s, now)
    BY <1>3 DEF Kept, Activity
  <2>2. GrowSessions({})
    BY <2>1, TouchSessions
  <2> QED
    BY <1>3, <2>1, <2>2, KeepAccounts, KeepChallenges, KeepPasskeys DEF Grows
<1> QED
  BY <1>1, <1>2, <1>3 DEF AuthenticateSession

LEMMA LogoutGrows ==
  ASSUME TablesOK, NEW s, NEW r, RevokeSessionByVerifier(s, r)
  PROVE  Grows({}, {}) /\ (s \in DOMAIN sessions => sessions'[s].revoked)
  BY EndSession, KeepAccounts, KeepChallenges, KeepPasskeys DEF Grows, RevokeSessionByVerifier

LEMMA IssueGrows ==
  ASSUME TablesOK, NEW e, NEW c \in Challenges, NEW now \in Nat, NEW r,
         IssueEmailChallenge(e, c, now, r)
  PROVE  Grows({}, {})
<1>1. CASE UNCHANGED tables
  BY <1>1, KeepTables
<1>2. CASE /\ UNCHANGED <<accounts, sessions, passkeys>>
           /\ \E a \in Recipient(e) :
                challenges' = Stored(Invalidated(OpenOf(a)), c,
                  [account |-> a, issued |-> now, expires |-> now + CodeLifetime,
                   attempts |-> 0, state |-> "open"])
  <2>1. PICK a \in Recipient(e) :
          challenges' = Stored(Invalidated(OpenOf(a)), c,
            [account |-> a, issued |-> now, expires |-> now + CodeLifetime,
             attempts |-> 0, state |-> "open"])
    BY <1>2
  <2>2. a \in Accounts /\ now + CodeLifetime \in Nat
    BY <2>1, PolicyAssumption DEF Recipient, TablesOK
  <2>3. [account |-> a, issued |-> now, expires |-> now + CodeLifetime,
         attempts |-> 0, state |-> "open"] \in ChallengeRow
    BY <2>2 DEF ChallengeRow
  <2> QED
    BY <1>2, <2>1, <2>3, AddChallenge, KeepAccounts, KeepSessions, KeepPasskeys DEF Grows
<1> QED
  BY <1>1, <1>2 DEF IssueEmailChallenge

LEMMA InvalidateGrows ==
  ASSUME TablesOK, NEW c, NEW r, InvalidateChallenge(c, r)
  PROVE  Grows({}, {})
  BY InvalidateChallenges, KeepAccounts, KeepSessions, KeepPasskeys DEF Grows, InvalidateChallenge

LEMMA ConsumeGrows ==
  ASSUME TablesOK, NEW c, NEW right, NEW s \in Sessions, NEW now \in Nat, NEW r,
         ConsumeChallengeAndCreateSession(c, right, s, now, r)
  PROVE  Grows({s}, {}) /\ (r = "ok" => s \in DOMAIN sessions')
<1>1. CASE r = "invalid" /\ UNCHANGED tables
  BY <1>1, KeepTables, GrowsWithin
<1>2. CASE /\ r = "invalid" /\ Consumable(c, now)
           /\ challenges' = [challenges EXCEPT ![c].attempts = @ + 1]
           /\ UNCHANGED <<accounts, sessions, passkeys>>
  <2>1. c \in DOMAIN challenges
    BY <1>2 DEF Consumable, Open
  <2>2. Grows({}, {})
    BY <1>2, <2>1, ChangeChallenge, KeepAccounts, KeepSessions, KeepPasskeys DEF Grows
  <2> QED
    BY <1>2, <2>2, GrowsWithin
<1>3. CASE r = "invalid" /\ challenges' = Invalidated({c}) /\ UNCHANGED <<accounts, sessions, passkeys>>
  <2>1. Grows({}, {})
    BY <1>3, InvalidateChallenges, KeepAccounts, KeepSessions, KeepPasskeys DEF Grows
  <2> QED
    BY <1>3, <2>1, GrowsWithin
<1>4. CASE /\ r = "ok" /\ Consumable(c, now)
           /\ challenges' = [challenges EXCEPT ![c].state = "used"]
           /\ sessions' = Stored(sessions, s,
                NewSession(challenges[c].account, [kind |-> "challenge", of |-> c], now))
           /\ UNCHANGED <<accounts, passkeys>>
  <2>1. c \in DOMAIN challenges /\ c \in Challenges /\ challenges[c].account \in Accounts
    BY <1>4, TableTypes DEF Consumable, Open
  <2>2. [kind |-> "challenge", of |-> c] \in Proofs
    BY <2>1 DEF Proofs
  <2>3. GrowSessions({s}) /\ s \in DOMAIN sessions'
    BY <1>4, <2>1, <2>2, AddSession
  <2> QED
    BY <1>4, <2>1, <2>3, ChangeChallenge, KeepAccounts, KeepPasskeys DEF Grows
<1> QED
  BY <1>1, <1>2, <1>3, <1>4 DEF ConsumeChallengeAndCreateSession

LEMMA ExchangeGrows ==
  ASSUME TablesOK, NEW a, NEW k \in Tokens, NEW s \in Sessions, NEW now \in Nat, NEW r,
         CreateOidcSession(a, k, s, now, r)
  PROVE  Grows({s}, {}) /\ (r = "ok" => s \in DOMAIN sessions')
<1>1. CASE r = "invalid" /\ UNCHANGED tables
  BY <1>1, KeepTables, GrowsWithin
<1>2. CASE /\ r = "ok" /\ Active(a)
           /\ sessions' = Stored(sessions, s, NewSession(a, [kind |-> "token", of |-> k], now))
           /\ UNCHANGED <<accounts, challenges, passkeys>>
  <2>1. a \in Accounts /\ [kind |-> "token", of |-> k] \in Proofs
    BY <1>2 DEF Active, TablesOK, Proofs
  <2>2. GrowSessions({s}) /\ s \in DOMAIN sessions'
    BY <1>2, <2>1, AddSession
  <2> QED
    BY <1>2, <2>2, KeepAccounts, KeepChallenges, KeepPasskeys DEF Grows
<1> QED
  BY <1>1, <1>2 DEF CreateOidcSession

LEMMA RegisterGrows ==
  ASSUME TablesOK, NEW s, NEW p \in Passkeys, NEW count \in Nat, NEW now \in Nat, NEW r,
         RegisterPasskey(s, p, count, now, r)
  PROVE  /\ Grows({}, {p})
         /\ \/ UNCHANGED passkeys
            \/ /\ s \in DOMAIN sessions /\ p \in DOMAIN passkeys'
               /\ passkeys'[p].account = sessions[s].account
<1>1. CASE UNCHANGED tables
  BY <1>1, KeepTables, GrowsWithin DEF tables
<1>2. CASE /\ Live(s, now)
           /\ passkeys' = Stored(passkeys, p,
                [account |-> sessions[s].account, created |-> now, count |-> count, revoked |-> FALSE])
           /\ UNCHANGED <<accounts, challenges, sessions>>
  <2>1. s \in DOMAIN sessions /\ sessions[s].account \in Accounts
    BY <1>2, TableTypes DEF Live, Kept
  <2> DEFINE row == [account |-> sessions[s].account, created |-> now, count |-> count, revoked |-> FALSE]
  <2>2. row \in PasskeyRow /\ row.account = sessions[s].account
    BY <2>1 DEF PasskeyRow
  <2> HIDE DEF row
  <2>3. passkeys' = Stored(passkeys, p, row)
    BY <1>2 DEF row
  <2>4. GrowPasskeys({p}) /\ p \in DOMAIN passkeys' /\ passkeys'[p] = row
    BY <2>2, <2>3, AddPasskey
  <2>5. GrowSessions({})
    BY <1>2, KeepSessions
  <2> QED
    BY <1>2, <2>1, <2>2, <2>4, <2>5, KeepAccounts, KeepChallenges DEF Grows
<1> QED
  BY <1>1, <1>2 DEF RegisterPasskey

LEMMA LoginGrows ==
  ASSUME TablesOK, NEW p, NEW expected, NEW observed \in Nat, NEW s \in Sessions, NEW now \in Nat,
         NEW r, CompletePasskeyLogin(p, expected, observed, s, now, r)
  PROVE  Grows({s}, {}) /\ (r = "ok" => s \in DOMAIN sessions')
<1>1. CASE r # "ok" /\ UNCHANGED tables
  BY <1>1, KeepTables, GrowsWithin
<1>2. CASE /\ r = "ok" /\ Usable(p)
           /\ passkeys' = [passkeys EXCEPT ![p].count = Greatest(@, observed)]
           /\ sessions' = Stored(sessions, s,
                NewSession(passkeys[p].account, [kind |-> "passkey", of |-> p], now))
           /\ UNCHANGED <<accounts, challenges>>
  <2>1. p \in DOMAIN passkeys /\ p \in Passkeys /\ passkeys[p].account \in Accounts
    BY <1>2, TableTypes DEF Usable
  <2>2. [kind |-> "passkey", of |-> p] \in Proofs
    BY <2>1 DEF Proofs
  <2>3. GrowSessions({s}) /\ s \in DOMAIN sessions'
    BY <1>2, <2>1, <2>2, AddSession
  <2>4. GrowPasskeys({})
    BY <1>2, <2>1, CountPasskey
  <2> QED
    BY <1>2, <2>3, <2>4, KeepAccounts, KeepChallenges DEF Grows
<1> QED
  BY <1>1, <1>2 DEF CompletePasskeyLogin

LEMMA BootstrapGrows ==
  ASSUME TablesOK, NEW e \in Emails, NEW r, BootstrapAdministrator(e, r)
  PROVE  Grows({}, {})
<1>1. CASE UNCHANGED tables
  BY <1>1, KeepTables
<1>2. CASE /\ accounts' = Stored(accounts, Owner,
                [status |-> "active", email |-> e, grants |-> {Admin},
                 domain |-> "incubator_participant", version |-> 1])
           /\ UNCHANGED <<challenges, sessions, passkeys>>
  <2>1. [status |-> "active", email |-> e, grants |-> {Admin},
         domain |-> "incubator_participant", version |-> 1] \in AccountRow
    BY DEF AccountRow, Grants, Domains
  <2>2. Owner \in Accounts
    BY PolicyAssumption
  <2> QED
    BY <1>2, <2>1, <2>2, AddAccount, KeepChallenges, KeepSessions, KeepPasskeys DEF Grows
<1> QED
  BY <1>1, <1>2 DEF BootstrapAdministrator

-----------------------------------------------------------------------------
(* Administration: the session that asks is kept, and may be touched. *)

LEMMA AdministratorKept ==
  ASSUME NEW s, NEW now, Administers(s, now)
  PROVE  s \in DOMAIN sessions
  BY DEF Administers, Live, Kept

LEMMA RefusedGrows ==
  ASSUME TablesOK, NEW s, NEW now \in Nat, NEW r,
         RequireAdministrator(s, now, r) \/ Fails(s, now)
  PROVE  Grows({}, {})
<1>1. CASE RequireAdministrator(s, now, r)
  BY <1>1, KeepTables DEF RequireAdministrator
<1>2. CASE Fails(s, now)
  <2>1. GrowSessions({})
    BY <1>2, AdministratorKept, TouchSessions DEF Fails
  <2> QED
    BY <1>2, <2>1, KeepAccounts, KeepChallenges, KeepPasskeys DEF Fails, Grows
<1> QED
  BY <1>1, <1>2

LEMMA ResetGrows ==
  ASSUME TablesOK, NEW s, NEW a, NEW now \in Nat, NEW r, AdminSecurityResetAuthAccess(s, a, now, r)
  PROVE  Grows({}, {})
<1>1. CASE RequireAdministrator(s, now, r) \/ RequireAccount(s, a, now, r)
  BY <1>1, RefusedGrows DEF RequireAccount
<1>2. CASE /\ Administers(s, now) /\ challenges' = Invalidated(OpenOf(a))
           /\ \E rows \in Activity(s, now) : sessions' = Revoked(rows, KeptOf(a))
           /\ passkeys' = Revoked(passkeys, UsableOf(a)) /\ UNCHANGED accounts
  <2>1. GrowSessions({})
    BY <1>2, AdministratorKept, RevokeSessions
  <2> QED
    BY <1>2, <2>1, InvalidateChallenges, RevokePasskeys, KeepAccounts DEF Grows
<1> QED
  BY <1>1, <1>2 DEF AdminSecurityResetAuthAccess

LEMMA CreateGrows ==
  ASSUME TablesOK, NEW s, NEW a \in Accounts, NEW e \in Emails, NEW now \in Nat, NEW r,
         CreateAccountAsAdministrator(s, a, e, now, r)
  PROVE  Grows({}, {})
<1>1. CASE RequireAdministrator(s, now, r) \/ Fails(s, now)
  BY <1>1, RefusedGrows
<1>2. CASE /\ Administers(s, now)
           /\ accounts' = Stored(accounts, a,
                [status |-> "active", email |-> e, grants |-> {},
                 domain |-> "incubator_participant", version |-> 1])
           /\ sessions' \in Activity(s, now) /\ UNCHANGED <<challenges, passkeys>>
  <2>1. [status |-> "active", email |-> e, grants |-> {},
         domain |-> "incubator_participant", version |-> 1] \in AccountRow
    BY DEF AccountRow, Domains
  <2>2. GrowSessions({})
    BY <1>2, AdministratorKept, TouchSessions
  <2> QED
    BY <1>2, <2>1, <2>2, AddAccount, KeepChallenges, KeepPasskeys DEF Grows
<1> QED
  BY <1>1, <1>2 DEF CreateAccountAsAdministrator

LEMMA UpdateGrows ==
  ASSUME TablesOK, NEW s, NEW a, NEW e \in Emails, NEW now \in Nat, NEW r,
         UpdateAccountAsAdministrator(s, a, e, now, r)
  PROVE  Grows({}, {})
<1>1. CASE RequireAdministrator(s, now, r) \/ Fails(s, now)
  BY <1>1, RefusedGrows
<1>2. CASE /\ Administers(s, now) /\ a \in DOMAIN accounts
           /\ accounts' = [accounts EXCEPT ![a].email = e]
           /\ sessions' \in Activity(s, now) /\ UNCHANGED <<challenges, passkeys>>
  <2>1. accounts[a] \in AccountRow
    BY <1>2, TableTypes
  <2>2. [accounts[a] EXCEPT !.email = e] \in AccountRow
    BY <2>1 DEF AccountRow
  <2>3. GrowAccounts
    BY <1>2, <2>2, ChangeAccount_
  <2>4. GrowSessions({})
    BY <1>2, AdministratorKept, TouchSessions
  <2> QED
    BY <1>2, <2>3, <2>4, KeepChallenges, KeepPasskeys DEF Grows
<1> QED
  BY <1>1, <1>2 DEF UpdateAccountAsAdministrator, RequireAccount

LEMMA StatusGrows ==
  ASSUME TablesOK, NEW s, NEW a, NEW status \in {"active", "deactivated"}, NEW now \in Nat, NEW r,
         SetAccountStatusAsAdministrator(s, a, status, now, r)
  PROVE  Grows({}, {})
<1>1. CASE RequireAdministrator(s, now, r) \/ Fails(s, now)
  BY <1>1, RefusedGrows
<1>2. CASE /\ Administers(s, now) /\ a \in DOMAIN accounts
           /\ accounts' = [accounts EXCEPT ![a].status = status]
           /\ \E C : challenges' = Invalidated(C)
           /\ \E S : \E rows \in Activity(s, now) : sessions' = Revoked(rows, S)
           /\ \E P : passkeys' = Revoked(passkeys, P)
  <2>1. accounts[a] \in AccountRow
    BY <1>2, TableTypes
  <2>2. [accounts[a] EXCEPT !.status = status] \in AccountRow
    BY <2>1 DEF AccountRow
  <2>3. GrowAccounts
    BY <1>2, <2>2, ChangeAccount_
  <2>4. PICK S : \E rows \in Activity(s, now) : sessions' = Revoked(rows, S)
    BY <1>2
  <2>5. GrowSessions({})
    BY <1>2, <2>4, AdministratorKept, RevokeSessions
  <2> QED
    BY <1>2, <2>3, <2>5, InvalidateChallenges, RevokePasskeys DEF Grows
<1>3. CASE RequireAccount(s, a, now, r)
  BY <1>3, RefusedGrows DEF RequireAccount
<1> DEFINE ended == status = "deactivated"
<1>4. CASE /\ Administers(s, now) /\ a \in DOMAIN accounts
           /\ accounts' = [accounts EXCEPT ![a].status = status]
           /\ challenges' = Invalidated(IF ended THEN OpenOf(a) ELSE {})
           /\ \E rows \in Activity(s, now) : sessions' = Revoked(rows, IF ended THEN KeptOf(a) ELSE {})
           /\ passkeys' = Revoked(passkeys, IF ended THEN UsableOf(a) ELSE {})
  BY <1>2, <1>4
<1> QED
  BY <1>1, <1>3, <1>4 DEF SetAccountStatusAsAdministrator

LEMMA AuthorizationGrows ==
  ASSUME TablesOK, NEW s, NEW a, NEW grants \in SUBSET Grants, NEW domain \in Domains, NEW now \in Nat,
         ChangesAuthorization(s, a, grants, domain, now)
  PROVE  Grows({}, {})
<1>1. accounts[a] \in AccountRow /\ accounts[a].version \in Nat /\ a \in DOMAIN accounts
  BY TableTypes DEF ChangesAuthorization
<1>2. PICK version \in {accounts[a].version, accounts[a].version + 1} :
        accounts' = [accounts EXCEPT ![a] =
          [@ EXCEPT !.grants = grants, !.domain = domain, !.version = version]]
  BY DEF ChangesAuthorization
<1>3. [accounts[a] EXCEPT !.grants = grants, !.domain = domain, !.version = version] \in AccountRow
  <2>1. version \in Nat
    BY <1>1, <1>2
  <2> QED
    BY <1>1, <2>1 DEF AccountRow
<1>4. GrowAccounts
  BY <1>1, <1>2, <1>3, ChangeAccount_
<1>5. GrowSessions({})
  BY AdministratorKept, TouchSessions DEF ChangesAuthorization
<1> QED
  BY <1>4, <1>5, KeepChallenges, KeepPasskeys DEF Grows, ChangesAuthorization

LEMMA GrantsGrow ==
  ASSUME TablesOK, NEW s, NEW a, NEW g, NEW domain, NEW now \in Nat, NEW r,
         \/ g \in Grants /\ GrantFunctionalGrantAsAdministrator(s, a, g, now, r)
         \/ RevokeFunctionalGrantAsAdministrator(s, a, g, now, r)
         \/ domain \in Domains /\ SetDomainStatusAsAdministrator(s, a, domain, now, r)
  PROVE  Grows({}, {})
<1>1. CASE RequireAdministrator(s, now, r) \/ Fails(s, now)
  BY <1>1, RefusedGrows
<1>2. ASSUME NEW grants, grants \subseteq accounts[a].grants \cup Grants,
             ChangesAuthorization(s, a, grants, accounts[a].domain, now)
      PROVE  Grows({}, {})
  <2>1. accounts[a].grants \in SUBSET Grants /\ accounts[a].domain \in Domains
    BY <1>2, TableTypes DEF ChangesAuthorization
  <2> QED
    BY <1>2, <2>1, AuthorizationGrows
<1>3. ASSUME domain \in Domains, ChangesAuthorization(s, a, accounts[a].grants, domain, now)
      PROVE  Grows({}, {})
  <2>1. accounts[a].grants \in SUBSET Grants
    BY <1>3, TableTypes DEF ChangesAuthorization
  <2> QED
    BY <1>3, <2>1, AuthorizationGrows
<1>4. CASE g \in Grants /\ GrantFunctionalGrantAsAdministrator(s, a, g, now, r)
  <2>1. accounts[a].grants \cup {g} \subseteq accounts[a].grants \cup Grants
    BY <1>4
  <2> QED
    BY <1>1, <1>2, <1>4, <2>1 DEF GrantFunctionalGrantAsAdministrator, OwnersOnly, RefusesChange
<1>5. CASE RevokeFunctionalGrantAsAdministrator(s, a, g, now, r)
  <2>1. accounts[a].grants \ {g} \subseteq accounts[a].grants \cup Grants
    OBVIOUS
  <2> QED
    BY <1>1, <1>2, <1>5, <2>1 DEF RevokeFunctionalGrantAsAdministrator, OwnersOnly, RefusesChange
<1>6. CASE domain \in Domains /\ SetDomainStatusAsAdministrator(s, a, domain, now, r)
  BY <1>1, <1>3, <1>6 DEF SetDomainStatusAsAdministrator, RefusesChange
<1> QED
  BY <1>4, <1>5, <1>6

LEMMA RevokingGrows ==
  ASSUME TablesOK, NEW s, NEW a, NEW victim, NEW now \in Nat, NEW r,
         \/ RevokeAllSessionsAsAdministrator(s, a, now, r)
         \/ RevokeSessionAsAdministrator(s, a, victim, now, r)
  PROVE  Grows({}, {})
<1>1. CASE RequireAdministrator(s, now, r) \/ Fails(s, now)
  BY <1>1, RefusedGrows
<1>2. ASSUME NEW S, Administers(s, now), \E rows \in Activity(s, now) : sessions' = Revoked(rows, S),
             UNCHANGED <<accounts, challenges, passkeys>>
      PROVE  Grows({}, {})
  <2>1. GrowSessions({})
    BY <1>2, AdministratorKept, RevokeSessions
  <2> QED
    BY <1>2, <2>1, KeepAccounts, KeepChallenges, KeepPasskeys DEF Grows
<1> QED
  BY <1>1, <1>2
     DEF RevokeAllSessionsAsAdministrator, RevokeSessionAsAdministrator, RequireAccount

-----------------------------------------------------------------------------
(* Every operation *)

\* The parameters by which rows are made are of their types.
Given(q) ==
  /\ q.op \notin {"find", "logout", "invalidate", "bootstrap"} => q.now \in Nat
  /\ q.op \in {"consume", "exchange", "login"} => q.fresh \in Sessions
  /\ q.op = "exchange" => q.token \in Tokens
  /\ q.op = "issue" => q.challenge \in Challenges
  /\ q.op = "register" => q.passkey \in Passkeys /\ q.count \in Nat
  /\ q.op = "login" => q.observed \in Nat
  /\ q.op = "create" => q.account \in Accounts
  /\ q.op \in {"create", "update", "bootstrap"} => q.email \in Emails
  /\ q.op = "status" => q.status \in {"active", "deactivated"}
  /\ q.op = "grant" => q.grant \in Grants
  /\ q.op = "domain" => q.domain \in Domains

\* The ids under which an operation may add a session or a passkey
FreshSession(q) == IF q.op \in {"consume", "exchange", "login"} THEN {q.fresh} ELSE {}
FreshPasskey(q) == IF q.op = "register" THEN {q.passkey} ELSE {}

LEMMA PerformGrows ==
  ASSUME TablesOK, NEW q, Given(q), NEW r, Perform(q, r)
  PROVE  Grows(FreshSession(q), FreshPasskey(q))
<1> DEFINE Quiet == q.op \notin {"consume", "exchange", "login", "register"}
<1>0. Quiet => FreshSession(q) = {} /\ FreshPasskey(q) = {}
  BY DEF FreshSession, FreshPasskey
<1>1. CASE q.op = "authenticate" /\ AuthenticateSession(q.session, q.now, r)
  BY <1>0, <1>1, AuthenticateGrows DEF Given
<1>2. CASE \/ q.op = "validate" /\ ValidateSession(q.session, q.now, r)
           \/ q.op = "find" /\ FindAccountById(q.account, r)
           \/ q.op = "read" /\ ReadPasskeyByCredentialId(q.passkey, q.now, r)
  BY <1>0, <1>2, KeepTables DEF ValidateSession, FindAccountById, ReadPasskeyByCredentialId
<1>3. CASE q.op = "logout" /\ RevokeSessionByVerifier(q.session, r)
  BY <1>0, <1>3, LogoutGrows
<1>4. CASE q.op = "issue" /\ IssueEmailChallenge(q.email, q.challenge, q.now, r)
  BY <1>0, <1>4, IssueGrows DEF Given
<1>5. CASE q.op = "invalidate" /\ InvalidateChallenge(q.challenge, r)
  BY <1>0, <1>5, InvalidateGrows
<1>6. CASE q.op = "consume" /\ ConsumeChallengeAndCreateSession(q.challenge, q.right, q.fresh, q.now, r)
  <2>1. Grows({q.fresh}, {})
    BY <1>6, ConsumeGrows DEF Given
  <2> QED
    BY <1>6, <2>1 DEF FreshSession, FreshPasskey
<1>7. CASE q.op = "exchange" /\ CreateOidcSession(q.account, q.token, q.fresh, q.now, r)
  <2>1. Grows({q.fresh}, {})
    BY <1>7, ExchangeGrows DEF Given
  <2> QED
    BY <1>7, <2>1 DEF FreshSession, FreshPasskey
<1>8. CASE q.op = "register" /\ RegisterPasskey(q.session, q.passkey, q.count, q.now, r)
  <2>1. Grows({}, {q.passkey})
    BY <1>8, RegisterGrows DEF Given
  <2> QED
    BY <1>8, <2>1 DEF FreshSession, FreshPasskey
<1>9. CASE q.op = "login" /\ CompletePasskeyLogin(q.passkey, q.expected, q.observed, q.fresh, q.now, r)
  <2>1. Grows({q.fresh}, {})
    BY <1>9, LoginGrows DEF Given
  <2> QED
    BY <1>9, <2>1 DEF FreshSession, FreshPasskey
<1>10. CASE q.op = "bootstrap" /\ BootstrapAdministrator(q.email, r)
  BY <1>0, <1>10, BootstrapGrows DEF Given
<1>11. CASE q.op = "reset" /\ AdminSecurityResetAuthAccess(q.session, q.account, q.now, r)
  BY <1>0, <1>11, ResetGrows DEF Given
<1>12. CASE q.op = "create" /\ CreateAccountAsAdministrator(q.session, q.account, q.email, q.now, r)
  BY <1>0, <1>12, CreateGrows DEF Given
<1>13. CASE q.op = "update" /\ UpdateAccountAsAdministrator(q.session, q.account, q.email, q.now, r)
  BY <1>0, <1>13, UpdateGrows DEF Given
<1>14. CASE q.op = "status" /\ SetAccountStatusAsAdministrator(q.session, q.account, q.status, q.now, r)
  BY <1>0, <1>14, StatusGrows DEF Given
<1>15. CASE \/ q.op = "grant" /\ GrantFunctionalGrantAsAdministrator(q.session, q.account, q.grant, q.now, r)
            \/ q.op = "ungrant" /\ RevokeFunctionalGrantAsAdministrator(q.session, q.account, q.grant, q.now, r)
            \/ q.op = "domain" /\ SetDomainStatusAsAdministrator(q.session, q.account, q.domain, q.now, r)
  BY <1>0, <1>15, GrantsGrow DEF Given
<1>16. CASE \/ q.op = "revoke_all" /\ RevokeAllSessionsAsAdministrator(q.session, q.account, q.now, r)
            \/ q.op = "revoke" /\ RevokeSessionAsAdministrator(q.session, q.account, q.victim, q.now, r)
  BY <1>0, <1>16, RevokingGrows DEF Given
<1> QED
  BY <1>1, <1>2, <1>3, <1>4, <1>5, <1>6, <1>7, <1>8, <1>9, <1>10, <1>11, <1>12, <1>13, <1>14, <1>15,
     <1>16 DEF Perform

\* What a positive answer tells of the rows
LEMMA PerformAnswers ==
  ASSUME TablesOK, NEW q, Given(q), NEW r, Perform(q, r)
  PROVE  /\ q.op \in {"authenticate", "validate"} /\ r = "ok" =>
              q.session \in DOMAIN sessions /\ sessions[q.session].account \in DOMAIN accounts
         /\ q.op = "read" /\ r = "ok" => q.passkey \in DOMAIN passkeys
         /\ q.op \in {"consume", "exchange", "login"} /\ r = "ok" => q.fresh \in DOMAIN sessions'
         /\ q.op = "logout" /\ q.session \in DOMAIN sessions => sessions'[q.session].revoked
         /\ q.op = "register" =>
              \/ UNCHANGED passkeys
              \/ /\ q.session \in DOMAIN sessions /\ q.passkey \in DOMAIN passkeys'
                 /\ passkeys'[q.passkey].account = sessions[q.session].account
         /\ q.op = "logout" => r \in {"ok", "invalid"}
         /\ q.op = "issue" => r \in {"ok", "neutral"}
<1>1. CASE q.op = "authenticate"
  BY <1>1, AuthenticateGrows DEF Given, Perform, Active
<1>2. CASE q.op = "validate"
  BY <1>2 DEF Perform, ValidateSession, Live, Kept, Active
<1>3. CASE q.op = "read"
  BY <1>3 DEF Perform, ReadPasskeyByCredentialId, Readable, Usable
<1>4. CASE q.op = "consume"
  BY <1>4, ConsumeGrows DEF Given, Perform
<1>5. CASE q.op = "exchange"
  BY <1>5, ExchangeGrows DEF Given, Perform
<1>6. CASE q.op = "login"
  BY <1>6, LoginGrows DEF Given, Perform
<1>7. CASE q.op = "logout"
  BY <1>7, LogoutGrows DEF Perform, RevokeSessionByVerifier
<1>8. CASE q.op = "register"
  BY <1>8, RegisterGrows DEF Given, Perform
<1>9. CASE q.op = "issue"
  BY <1>9 DEF Perform, IssueEmailChallenge
<1> QED
  BY <1>1, <1>2, <1>3, <1>4, <1>5, <1>6, <1>7, <1>8, <1>9

\* Only a request for a code is answered with nothing.
LEMMA NeutralAnswers ==
  ASSUME NEW q, NEW r, Perform(q, r), r = "neutral"
  PROVE  q.op = "issue"
<1>1. \A s, now : ~AuthenticateSession(s, now, r) /\ ~ValidateSession(s, now, r)
  BY DEF AuthenticateSession, ValidateSession
<1>2. \A x : ~FindAccountById(x, r) /\ ~RevokeSessionByVerifier(x, r) /\ ~InvalidateChallenge(x, r)
              /\ ~BootstrapAdministrator(x, r)
  BY DEF FindAccountById, RevokeSessionByVerifier, InvalidateChallenge, BootstrapAdministrator
<1>3. \A x, y, z, w, now :
        /\ ~ReadPasskeyByCredentialId(x, now, r) /\ ~ConsumeChallengeAndCreateSession(x, y, z, now, r)
        /\ ~CreateOidcSession(x, y, z, now, r) /\ ~RegisterPasskey(x, y, z, now, r)
        /\ ~CompletePasskeyLogin(x, y, z, w, now, r)
  BY DEF ReadPasskeyByCredentialId, ConsumeChallengeAndCreateSession, CreateOidcSession,
         RegisterPasskey, CompletePasskeyLogin
<1>4. \A s, x, y, now :
        /\ ~AdminSecurityResetAuthAccess(s, x, now, r) /\ ~CreateAccountAsAdministrator(s, x, y, now, r)
        /\ ~UpdateAccountAsAdministrator(s, x, y, now, r)
        /\ ~SetAccountStatusAsAdministrator(s, x, y, now, r)
        /\ ~RevokeAllSessionsAsAdministrator(s, x, now, r)
        /\ ~RevokeSessionAsAdministrator(s, x, y, now, r)
  BY DEF AdminSecurityResetAuthAccess, CreateAccountAsAdministrator, UpdateAccountAsAdministrator,
         SetAccountStatusAsAdministrator, RevokeAllSessionsAsAdministrator,
         RevokeSessionAsAdministrator, RequireAdministrator, RequireAccount
<1>5. \A s, x, y, now :
        /\ ~GrantFunctionalGrantAsAdministrator(s, x, y, now, r)
        /\ ~RevokeFunctionalGrantAsAdministrator(s, x, y, now, r)
        /\ ~SetDomainStatusAsAdministrator(s, x, y, now, r)
  BY DEF GrantFunctionalGrantAsAdministrator, RevokeFunctionalGrantAsAdministrator,
         SetDomainStatusAsAdministrator, RequireAdministrator, OwnersOnly, RefusesChange
<1> QED
  BY <1>1, <1>2, <1>3, <1>4, <1>5 DEF Perform

-----------------------------------------------------------------------------
(* The ways in which an operation changes each table, and what no operation *)
(* takes back                                                               *)

\* A call of the owner that makes account a an administrator or ends that.
OwnerAsks(q, a) ==
  /\ q.op \in {"grant", "ungrant"} /\ q.grant = Admin /\ q.account = a
  /\ Administers(q.session, q.now) /\ sessions[q.session].account = Owner
  /\ q.op = "ungrant" => a # Owner

AccountsChange(q) ==
  \/ UNCHANGED accounts
  \/ \E k, row : k \notin DOMAIN accounts /\ accounts' = Stored(accounts, k, row)
  \/ \E a \in DOMAIN accounts : \E e : accounts' = [accounts EXCEPT ![a].email = e]
  \/ \E a \in DOMAIN accounts : \E s : accounts' = [accounts EXCEPT ![a].status = s]
  \/ \E a \in DOMAIN accounts : \E grants, domain :
       /\ \E version \in {accounts[a].version, accounts[a].version + 1} :
            accounts' = [accounts EXCEPT ![a] =
              [@ EXCEPT !.grants = grants, !.domain = domain, !.version = version]]
       /\ q.op \in {"grant", "ungrant", "domain"}
       /\ (Admin \in accounts[a].grants) # (Admin \in grants) => OwnerAsks(q, a)

ChallengesChange(q) ==
  \/ \E C : challenges' = Invalidated(C)
  \/ \E c : Open(c) /\ challenges' = [challenges EXCEPT ![c].attempts = @ + 1]
  \/ \E c : Open(c) /\ challenges' = [challenges EXCEPT ![c].state = "used"]
  \/ \E a \in Accounts, row \in ChallengeRow :
       /\ q.op = "issue" /\ row.account = a
       /\ challenges' = Stored(Invalidated(OpenOf(a)), q.challenge, row)

SessionsChange(q) ==
  \/ \E S : sessions' = Revoked(sessions, S)
  \/ Kept(q.session) /\ sessions' = Touched(q.session, q.now) /\ q.now \in Nat
  \/ \E S : Kept(q.session) /\ sessions' = Revoked(Touched(q.session, q.now), S) /\ q.now \in Nat
  \/ \E row : q.op \in {"consume", "exchange", "login"} /\ sessions' = Stored(sessions, q.fresh, row)

PasskeysChange(q) ==
  \/ \E P : passkeys' = Revoked(passkeys, P)
  \/ \E p : \E n \in Nat : Usable(p) /\ passkeys' = [passkeys EXCEPT ![p].count = Greatest(@, n)]
  \/ \E row : q.op = "register" /\ passkeys' = Stored(passkeys, q.passkey, row)

TablesChange(q) == AccountsChange(q) /\ ChallengesChange(q) /\ SessionsChange(q) /\ PasskeysChange(q)

\* An unchanged table is one in which nothing is ended.
LEMMA NothingEnded ==
  ASSUME TablesOK
  PROVE  /\ challenges = Invalidated({}) /\ sessions = Revoked(sessions, {})
         /\ passkeys = Revoked(passkeys, {})
<1>1. challenges = Invalidated({})
  BY InvalidatedChallenges DEF TablesOK
<1>2. sessions = Revoked(sessions, {})
  BY RevokedSession, TableTypes DEF TablesOK
<1>3. passkeys = Revoked(passkeys, {})
  BY RevokedPasskey DEF TablesOK
<1> QED
  BY <1>1, <1>2, <1>3

LEMMA SessionOpsChange ==
  ASSUME TablesOK, NEW q, Given(q), NEW r,
         \/ q.op = "authenticate" /\ AuthenticateSession(q.session, q.now, r)
         \/ q.op = "validate" /\ ValidateSession(q.session, q.now, r)
         \/ q.op = "find" /\ FindAccountById(q.account, r)
         \/ q.op = "read" /\ ReadPasskeyByCredentialId(q.passkey, q.now, r)
         \/ q.op = "logout" /\ RevokeSessionByVerifier(q.session, r)
  PROVE  TablesChange(q)
<1>1. ASSUME UNCHANGED tables
      PROVE  TablesChange(q)
  BY <1>1, NothingEnded
     DEF tables, TablesChange, AccountsChange, ChallengesChange, SessionsChange, PasskeysChange
<1>2. ASSUME NEW s, sessions' = Revoked(sessions, {s}), UNCHANGED <<accounts, challenges, passkeys>>
      PROVE  TablesChange(q)
  BY <1>2, NothingEnded
     DEF TablesChange, AccountsChange, ChallengesChange, SessionsChange, PasskeysChange
<1>3. ASSUME q.op = "authenticate", Kept(q.session), sessions' = Touched(q.session, q.now),
             UNCHANGED <<accounts, challenges, passkeys>>
      PROVE  TablesChange(q)
  BY <1>3, NothingEnded
     DEF TablesChange, AccountsChange, ChallengesChange, SessionsChange, PasskeysChange, Given
<1> QED
  BY <1>1, <1>2, <1>3 DEF AuthenticateSession, ValidateSession, FindAccountById,
     ReadPasskeyByCredentialId, RevokeSessionByVerifier

LEMMA ChallengeOpsChange ==
  ASSUME TablesOK, NEW q, Given(q), NEW r,
         \/ q.op = "issue" /\ IssueEmailChallenge(q.email, q.challenge, q.now, r)
         \/ q.op = "invalidate" /\ InvalidateChallenge(q.challenge, r)
         \/ q.op = "consume"
              /\ ConsumeChallengeAndCreateSession(q.challenge, q.right, q.fresh, q.now, r)
         \/ q.op = "exchange" /\ CreateOidcSession(q.account, q.token, q.fresh, q.now, r)
  PROVE  TablesChange(q)
<1>1. ASSUME UNCHANGED tables
      PROVE  TablesChange(q)
  BY <1>1, NothingEnded
     DEF tables, TablesChange, AccountsChange, ChallengesChange, SessionsChange, PasskeysChange
<1>2. ASSUME ChallengesChange(q), UNCHANGED <<accounts, sessions, passkeys>>
      PROVE  TablesChange(q)
  BY <1>2, NothingEnded DEF TablesChange, AccountsChange, SessionsChange, PasskeysChange
<1>3. CASE q.op = "issue" /\ IssueEmailChallenge(q.email, q.challenge, q.now, r)
  <2>1. CASE /\ UNCHANGED <<accounts, sessions, passkeys>>
             /\ \E a \in Recipient(q.email) :
                  challenges' = Stored(Invalidated(OpenOf(a)), q.challenge,
                    [account |-> a, issued |-> q.now, expires |-> q.now + CodeLifetime,
                     attempts |-> 0, state |-> "open"])
    <3>1. PICK a \in Recipient(q.email) :
            challenges' = Stored(Invalidated(OpenOf(a)), q.challenge,
              [account |-> a, issued |-> q.now, expires |-> q.now + CodeLifetime,
               attempts |-> 0, state |-> "open"])
      BY <2>1
    <3>2. a \in Accounts /\ q.now \in Nat /\ q.now + CodeLifetime \in Nat
      BY <1>3, <3>1, PolicyAssumption DEF Recipient, TablesOK, Given
    <3> DEFINE row == [account |-> a, issued |-> q.now, expires |-> q.now + CodeLifetime,
                       attempts |-> 0, state |-> "open"]
    <3>3. row \in ChallengeRow /\ row.account = a
      BY <3>2 DEF ChallengeRow
    <3> HIDE DEF row
    <3>4. challenges' = Stored(Invalidated(OpenOf(a)), q.challenge, row)
      BY <3>1 DEF row
    <3>5. ChallengesChange(q)
      BY <1>3, <3>2, <3>3, <3>4 DEF ChallengesChange
    <3> QED
      BY <1>2, <2>1, <3>5
  <2> QED
    BY <1>1, <1>3, <2>1 DEF IssueEmailChallenge
<1>4. CASE q.op = "invalidate" /\ InvalidateChallenge(q.challenge, r)
  BY <1>2, <1>4 DEF InvalidateChallenge, ChallengesChange
<1>5. CASE q.op = "consume"
             /\ ConsumeChallengeAndCreateSession(q.challenge, q.right, q.fresh, q.now, r)
  <2> DEFINE c == q.challenge
  <2>1. CASE /\ Consumable(c, q.now) /\ UNCHANGED <<accounts, sessions, passkeys>>
             /\ \/ challenges' = [challenges EXCEPT ![c].attempts = @ + 1]
                \/ challenges' = Invalidated({c})
    <3>1. ChallengesChange(q)
      BY <2>1 DEF ChallengesChange, Consumable
    <3> QED
      BY <1>2, <2>1, <3>1
  <2>2. CASE /\ Consumable(c, q.now) /\ UNCHANGED <<accounts, passkeys>>
             /\ challenges' = [challenges EXCEPT ![c].state = "used"]
             /\ sessions' = Stored(sessions, q.fresh,
                  NewSession(challenges[c].account, [kind |-> "challenge", of |-> c], q.now))
    <3>1. ChallengesChange(q)
      BY <2>2 DEF ChallengesChange, Consumable
    <3>2. SessionsChange(q)
      BY <1>5, <2>2 DEF SessionsChange
    <3> QED
      BY <2>2, <3>1, <3>2, NothingEnded DEF TablesChange, AccountsChange, PasskeysChange
  <2> QED
    BY <1>1, <1>5, <2>1, <2>2 DEF ConsumeChallengeAndCreateSession
<1>6. CASE q.op = "exchange" /\ CreateOidcSession(q.account, q.token, q.fresh, q.now, r)
  <2>1. CASE /\ UNCHANGED <<accounts, challenges, passkeys>>
             /\ sessions' = Stored(sessions, q.fresh,
                  NewSession(q.account, [kind |-> "token", of |-> q.token], q.now))
    <3>1. SessionsChange(q)
      BY <1>6, <2>1 DEF SessionsChange
    <3> QED
      BY <2>1, <3>1, NothingEnded DEF TablesChange, AccountsChange, ChallengesChange, PasskeysChange
  <2> QED
    BY <1>1, <1>6, <2>1 DEF CreateOidcSession
<1> QED
  BY <1>3, <1>4, <1>5, <1>6

LEMMA PasskeyOpsChange ==
  ASSUME TablesOK, NEW q, Given(q), NEW r,
         \/ q.op = "register" /\ RegisterPasskey(q.session, q.passkey, q.count, q.now, r)
         \/ q.op = "login"
              /\ CompletePasskeyLogin(q.passkey, q.expected, q.observed, q.fresh, q.now, r)
         \/ q.op = "bootstrap" /\ BootstrapAdministrator(q.email, r)
  PROVE  TablesChange(q)
<1>1. ASSUME UNCHANGED tables
      PROVE  TablesChange(q)
  BY <1>1, NothingEnded
     DEF tables, TablesChange, AccountsChange, ChallengesChange, SessionsChange, PasskeysChange
<1>2. CASE /\ q.op = "register" /\ UNCHANGED <<accounts, challenges, sessions>>
           /\ passkeys' = Stored(passkeys, q.passkey,
                [account |-> sessions[q.session].account, created |-> q.now, count |-> q.count,
                 revoked |-> FALSE])
  <2>1. PasskeysChange(q)
    BY <1>2 DEF PasskeysChange
  <2> QED
    BY <1>2, <2>1, NothingEnded DEF TablesChange, AccountsChange, ChallengesChange, SessionsChange
<1>3. CASE /\ q.op = "login" /\ Usable(q.passkey) /\ UNCHANGED <<accounts, challenges>>
           /\ passkeys' = [passkeys EXCEPT ![q.passkey].count = Greatest(@, q.observed)]
           /\ sessions' = Stored(sessions, q.fresh,
                NewSession(passkeys[q.passkey].account,
                           [kind |-> "passkey", of |-> q.passkey], q.now))
  <2>1. PasskeysChange(q)
    BY <1>3 DEF PasskeysChange, Given
  <2>2. SessionsChange(q)
    BY <1>3 DEF SessionsChange
  <2> QED
    BY <1>3, <2>1, <2>2, NothingEnded DEF TablesChange, AccountsChange, ChallengesChange
<1>4. CASE /\ Owner \notin DOMAIN accounts /\ UNCHANGED <<challenges, sessions, passkeys>>
           /\ accounts' = Stored(accounts, Owner,
                [status |-> "active", email |-> q.email, grants |-> {Admin},
                 domain |-> "incubator_participant", version |-> 1])
  <2>1. AccountsChange(q)
    BY <1>4 DEF AccountsChange
  <2> QED
    BY <1>4, <2>1, NothingEnded DEF TablesChange, ChallengesChange, SessionsChange, PasskeysChange
<1> QED
  BY <1>1, <1>2, <1>3, <1>4 DEF RegisterPasskey, CompletePasskeyLogin, BootstrapAdministrator

\* What an administrator's call leaves of the sessions when it ends some
LEMMA ActivityChange ==
  ASSUME TablesOK, NEW q, q.now \in Nat, Kept(q.session), NEW S,
         \E rows \in Activity(q.session, q.now) : sessions' = Revoked(rows, S)
  PROVE  SessionsChange(q)
  BY DEF Activity, SessionsChange

LEMMA RefusalChange ==
  ASSUME TablesOK, NEW q, q.now \in Nat, NEW r,
         RequireAdministrator(q.session, q.now, r) \/ Fails(q.session, q.now)
  PROVE  TablesChange(q)
<1>1. CASE UNCHANGED tables
  BY <1>1, NothingEnded
     DEF tables, TablesChange, AccountsChange, ChallengesChange, SessionsChange, PasskeysChange
<1>2. CASE Fails(q.session, q.now)
  <2>1. Kept(q.session) /\ sessions' \in Activity(q.session, q.now)
    BY <1>2 DEF Fails, Administers, Live
  <2>2. SessionsChange(q)
    BY <2>1, NothingEnded DEF Activity, SessionsChange
  <2> QED
    BY <1>2, <2>2, NothingEnded
       DEF Fails, TablesChange, AccountsChange, ChallengesChange, PasskeysChange
<1> QED
  BY <1>1, <1>2 DEF RequireAdministrator

LEMMA AccountOpsChange ==
  ASSUME TablesOK, NEW q, Given(q), NEW r,
         \/ q.op = "create"
              /\ CreateAccountAsAdministrator(q.session, q.account, q.email, q.now, r)
         \/ q.op = "update"
              /\ UpdateAccountAsAdministrator(q.session, q.account, q.email, q.now, r)
         \/ q.op = "status"
              /\ SetAccountStatusAsAdministrator(q.session, q.account, q.status, q.now, r)
         \/ q.op = "reset" /\ AdminSecurityResetAuthAccess(q.session, q.account, q.now, r)
         \/ q.op = "revoke_all" /\ RevokeAllSessionsAsAdministrator(q.session, q.account, q.now, r)
         \/ q.op = "revoke"
              /\ RevokeSessionAsAdministrator(q.session, q.account, q.victim, q.now, r)
  PROVE  TablesChange(q)
<1> DEFINE s == q.session
           a == q.account
<1>0. q.now \in Nat
  BY DEF Given
<1>1. CASE RequireAdministrator(s, q.now, r) \/ Fails(s, q.now)
  BY <1>0, <1>1, RefusalChange
<1>2. ASSUME Administers(s, q.now)
      PROVE  /\ sessions' \in Activity(s, q.now) => SessionsChange(q)
             /\ \A S : (\E rows \in Activity(s, q.now) : sessions' = Revoked(rows, S)) =>
                  SessionsChange(q)
  <2>1. Kept(s)
    BY <1>2 DEF Administers, Live
  <2>2. sessions' \in Activity(s, q.now) => SessionsChange(q)
    BY <1>0, <2>1, NothingEnded DEF Activity, SessionsChange
  <2> QED
    BY <1>0, <2>1, <2>2, ActivityChange
<1>3. CASE q.op = "create" /\ CreateAccountAsAdministrator(s, a, q.email, q.now, r)
  <2>1. CASE /\ Administers(s, q.now) /\ a \notin DOMAIN accounts
             /\ accounts' = Stored(accounts, a,
                  [status |-> "active", email |-> q.email, grants |-> {},
                   domain |-> "incubator_participant", version |-> 1])
             /\ sessions' \in Activity(s, q.now) /\ UNCHANGED <<challenges, passkeys>>
    <3>1. AccountsChange(q)
      BY <2>1 DEF AccountsChange
    <3> QED
      BY <1>2, <2>1, <3>1, NothingEnded DEF TablesChange, ChallengesChange, PasskeysChange
  <2> QED
    BY <1>1, <1>3, <2>1 DEF CreateAccountAsAdministrator
<1>4. CASE q.op = "update" /\ UpdateAccountAsAdministrator(s, a, q.email, q.now, r)
  <2>1. CASE /\ Administers(s, q.now) /\ a \in DOMAIN accounts
             /\ accounts' = [accounts EXCEPT ![a].email = q.email]
             /\ sessions' \in Activity(s, q.now) /\ UNCHANGED <<challenges, passkeys>>
    <3>1. AccountsChange(q)
      BY <2>1 DEF AccountsChange
    <3> QED
      BY <1>2, <2>1, <3>1, NothingEnded DEF TablesChange, ChallengesChange, PasskeysChange
  <2> QED
    BY <1>1, <1>4, <2>1 DEF UpdateAccountAsAdministrator, RequireAccount
<1>5. CASE q.op = "status" /\ SetAccountStatusAsAdministrator(s, a, q.status, q.now, r)
  <2> DEFINE ended == q.status = "deactivated"
  <2>1. CASE /\ Administers(s, q.now) /\ a \in DOMAIN accounts
             /\ accounts' = [accounts EXCEPT ![a].status = q.status]
             /\ challenges' = Invalidated(IF ended THEN OpenOf(a) ELSE {})
             /\ \E rows \in Activity(s, q.now) :
                  sessions' = Revoked(rows, IF ended THEN KeptOf(a) ELSE {})
             /\ passkeys' = Revoked(passkeys, IF ended THEN UsableOf(a) ELSE {})
    <3>1. AccountsChange(q)
      BY <2>1 DEF AccountsChange
    <3>2. ChallengesChange(q) /\ PasskeysChange(q)
      BY <2>1 DEF ChallengesChange, PasskeysChange
    <3>3. SessionsChange(q)
      BY <1>2, <2>1
    <3> QED
      BY <3>1, <3>2, <3>3 DEF TablesChange
  <2> QED
    BY <1>1, <1>5, <2>1 DEF SetAccountStatusAsAdministrator, RequireAccount
<1>6. CASE q.op = "reset" /\ AdminSecurityResetAuthAccess(s, a, q.now, r)
  <2>1. CASE /\ Administers(s, q.now) /\ challenges' = Invalidated(OpenOf(a))
             /\ \E rows \in Activity(s, q.now) : sessions' = Revoked(rows, KeptOf(a))
             /\ passkeys' = Revoked(passkeys, UsableOf(a)) /\ UNCHANGED accounts
    <3>1. ChallengesChange(q) /\ PasskeysChange(q) /\ AccountsChange(q)
      BY <2>1 DEF ChallengesChange, PasskeysChange, AccountsChange
    <3>2. SessionsChange(q)
      BY <1>2, <2>1
    <3> QED
      BY <3>1, <3>2 DEF TablesChange
  <2> QED
    BY <1>1, <1>6, <2>1 DEF AdminSecurityResetAuthAccess, RequireAccount
<1>7. CASE \/ q.op = "revoke_all" /\ RevokeAllSessionsAsAdministrator(s, a, q.now, r)
           \/ q.op = "revoke" /\ RevokeSessionAsAdministrator(s, a, q.victim, q.now, r)
  <2>1. ASSUME NEW S, Administers(s, q.now), UNCHANGED <<accounts, challenges, passkeys>>,
               \E rows \in Activity(s, q.now) : sessions' = Revoked(rows, S)
        PROVE  TablesChange(q)
    BY <1>2, <2>1, NothingEnded DEF TablesChange, ChallengesChange, PasskeysChange, AccountsChange
  <2> QED
    BY <1>1, <1>7, <2>1
       DEF RevokeAllSessionsAsAdministrator, RevokeSessionAsAdministrator, RequireAccount
<1> QED
  BY <1>3, <1>4, <1>5, <1>6, <1>7

LEMMA GrantOpsChange ==
  ASSUME TablesOK, NEW q, Given(q), NEW r,
         \/ q.op = "grant"
              /\ GrantFunctionalGrantAsAdministrator(q.session, q.account, q.grant, q.now, r)
         \/ q.op = "ungrant"
              /\ RevokeFunctionalGrantAsAdministrator(q.session, q.account, q.grant, q.now, r)
         \/ q.op = "domain"
              /\ SetDomainStatusAsAdministrator(q.session, q.account, q.domain, q.now, r)
  PROVE  TablesChange(q)
<1> DEFINE s == q.session
           a == q.account
<1>0. q.now \in Nat
  BY DEF Given
<1>1. CASE RequireAdministrator(s, q.now, r) \/ Fails(s, q.now)
  BY <1>0, <1>1, RefusalChange
<1>2. ASSUME NEW grants, NEW domain, ChangesAuthorization(s, a, grants, domain, q.now),
             (Admin \in accounts[a].grants) # (Admin \in grants) => OwnerAsks(q, a)
      PROVE  TablesChange(q)
  <2>1. AccountsChange(q)
    BY <1>2 DEF ChangesAuthorization, AccountsChange
  <2>2. SessionsChange(q)
    BY <1>0, <1>2, NothingEnded
       DEF ChangesAuthorization, Administers, Live, Activity, SessionsChange
  <2> QED
    BY <1>2, <2>1, <2>2, NothingEnded
       DEF ChangesAuthorization, TablesChange, ChallengesChange, PasskeysChange
<1>3. CASE q.op = "grant" /\ GrantFunctionalGrantAsAdministrator(s, a, q.grant, q.now, r)
  <2>1. CASE /\ MayManage(s, q.grant)
             /\ ChangesAuthorization(s, a, accounts[a].grants \cup {q.grant},
                                     accounts[a].domain, q.now)
    <3>1. (Admin \in accounts[a].grants) # (Admin \in accounts[a].grants \cup {q.grant}) =>
            OwnerAsks(q, a)
      BY <1>3, <2>1 DEF OwnerAsks, MayManage, ChangesAuthorization
    <3> QED
      BY <1>2, <2>1, <3>1
  <2> QED
    BY <1>1, <1>3, <2>1 DEF GrantFunctionalGrantAsAdministrator, OwnersOnly, RefusesChange
<1>4. CASE q.op = "ungrant" /\ RevokeFunctionalGrantAsAdministrator(s, a, q.grant, q.now, r)
  <2>1. CASE /\ MayManage(s, q.grant) /\ ~(q.grant = Admin /\ a = Owner)
             /\ ChangesAuthorization(s, a, accounts[a].grants \ {q.grant},
                                     accounts[a].domain, q.now)
    <3>1. (Admin \in accounts[a].grants) # (Admin \in accounts[a].grants \ {q.grant}) =>
            OwnerAsks(q, a)
      BY <1>4, <2>1 DEF OwnerAsks, MayManage, ChangesAuthorization
    <3> QED
      BY <1>2, <2>1, <3>1
  <2> QED
    BY <1>1, <1>4, <2>1 DEF RevokeFunctionalGrantAsAdministrator, OwnersOnly, RefusesChange
<1>5. CASE q.op = "domain" /\ SetDomainStatusAsAdministrator(s, a, q.domain, q.now, r)
  BY <1>1, <1>2, <1>5 DEF SetDomainStatusAsAdministrator, RefusesChange
<1> QED
  BY <1>3, <1>4, <1>5

LEMMA PerformChanges ==
  ASSUME TablesOK, NEW q, Given(q), NEW r, Perform(q, r)
  PROVE  TablesChange(q)
<1>1. CASE q.op \in {"authenticate", "validate", "find", "read", "logout"}
  BY <1>1, SessionOpsChange DEF Perform
<1>2. CASE q.op \in {"issue", "invalidate", "consume", "exchange"}
  BY <1>2, ChallengeOpsChange DEF Perform
<1>3. CASE q.op \in {"register", "login", "bootstrap"}
  BY <1>3, PasskeyOpsChange DEF Perform
<1>4. CASE q.op \in {"create", "update", "status", "reset", "revoke_all", "revoke"}
  BY <1>4, AccountOpsChange DEF Perform
<1>5. CASE q.op \in {"grant", "ungrant", "domain"}
  BY <1>5, GrantOpsChange DEF Perform
<1> QED
  BY <1>1, <1>2, <1>3, <1>4, <1>5 DEF Perform

\* An operation that makes an administrator, or ends that, is asked for by the owner.
LEMMA OwnersAsk ==
  ASSUME TablesOK, NEW q, Given(q), NEW r, Perform(q, r), NEW a \in DOMAIN accounts,
         (Admin \in accounts[a].grants) # (Admin \in accounts'[a].grants)
  PROVE  OwnerAsks(q, a)
<1>1. AccountsChange(q)
  BY PerformChanges DEF TablesChange
<1>2. \A b \in DOMAIN accounts : accounts[b] \in AccountRow
  BY TableTypes
<1>3. ASSUME NEW k, NEW row, k \notin DOMAIN accounts, accounts' = Stored(accounts, k, row)
      PROVE  FALSE
  BY <1>3 DEF Stored
<1>4. ASSUME NEW b \in DOMAIN accounts, NEW row, accounts' = [accounts EXCEPT ![b] = row],
             row.grants = accounts[b].grants
      PROVE  FALSE
  BY <1>4
<1>5. ASSUME NEW b \in DOMAIN accounts, NEW e, accounts' = [accounts EXCEPT ![b].email = e]
      PROVE  FALSE
  BY <1>2, <1>4, <1>5 DEF AccountRow
<1>6. ASSUME NEW b \in DOMAIN accounts, NEW s, accounts' = [accounts EXCEPT ![b].status = s]
      PROVE  FALSE
  BY <1>2, <1>4, <1>6 DEF AccountRow
<1>7. ASSUME NEW b \in DOMAIN accounts, NEW grants, NEW domain, NEW version,
             accounts' = [accounts EXCEPT ![b] =
               [@ EXCEPT !.grants = grants, !.domain = domain, !.version = version]],
             (Admin \in accounts[b].grants) # (Admin \in grants) => OwnerAsks(q, b)
      PROVE  OwnerAsks(q, a)
  <2>1. a # b => accounts'[a] = accounts[a]
    BY <1>7
  <2>2. accounts'[b].grants = grants
    BY <1>2, <1>7 DEF AccountRow
  <2> QED
    BY <1>7, <2>1, <2>2
<1> QED
  BY <1>1, <1>3, <1>5, <1>6, <1>7 DEF AccountsChange

\* Grants and domains are changed by the operations on them only.
LEMMA OnlyAuthorizationChanges ==
  ASSUME TablesOK, NEW q, Given(q), NEW r, Perform(q, r),
         q.op \notin {"grant", "ungrant", "domain"}, NEW a \in DOMAIN accounts
  PROVE  accounts'[a].grants = accounts[a].grants /\ accounts'[a].domain = accounts[a].domain
<1>1. AccountsChange(q)
  BY PerformChanges DEF TablesChange
<1>2. \A b \in DOMAIN accounts : accounts[b] \in AccountRow
  BY TableTypes
<1>3. ASSUME NEW k, NEW row, k \notin DOMAIN accounts, accounts' = Stored(accounts, k, row)
      PROVE  accounts'[a] = accounts[a]
  BY <1>3 DEF Stored
<1>4. ASSUME NEW b \in DOMAIN accounts, NEW row, accounts' = [accounts EXCEPT ![b] = row],
             row.grants = accounts[b].grants, row.domain = accounts[b].domain
      PROVE  accounts'[a].grants = accounts[a].grants /\ accounts'[a].domain = accounts[a].domain
  BY <1>4
<1>5. ASSUME NEW b \in DOMAIN accounts, NEW e, accounts' = [accounts EXCEPT ![b].email = e]
      PROVE  accounts'[a].grants = accounts[a].grants /\ accounts'[a].domain = accounts[a].domain
  BY <1>2, <1>4, <1>5 DEF AccountRow
<1>6. ASSUME NEW b \in DOMAIN accounts, NEW s, accounts' = [accounts EXCEPT ![b].status = s]
      PROVE  accounts'[a].grants = accounts[a].grants /\ accounts'[a].domain = accounts[a].domain
  BY <1>2, <1>4, <1>6 DEF AccountRow
<1> QED
  BY <1>1, <1>3, <1>5, <1>6 DEF AccountsChange

\* Rows that differ in the fields that may change.
NextChallenge(x, y) ==
  /\ x.attempts <= y.attempts
  /\ y = [x EXCEPT !.attempts = y.attempts, !.state = y.state]
  /\ x.state # "open" => y = x
NextSession(x, y) ==
  y = [x EXCEPT !.idle = y.idle, !.revoked = y.revoked] /\ (x.revoked => y = x)
NextPasskey(x, y) ==
  /\ x.count <= y.count
  /\ y = [x EXCEPT !.count = y.count, !.revoked = y.revoked]
  /\ x.revoked => y = x

LEMMA NextRows ==
         /\ \A x \in ChallengeRow :
              /\ NextChallenge(x, x)
              /\ x.state = "open" =>
                   /\ NextChallenge(x, [x EXCEPT !.attempts = @ + 1])
                   /\ NextChallenge(x, [x EXCEPT !.state = "used"])
                   /\ NextChallenge(x, [x EXCEPT !.state = "invalidated"])
         /\ \A x \in SessionRow :
              /\ NextSession(x, x)
              /\ ~x.revoked => \A b \in BOOLEAN : NextSession(x, [x EXCEPT !.revoked = b])
              /\ ~x.revoked => \A n \in Nat : NextSession(x, [x EXCEPT !.idle = n])
         /\ \A x \in PasskeyRow :
              /\ NextPasskey(x, x)
              /\ ~x.revoked => \A b \in BOOLEAN : NextPasskey(x, [x EXCEPT !.revoked = b])
              /\ ~x.revoked => \A n \in Nat :
                   NextPasskey(x, [x EXCEPT !.count = Greatest(x.count, n)])
<1>1. ASSUME NEW x \in ChallengeRow
      PROVE  /\ NextChallenge(x, x)
             /\ x.state = "open" =>
                  /\ NextChallenge(x, [x EXCEPT !.attempts = @ + 1])
                  /\ NextChallenge(x, [x EXCEPT !.state = "used"])
                  /\ NextChallenge(x, [x EXCEPT !.state = "invalidated"])
  <2>1. x.attempts \in Nat /\ x.state \in {"open", "used", "invalidated"}
    BY DEF ChallengeRow
  <2>2. x.attempts <= x.attempts
    BY <2>1
  <2>3. NextChallenge(x, x)
    BY <2>1, <2>2 DEF ChallengeRow, NextChallenge
  <2>4. ASSUME NEW n \in Nat, x.attempts <= n, x.state = "open"
        PROVE  NextChallenge(x, [x EXCEPT !.attempts = n])
    BY <2>1, <2>4 DEF ChallengeRow, NextChallenge
  <2>5. ASSUME NEW y \in {"open", "used", "invalidated"}, x.state = "open"
        PROVE  NextChallenge(x, [x EXCEPT !.state = y])
    BY <2>1, <2>5, <2>2 DEF ChallengeRow, NextChallenge
  <2>6. x.state = "open" => NextChallenge(x, [x EXCEPT !.attempts = @ + 1])
    BY <2>1, <2>4
  <2> QED
    BY <2>3, <2>5, <2>6
<1>2. ASSUME NEW x \in SessionRow
      PROVE  /\ NextSession(x, x)
             /\ ~x.revoked => \A b \in BOOLEAN : NextSession(x, [x EXCEPT !.revoked = b])
             /\ ~x.revoked => \A n \in Nat : NextSession(x, [x EXCEPT !.idle = n])
  BY DEF SessionRow, NextSession
<1>3. ASSUME NEW x \in PasskeyRow
      PROVE  /\ NextPasskey(x, x)
             /\ ~x.revoked => \A b \in BOOLEAN : NextPasskey(x, [x EXCEPT !.revoked = b])
             /\ ~x.revoked => \A n \in Nat :
                  NextPasskey(x, [x EXCEPT !.count = Greatest(x.count, n)])
  <2>1. x.count \in Nat
    BY DEF PasskeyRow
  <2>6. x.count <= x.count
    BY <2>1
  <2>2. NextPasskey(x, x)
    BY <2>1, <2>6 DEF PasskeyRow, NextPasskey
  <2>3. ASSUME NEW b \in BOOLEAN, ~x.revoked
        PROVE  NextPasskey(x, [x EXCEPT !.revoked = b])
    BY <2>1, <2>3, <2>6 DEF PasskeyRow, NextPasskey
  <2>4. ASSUME NEW n \in Nat, x.count <= n, ~x.revoked
        PROVE  NextPasskey(x, [x EXCEPT !.count = n])
    BY <2>1, <2>4 DEF PasskeyRow, NextPasskey
  <2>5. \A n \in Nat : Greatest(x.count, n) \in Nat /\ x.count <= Greatest(x.count, n)
    BY <2>1 DEF Greatest
  <2> QED
    BY <2>2, <2>3, <2>4, <2>5
<1> QED
  BY <1>1, <1>2, <1>3

LEMMA AccountsNeverEnd ==
  ASSUME TablesOK, NEW q, AccountsChange(q)
  PROVE  AccountsLast
<1>1. \A a \in DOMAIN accounts : accounts[a] \in AccountRow /\ accounts[a].version \in Nat
  BY TableTypes
<1>2. ASSUME NEW b \in DOMAIN accounts, NEW row, accounts' = [accounts EXCEPT ![b] = row],
             row.version \in {accounts[b].version, accounts[b].version + 1}
      PROVE  AccountsLast
  BY <1>1, <1>2 DEF AccountsLast
<1>3. CASE UNCHANGED accounts
  BY <1>1, <1>3 DEF AccountsLast
<1>4. ASSUME NEW k, NEW row, k \notin DOMAIN accounts, accounts' = Stored(accounts, k, row)
      PROVE  AccountsLast
  BY <1>1, <1>4 DEF AccountsLast, Stored
<1>5. ASSUME NEW b \in DOMAIN accounts, NEW e, accounts' = [accounts EXCEPT ![b].email = e]
      PROVE  AccountsLast
  BY <1>1, <1>2, <1>5 DEF AccountRow
<1>6. ASSUME NEW b \in DOMAIN accounts, NEW s, accounts' = [accounts EXCEPT ![b].status = s]
      PROVE  AccountsLast
  BY <1>1, <1>2, <1>6 DEF AccountRow
<1>7. ASSUME NEW b \in DOMAIN accounts, NEW grants, NEW domain,
             NEW version \in {accounts[b].version, accounts[b].version + 1},
             accounts' = [accounts EXCEPT ![b] =
               [@ EXCEPT !.grants = grants, !.domain = domain, !.version = version]]
      PROVE  AccountsLast
  <2>1. PICK row : row = [accounts[b] EXCEPT !.grants = grants, !.domain = domain,
                                             !.version = version]
    OBVIOUS
  <2>2. row.version = version /\ accounts' = [accounts EXCEPT ![b] = row]
    BY <1>1, <1>7, <2>1 DEF AccountRow
  <2> QED
    BY <1>2, <2>2
<1> QED
  BY <1>3, <1>4, <1>5, <1>6, <1>7 DEF AccountsChange

LEMMA ChallengesNeverReturn ==
  ASSUME TablesOK, NEW q, ChallengesChange(q),
         q.op = "issue" => q.challenge \notin DOMAIN challenges
  PROVE  ChallengesLast
<1>1. \A c \in DOMAIN challenges : challenges[c] \in ChallengeRow
  BY TableTypes
<1>2. SUFFICES ASSUME NEW c \in DOMAIN challenges
               PROVE  c \in DOMAIN challenges' /\ NextChallenge(challenges[c], challenges'[c])
  BY DEF ChallengesLast, NextChallenge, Open
<1>3. ASSUME NEW C
      PROVE  c \in DOMAIN Invalidated(C) /\ NextChallenge(challenges[c], Invalidated(C)[c])
  BY <1>1, NextRows DEF Invalidated, Open
<1>4. ASSUME NEW d, Open(d),
             \/ challenges' = [challenges EXCEPT ![d].attempts = @ + 1]
             \/ challenges' = [challenges EXCEPT ![d].state = "used"]
      PROVE  c \in DOMAIN challenges' /\ NextChallenge(challenges[c], challenges'[c])
  BY <1>1, <1>4, NextRows DEF Open
<1>5. ASSUME NEW a, NEW row, q.op = "issue",
             challenges' = Stored(Invalidated(OpenOf(a)), q.challenge, row)
      PROVE  c \in DOMAIN challenges' /\ NextChallenge(challenges[c], challenges'[c])
  <2>1. c # q.challenge
    BY <1>5
  <2> QED
    BY <1>3, <1>5, <2>1 DEF Stored
<1> QED
  BY <1>3, <1>4, <1>5 DEF ChallengesChange

LEMMA SessionsNeverReturn ==
  ASSUME TablesOK, NEW q, SessionsChange(q),
         q.op \in {"consume", "exchange", "login"} => q.fresh \notin DOMAIN sessions
  PROVE  SessionsLast
<1>1. \A s \in DOMAIN sessions : sessions[s] \in SessionRow /\ sessions[s].revoked \in BOOLEAN
  BY TableTypes
<1>2. SUFFICES ASSUME NEW s \in DOMAIN sessions
               PROVE  s \in DOMAIN sessions' /\ NextSession(sessions[s], sessions'[s])
  BY DEF SessionsLast, NextSession
<1>3. ASSUME NEW S, sessions' = Revoked(sessions, S)
      PROVE  s \in DOMAIN sessions' /\ NextSession(sessions[s], sessions'[s])
  <2>1. s \in DOMAIN sessions' /\ (sessions[s].revoked => sessions'[s] = sessions[s])
    BY <1>1, <1>3, RevokedSession
  <2>2. ASSUME ~sessions[s].revoked
        PROVE  NextSession(sessions[s], sessions'[s])
    <3>1. CASE s \in S
      <4>1. (sessions[s].revoked \/ s \in S) = TRUE
        BY <3>1
      <4>2. sessions'[s] = [sessions[s] EXCEPT !.revoked = sessions[s].revoked \/ s \in S]
        BY <1>3 DEF Revoked
      <4>3. sessions'[s] = [sessions[s] EXCEPT !.revoked = TRUE]
        BY <4>1, <4>2
      <4> QED
        BY <1>1, <2>2, <4>3, NextRows
    <3>2. CASE s \notin S
      BY <1>1, <1>3, <3>2, RevokedSession, NextRows
    <3> QED
      BY <3>1, <3>2
  <2> QED
    BY <1>1, <2>1, <2>2, NextRows
<1>4. ASSUME NEW row, q.op \in {"consume", "exchange", "login"},
             sessions' = Stored(sessions, q.fresh, row)
      PROVE  s \in DOMAIN sessions' /\ NextSession(sessions[s], sessions'[s])
  <2>1. s # q.fresh
    BY <1>4
  <2> QED
    BY <1>1, <1>4, <2>1, NextRows DEF Stored
<1>5. ASSUME Kept(q.session), q.now \in Nat
      PROVE  /\ s \in DOMAIN Touched(q.session, q.now)
             /\ NextSession(sessions[s], Touched(q.session, q.now)[s])
             /\ Touched(q.session, q.now)[s] \in SessionRow
             /\ Touched(q.session, q.now)[s].revoked = sessions[s].revoked
  <2>1. /\ s \in DOMAIN Touched(q.session, q.now) /\ Touched(q.session, q.now)[s] \in SessionRow
        /\ Touched(q.session, q.now)[s].revoked = sessions[s].revoked
        /\ s # q.session => Touched(q.session, q.now)[s] = sessions[s]
    BY <1>5, TouchedSessions DEF Kept
  <2>2. ASSUME s = q.session
        PROVE  NextSession(sessions[s], Touched(q.session, q.now)[s])
    <3>1. PICK n : n = Least(sessions[s].absolute, q.now + IdleLifetime)
      OBVIOUS
    <3>2. n \in Nat
      BY <1>5, <3>1, TableTypes, PolicyAssumption DEF Least
    <3>3. Touched(q.session, q.now)[s] = [sessions[s] EXCEPT !.idle = n]
      BY <2>2, <3>1 DEF Touched
    <3> QED
      BY <1>1, <1>5, <2>2, <3>2, <3>3, NextRows DEF Kept
  <2> QED
    BY <1>1, <2>1, <2>2, NextRows
<1>6. ASSUME NEW S, Kept(q.session), q.now \in Nat,
             sessions' = Revoked(Touched(q.session, q.now), S)
      PROVE  s \in DOMAIN sessions' /\ NextSession(sessions[s], sessions'[s])
  <2>1. PICK R : R = Touched(q.session, q.now)
    OBVIOUS
  <2>2. DOMAIN R = DOMAIN sessions /\ \A x \in DOMAIN R : R[x] \in SessionRow
    BY <1>6, <2>1, TouchedSessions DEF Kept
  <2>3. NextSession(sessions[s], R[s]) /\ R[s].revoked = sessions[s].revoked
    BY <1>5, <1>6, <2>1
  <2>4. s \in DOMAIN sessions' /\ (R[s].revoked => sessions'[s] = R[s])
    BY <1>6, <2>1, <2>2, RevokedSession
  <2>5. ASSUME ~sessions[s].revoked
        PROVE  NextSession(sessions[s], sessions'[s])
    <3>1. CASE s \in S
      <4>1. (R[s].revoked \/ s \in S) = TRUE
        BY <3>1
      <4>2. sessions'[s] = [R[s] EXCEPT !.revoked = R[s].revoked \/ s \in S]
        BY <1>6, <2>1, <2>2 DEF Revoked
      <4>3. sessions'[s] = [R[s] EXCEPT !.revoked = TRUE]
        BY <4>1, <4>2
      <4>4. sessions'[s] =
              [sessions[s] EXCEPT !.idle = sessions'[s].idle, !.revoked = sessions'[s].revoked]
        BY <1>1, <2>2, <2>3, <4>3 DEF NextSession, SessionRow
      <4> QED
        BY <2>5, <4>4 DEF NextSession
    <3>2. CASE s \notin S
      <4>1. sessions'[s] = R[s]
        BY <1>6, <2>1, <2>2, <3>2, RevokedSession
      <4> QED
        BY <2>3, <4>1
    <3> QED
      BY <3>1, <3>2
  <2> QED
    BY <1>1, <2>3, <2>4, <2>5
<1> QED
  BY <1>3, <1>4, <1>5, <1>6 DEF SessionsChange

LEMMA PasskeysNeverReturn ==
  ASSUME TablesOK, NEW q, PasskeysChange(q),
         q.op = "register" => q.passkey \notin DOMAIN passkeys
  PROVE  PasskeysLast
<1>1. \A p \in DOMAIN passkeys : passkeys[p] \in PasskeyRow /\ passkeys[p].revoked \in BOOLEAN
  BY TableTypes
<1>2. SUFFICES ASSUME NEW p \in DOMAIN passkeys
               PROVE  p \in DOMAIN passkeys' /\ NextPasskey(passkeys[p], passkeys'[p])
  BY DEF PasskeysLast, NextPasskey
<1>3. ASSUME NEW P, passkeys' = Revoked(passkeys, P)
      PROVE  p \in DOMAIN passkeys' /\ NextPasskey(passkeys[p], passkeys'[p])
  <2>1. p \in DOMAIN passkeys' /\ (passkeys[p].revoked => passkeys'[p] = passkeys[p])
    BY <1>1, <1>3, RevokedPasskey
  <2>2. ASSUME ~passkeys[p].revoked
        PROVE  NextPasskey(passkeys[p], passkeys'[p])
    <3>1. CASE p \in P
      <4>1. (passkeys[p].revoked \/ p \in P) = TRUE
        BY <3>1
      <4>2. passkeys'[p] = [passkeys[p] EXCEPT !.revoked = passkeys[p].revoked \/ p \in P]
        BY <1>3 DEF Revoked
      <4>3. passkeys'[p] = [passkeys[p] EXCEPT !.revoked = TRUE]
        BY <4>1, <4>2
      <4> QED
        BY <1>1, <2>2, <4>3, NextRows
    <3>2. CASE p \notin P
      BY <1>1, <1>3, <3>2, RevokedPasskey, NextRows
    <3> QED
      BY <3>1, <3>2
  <2> QED
    BY <1>1, <2>1, <2>2, NextRows
<1>4. ASSUME NEW row, q.op = "register", passkeys' = Stored(passkeys, q.passkey, row)
      PROVE  p \in DOMAIN passkeys' /\ NextPasskey(passkeys[p], passkeys'[p])
  <2>1. p # q.passkey
    BY <1>4
  <2> QED
    BY <1>1, <1>4, <2>1, NextRows DEF Stored
<1>5. ASSUME NEW k, NEW n \in Nat, Usable(k),
             passkeys' = [passkeys EXCEPT ![k].count = Greatest(@, n)]
      PROVE  p \in DOMAIN passkeys' /\ NextPasskey(passkeys[p], passkeys'[p])
  <2>1. p # k => passkeys'[p] = passkeys[p]
    BY <1>5
  <2>2. p = k => passkeys'[p] = [passkeys[p] EXCEPT !.count = Greatest(passkeys[p].count, n)]
    BY <1>5
  <2> QED
    BY <1>1, <1>5, <2>1, <2>2, NextRows DEF Usable
<1> QED
  BY <1>3, <1>4, <1>5 DEF PasskeysChange

\* What an operation makes is new: random ids are not in use.
MakesNew(q) ==
  /\ q.op = "issue" => q.challenge \notin DOMAIN challenges
  /\ q.op \in {"consume", "exchange", "login"} => q.fresh \notin DOMAIN sessions
  /\ q.op = "register" => q.passkey \notin DOMAIN passkeys

LEMMA PerformKeepsHistory ==
  ASSUME TablesOK, NEW q, Given(q), MakesNew(q), NEW r, Perform(q, r)
  PROVE  KeepsHistory
<1>1. TablesChange(q)
  BY PerformChanges
<1> QED
  BY <1>1, AccountsNeverEnd, ChallengesNeverReturn, SessionsNeverReturn, PasskeysNeverReturn
     DEF TablesChange, MakesNew, KeepsHistory

\* Stuttering keeps the tables too.
LEMMA NothingKeepsHistory ==
  ASSUME TablesOK, UNCHANGED tables
  PROVE  KeepsHistory
<1>1. ChallengesLast
  BY TableTypes, NextRows DEF tables, ChallengesLast, NextChallenge
<1>2. SessionsLast
  BY TableTypes, NextRows DEF tables, SessionsLast, NextSession
<1>3. PasskeysLast
  BY TableTypes, NextRows DEF tables, PasskeysLast, NextPasskey
<1>4. AccountsLast
  BY TableTypes DEF tables, AccountsLast
<1> QED
  BY <1>1, <1>2, <1>3, <1>4 DEF KeepsHistory

\* A code is opened only with the others of its account invalidated.
LEMMA PerformKeepsOneOpenCode ==
  ASSUME TablesOK, OneOpenCode, NEW q, Given(q), NEW r, Perform(q, r)
  PROVE  OneOpenCode'
<1>1. ChallengesChange(q)
  BY PerformChanges DEF TablesChange
<1>2. \A c \in DOMAIN challenges : challenges[c] \in ChallengeRow
  BY TableTypes
<1>3. SUFFICES ASSUME NEW c \in DOMAIN challenges', NEW d \in DOMAIN challenges',
                      challenges'[c].state = "open", challenges'[d].state = "open",
                      challenges'[c].account = challenges'[d].account
               PROVE  c = d
  BY DEF OneOpenCode, Open
<1>4. ASSUME \A x \in {c, d} :
               /\ x \in DOMAIN challenges /\ challenges[x].state = "open"
               /\ challenges'[x].account = challenges[x].account
      PROVE  c = d
  BY <1>3, <1>4 DEF OneOpenCode, Open
<1>5. ASSUME NEW C, challenges' = Invalidated(C)
      PROVE  c = d
  <2>1. \A x \in {c, d} :
          /\ x \in DOMAIN challenges /\ challenges[x].state = "open"
          /\ challenges'[x].account = challenges[x].account
    BY <1>3, <1>5, InvalidatedChallenges
  <2> QED
    BY <1>4, <2>1
<1>6. ASSUME NEW e, Open(e),
             \/ challenges' = [challenges EXCEPT ![e].attempts = @ + 1]
             \/ challenges' = [challenges EXCEPT ![e].state = "used"]
      PROVE  c = d
  <2>1. \A x \in {c, d} :
          /\ x \in DOMAIN challenges /\ challenges[x].state = "open"
          /\ challenges'[x].account = challenges[x].account
    BY <1>2, <1>3, <1>6 DEF Open, ChallengeRow
  <2> QED
    BY <1>4, <2>1
<1>7. ASSUME NEW a \in Accounts, NEW row \in ChallengeRow, row.account = a,
             challenges' = Stored(Invalidated(OpenOf(a)), q.challenge, row)
      PROVE  c = d
  <2> DEFINE k == q.challenge
             I == Invalidated(OpenOf(a))
  <2>1. /\ challenges'[k].account = a
        /\ \A x \in DOMAIN challenges' \ {k} : x \in DOMAIN I /\ challenges'[x] = I[x]
    BY <1>7 DEF Stored
  <2>2. \A x \in DOMAIN I :
          /\ x \in DOMAIN challenges /\ I[x].account = challenges[x].account
          /\ I[x].state = "open" => challenges[x].state = "open" /\ x \notin OpenOf(a)
    BY InvalidatedChallenges
  <2>3. \A x \in DOMAIN challenges' \ {k} :
          challenges'[x].state = "open" => challenges'[x].account # a
    BY <2>1, <2>2 DEF OpenOf, Open
  <2>4. CASE c = k \/ d = k
    BY <1>3, <2>1, <2>3, <2>4
  <2>5. CASE c # k /\ d # k
    <3>1. \A x \in {c, d} :
            /\ x \in DOMAIN challenges /\ challenges[x].state = "open"
            /\ challenges'[x].account = challenges[x].account
      BY <1>3, <2>1, <2>2, <2>5
    <3> QED
      BY <1>4, <3>1
  <2> QED
    BY <2>4, <2>5
<1> QED
  BY <1>1, <1>5, <1>6, <1>7 DEF ChallengesChange

=============================================================================
