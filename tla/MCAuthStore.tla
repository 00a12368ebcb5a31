---------------------------- MODULE MCAuthStore ----------------------------
(* Small instances of AuthStore: an owner A and a second administrator B, *)
(* with a session each, a mailed code and a passkey of B; calls 1, 2, 3.  *)
EXTENDS AuthStore, TLC

CONSTANTS A, B, mailA, mailB, mailC, code, sA, sB, pass, token, n1, n2, n3

\* What each call makes anew.
Fresh == <<n1, n2, n3>>

Account(e, grants) ==
  [status |-> "active", email |-> e, grants |-> grants,
   domain |-> "incubator_participant", version |-> 1]
Login(a, t, idle) ==
  [account |-> a, proof |-> [kind |-> "passkey", of |-> pass], issued |-> t,
   idle |-> idle, absolute |-> 9, revoked |-> FALSE]

Stored_ ==
  [accounts |-> A :> Account(mailA, {Admin}) @@ B :> Account(mailB, {Admin}),
   challenges |-> code :> [account |-> B, issued |-> 0, expires |-> 4, attempts |-> 1,
                           state |-> "open"],
   sessions |-> sA :> Login(A, 0, 5) @@ sB :> Login(B, 0, 3),
   passkeys |-> pass :> [account |-> B, created |-> 0, count |-> 0, revoked |-> FALSE]]

Empty ==
  [accounts |-> <<>>, challenges |-> <<>>, sessions |-> <<>>, passkeys |-> <<>>]

\* Requests that call t may make.
By(s, op) == [op |-> op, session |-> s, now |-> 1]
On(s, op, a) == [op |-> op, session |-> s, account |-> a, now |-> 1]

Deactivates == [status |-> "deactivated"]
Activates == [status |-> "active"]
Changes(g) == [grant |-> g, version |-> 2]
Moves == [domain |-> "disciple", version |-> 2]

\* The first seven also run by threes.
Choice(t) ==
  <<[op |-> "consume", challenge |-> code, right |-> TRUE, fresh |-> Fresh[t], now |-> 1],
    [op |-> "consume", challenge |-> code, right |-> FALSE, fresh |-> Fresh[t], now |-> 1],
    [op |-> "exchange", account |-> B, token |-> token, fresh |-> Fresh[t], now |-> 1],
    [op |-> "login", passkey |-> pass, expected |-> 0, observed |-> t, fresh |-> Fresh[t],
     now |-> 1],
    [By(sB, "authenticate") EXCEPT !.now = 3],
    On(sA, "status", B) @@ Deactivates,
    On(sB, "status", A) @@ Deactivates,
    By(sB, "authenticate"), By(sB, "logout"),
    [op |-> "issue", email |-> mailB, challenge |-> Fresh[t], now |-> 1],
    [op |-> "invalidate", challenge |-> code],
    [op |-> "register", session |-> sB, passkey |-> Fresh[t], count |-> 0, now |-> 1],
    On(sA, "status", B) @@ Activates,
    On(sA, "reset", B),
    On(sA, "create", Fresh[t]) @@ [email |-> mailC],
    On(sA, "update", B) @@ [email |-> mailC],
    On(sB, "update", A) @@ [email |-> mailB],
    On(sA, "grant", B) @@ Changes("chronicler"),
    On(sB, "grant", A) @@ Changes("chronicler"),
    On(sA, "ungrant", B) @@ Changes(Admin), On(sB, "ungrant", A) @@ Changes(Admin),
    On(sA, "ungrant", A) @@ Changes(Admin), On(sA, "ungrant", A) @@ Changes("chronicler"),
    On(sB, "domain", A) @@ Moves, On(sA, "domain", n1) @@ Moves,
    On(sB, "revoke_all", A), On(sA, "revoke_all", B),
    On(sB, "revoke", A) @@ [victim |-> sA], On(sA, "revoke", B) @@ [victim |-> sA],
    [op |-> "find", account |-> n1], [op |-> "read", passkey |-> pass, now |-> 1],
    [op |-> "bootstrap", email |-> mailA], [op |-> "bootstrap", email |-> mailC]>>

Last == Len(Choice(1))

\* Any two calls and a look at a session, ...
Pairs ==
  {Stored_ @@ [request |-> <<Choice(1)[i], Choice(2)[j], By(sB, "validate")>>] :
     i \in 1 .. Last, j \in 1 .. Last}
\* ... three of those that race for one account, ...
Triples ==
  {Stored_ @@ [request |-> <<Choice(1)[i], Choice(2)[j], Choice(3)[k]>>] :
     i \in 1 .. 7, j \in 1 .. 7, k \in 1 .. 7}
\* ... and the setting up of an empty store.
SetUps ==
  {Empty @@ [request |-> <<Choice(1)[i], Choice(2)[j], By(sA, "validate")>>] :
     i \in Last - 1 .. Last, j \in Last - 1 .. Last}

\* Calls differ in nothing but their order.
Places(s, t) == CHOOSE i \in 1 .. Last + 1 : i = Last + 1 \/ Choice(t)[i] = s.request[t]
Chosen ==
  SetUps \cup {s \in Pairs : Places(s, 1) <= Places(s, 2)}
    \cup {s \in Triples : Places(s, 1) <= Places(s, 2) /\ Places(s, 2) <= Places(s, 3)}
=============================================================================
