----------------------------- MODULE MCSignIn -----------------------------
(* Small instances of SignIn: an owner A and a second administrator B, two *)
(* pages of browser x and one of browser y; calls 1, 2, ...                *)
EXTENDS SignIn, TLC

CONSTANTS A, B, C, mailA, mailB, mailC, code, sA, sB, sI, pass, x, y, p1, p2, p3,
          n1, n2, n3, n4, n5

NewIds == <<n1, n2, n3, n4, n5>>
Browsers == p1 :> x @@ p2 :> x @@ p3 :> y

Limits ==
  [d \in Dimensions |->
     [limit |-> IF d \in {"challenge-network", "passkey-begin-network"} THEN 3 ELSE 2,
      window |-> 2]]

Account(e) ==
  [status |-> "active", email |-> e, grants |-> {Admin},
   domain |-> "incubator_participant", version |-> 1]
Login(a) ==
  [account |-> a, proof |-> [kind |-> "passkey", of |-> pass], issued |-> 0, idle |-> 5,
   absolute |-> 9, revoked |-> FALSE]

\* What is stored at first ...
Stored_ ==
  [accounts |-> A :> Account(mailA) @@ B :> Account(mailB),
   challenges |-> code :> [account |-> B, issued |-> 0, expires |-> 4, attempts |-> 0,
                           state |-> "open"],
   sessions |-> sA :> Login(A) @@ sB :> Login(B) @@ sI :> Login(B),
   passkeys |-> pass :> [account |-> B, created |-> 0, count |-> 0, revoked |-> FALSE],
   mailed |-> {code}]

\* ... and open, in the pages ...
Shows(who) ==
  [shown |-> who, step |-> "email", busy |-> FALSE, prompt |-> None, todo |-> {},
   life |-> 0, mount |-> 0, view |-> "chats", may |-> {}, panel |-> 0, empty |-> FALSE]
Waits == [Shows("nobody") EXCEPT !.todo = {[op |-> "begin_login"]}]
AtCode == [Shows("nobody") EXCEPT !.step = "code"]
Opened(g1, g2, g3) == [page |-> p1 :> g1 @@ p2 :> g2 @@ p3 :> g3]

\* ... and in the jars.
Jars(session, challenge, other) ==
  [jar |-> x :> [session |-> session, issuer |-> sI, challenge |-> challenge, binding |-> None]
        @@ y :> [session |-> other, issuer |-> sI, challenge |-> None, binding |-> None]]

May(what, n, f) ==
  [acts |-> what, mails |-> {}, changes |-> {}, calls |-> n, faults |-> f, clock |-> MaxTime,
   readers |-> {A, B}]

Shut == Shows("closed")
Manages(who, what) == [Shows(who) EXCEPT !.view = "users", !.may = what]
Managing == {"canManageAccounts", "canManageDomainStatus", "canManageFunctionalGrants"}
Ruling == Managing \cup {"canManagePlatformAdministrators"}

\* A code is typed while a passkey may be picked.
Entries ==
  Stored_ @@ Opened([AtCode EXCEPT !.todo = Waits.todo], Shut, Shut) @@ Jars(None, code, None)
    @@ May({"type", "pick", "again"}, 4, 1)
\* Codes are asked for, here and elsewhere, while time passes.
Requests_ ==
  Stored_ @@ Opened(Shows("nobody"), Shut, Shows("nobody")) @@ Jars(None, None, None)
    @@ [May({}, 3, 0) EXCEPT !.mails = {mailB}, !.clock = 1]
\* A code is asked for and typed, by one user.
Mails ==
  Stored_ @@ Opened(Shows("nobody"), Shut, Shut) @@ Jars(None, None, None)
    @@ [May({"type", "back"}, 4, 1) EXCEPT !.mails = {mailB, mailC}]
\* A passkey is added while another page of the browser signs in again.
Additions ==
  Stored_ @@ Opened(Shows(B), AtCode, Shut) @@ Jars(sB, code, None)
    @@ May({"add", "type", "again"}, 4, 0)
\* Two pages of one browser log out, while one of them loads.
Departures ==
  Stored_ @@ Opened(Shows(B), Loading(Shut), Shut) @@ Jars(sB, None, None)
    @@ May({"leave"}, 4, 1)
\* A page is loaded again while it logs out and its session runs out.
Reloads ==
  [Stored_ EXCEPT !.sessions[sB].idle = 3]
    @@ Opened(Shows(B), Shut, Shut) @@ Jars(sB, None, None)
    @@ [May({"leave", "reload"}, 3, 0) EXCEPT !.clock = 2]
\* The way through the issuer, its callback opened again here and elsewhere.
Callbacks ==
  Stored_ @@ Opened(Shows("nobody"), Shut, Shut) @@ Jars(None, None, None)
    @@ May({"go", "repeat"}, 5, 1)
\* A ceremony or a code that may lapse on the way.
LateAddition ==
  Stored_ @@ Opened(Shows(B), Shut, Shut) @@ Jars(sB, None, None)
    @@ [May({"add"}, 2, 0) EXCEPT !.clock = 2]
LateCallback ==
  Stored_ @@ Opened(Shows("nobody"), Shut, Shut) @@ Jars(None, None, None)
    @@ [May({"go"}, 3, 0) EXCEPT !.clock = 2]
\* Two administrators, one of them deactivates the other.
By(s, op, a) == [op |-> op, session |-> s, account |-> a, now |-> 0]
Rivals ==
  Stored_ @@ Opened(Manages(A, Ruling), Shut, Manages(B, Managing)) @@ Jars(sA, None, sB)
    @@ [May({}, 3, 0) EXCEPT !.changes =
          {By(None, "status", B) @@ [status |-> "deactivated"],
           By(None, "ungrant", B) @@ [grant |-> Admin, version |-> 2],
           By(None, "revoke_all", A)}]
\* Everything else that an administrator can do, by one of them.
Duties ==
  Stored_ @@ Opened(Manages(A, Ruling), Shut, Shut) @@ Jars(sA, None, None)
    @@ [May({}, 2, 0) EXCEPT !.changes =
          {By(None, op, B) : op \in {"reset", "revoke_all"}}
            \cup {By(None, "status", B) @@ [status |-> v] : v \in {"active", "deactivated"}}
            \cup {By(None, "create", a) @@ [email |-> e] : a \in {B, C}, e \in {mailB, mailC}}
            \cup {By(None, "update", a) @@ [email |-> mailC] : a \in {B, C}}
            \cup {By(None, op, B) @@ [grant |-> "chronicler", version |-> 2] : op \in {"grant", "ungrant"}}
            \cup {By(None, "domain", B) @@ [domain |-> "disciple", version |-> 2]}
            \cup {By(None, "revoke", B) @@ [victim |-> s] : s \in {sA, sB}}]

\* The owner changes his address, and the service starts again.
Upkeep ==
  Stored_ @@ Opened(Manages(A, Ruling), Shut, Shut) @@ Jars(sA, None, None)
    @@ [May({"switch"}, 2, 1) EXCEPT !.changes =
          {By(None, "update", A) @@ [email |-> mailC]}]

\* A page whose user has no chat to read.
Chatless ==
  Stored_ @@ Opened(Loading(Shut), Shut, Shut) @@ Jars(sB, None, None)
    @@ [May({}, 4, 0) EXCEPT !.readers = {A}]

All == {Entries, Requests_, Mails, Additions, Departures, Reloads, Callbacks,
        LateAddition, LateCallback, Rivals, Duties, Upkeep, Chatless}
=============================================================================
