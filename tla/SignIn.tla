-------------------------------- MODULE SignIn --------------------------------
(***************************************************************************)
(* Signing in and out: pages of the web application (ClientShell,          *)
(* LoginPanel, Workspace), the cookies of their browsers, and the routes   *)
(* of the back end for the front end, on top of AuthService.               *)
(*                                                                         *)
(* A page sends calls, some by itself (todo), some because its user acts;  *)
(* answers come in any order, set cookies of the whole browser, and change *)
(* the page if it is still the one that asked.  A route that only hands a  *)
(* request on is no step of its own.  A browser is a client of the service *)
(* (one network address and user agent).                                   *)
(***************************************************************************)
EXTENDS AuthService

CONSTANTS
  Pages,
  Browser,    \* the browser that a page is open in
  Situations  \* what is stored and open at first, and what users may do

ASSUME PagesAssumption == Calls \subseteq Nat /\ Browser \in [Pages -> Clients]

\* What a page will ask by itself.
Todo ==
  [op : {"get_session"}, after : {"mount", "verify", "passkey"}]
    \cup [op : {"chats", "begin_login"}]
    \cup [op : {"finish_passkey"}, ceremony : Passkeys, genuine : BOOLEAN]
    \cup [op : {"interact"}, authorization : Tokens]
    \cup [op : {"callback"}, code : Tokens, authorization : Tokens]

PageRow ==
  [shown : Accounts \cup {"loading", "nobody", "away", "closed"}, step : {"email", "code"},
   busy : BOOLEAN, prompt : Passkeys \cup {None}, todo : SUBSET Todo, life : Nat, mount : Nat,
   view : {"chats", "users"}, may : SUBSET Capability, panel : Nat, empty : BOOLEAN]

CookieRow ==
  [session : Sessions \cup {None}, issuer : Sessions \cup {None},
   challenge : Challenges \cup {None},
   binding : [authorization : Tokens, issued : Nat] \cup {None}]

Table(f, Keys, Row) == DOMAIN f \subseteq Keys /\ f \in [DOMAIN f -> Row]

\* Pages start without anything under way but their first questions, cookies
\* name stored sessions, and what calls will make is new.
Opening(s) ==
  /\ Table(s.accounts, Accounts, AccountRow) /\ Table(s.challenges, Challenges, ChallengeRow)
  /\ Table(s.sessions, Sessions, SessionRow) /\ Table(s.passkeys, Passkeys, PasskeyRow)
  /\ \A t \in Calls :
       New[t] \notin DOMAIN s.challenges \cup DOMAIN s.sessions \cup DOMAIN s.passkeys
  /\ s.mailed \subseteq Challenges /\ s.clock \in 0 .. MaxTime /\ s.faults \in Nat
  /\ s.page \in [Pages -> PageRow] /\ s.jar \in [Clients -> CookieRow]
  /\ \A p \in Pages :
       s.page[p].todo \subseteq {[op |-> "begin_login"], [op |-> "get_session", after |-> "mount"]}
  /\ \A b \in Clients :
       /\ {s.jar[b].session, s.jar[b].issuer} \subseteq DOMAIN s.sessions \cup {None}
       /\ s.jar[b].binding = None
  /\ \A q \in s.changes :
       "session" \in DOMAIN q /\ \A k \in Sessions : [q EXCEPT !.session = k] \in AdminRequests

ASSUME SituationsAssumption == \A s \in Situations : Opening(s)

VARIABLES
  jar,    \* cookies: of the session here and at the issuer, of the challenge, of OIDC
  page,
  from,   \* the page that sent a call, and which incarnation of it
  heard,  \* calls whose answer has arrived
  left,   \* history: sessions that a page was told are logged out
  scene   \* bound: what users may do, how many calls and panels of users there are

web == <<jar, page, from, heard, left, scene>>
vars == <<serviceVars, web>>

NoCall == [op |-> "none"]

-----------------------------------------------------------------------------
(* Pages.  `shown` is what ClientShell renders: LoginPanel for "nobody",    *)
(* Workspace for an account; "away" is a page that has left for the issuer. *)
(* `may` is what the Workspace was told its user may administer, `empty`    *)
(* the marker that the list of chats was empty before the page was loaded.  *)

Loading(g) ==
  [shown |-> "loading", step |-> "email", busy |-> FALSE, prompt |-> None,
   todo |-> {[op |-> "get_session", after |-> "mount"]}, life |-> g.life + 1, mount |-> 0,
   view |-> "chats", may |-> {}, panel |-> 0, empty |-> g.empty]

Does(g, x) == [g EXCEPT !.todo = @ \cup {x}]

\* LoginPanel, when it appears, starts to wait for a passkey.
ShowLogin(g) ==
  IF g.shown = "nobody" THEN g
  ELSE [g EXCEPT !.shown = "nobody", !.step = "email", !.busy = FALSE, !.mount = @ + 1,
                 !.todo = @ \cup {[op |-> "begin_login"]}]

\* The Workspace has a panel of chats and, for an administrator, one of users.
Panel(g) ==
  CASE g.shown \notin Accounts -> "none"
    [] g.shown \in Accounts /\ g.view = "users" /\ g.may # {} -> "users"
    [] OTHER -> "chats"

\* The panel of chats, when it appears, reads the list of chats.
Appears(g, h) ==
  CASE Panel(h) = Panel(g) -> h
    [] Panel(h) # Panel(g) /\ Panel(h) = "users" -> [h EXCEPT !.panel = @ + 1]
    [] OTHER -> Does(h, [op |-> "chats"])

ShowWorkspace(g, principal) ==
  Appears(g, [g EXCEPT !.shown = principal.account, !.may = principal.may,
                       !.view = IF g.shown \in Accounts THEN @ ELSE "chats"])
SameMount(g, t) == g.mount = from[t].mount

RefreshSession(g, t) ==
  LET h == IF reply[t] = "ok" THEN ShowWorkspace(g, memo[t].principal)
                              ELSE ShowLogin(g)
  IN  IF request[t].after = "verify" /\ SameMount(h, t) THEN [h EXCEPT !.busy = FALSE] ELSE h

RequestCodeFor(g, t) ==
  IF ~SameMount(g, t) THEN g
  ELSE [g EXCEPT !.busy = FALSE,
                 !.step = IF reply[t] = "ok" THEN "code" ELSE g.step]

VerifyCode(g, t) ==
  IF reply[t] = "ok" THEN Does(g, [op |-> "get_session", after |-> "verify"])
  ELSE IF SameMount(g, t) THEN [g EXCEPT !.busy = FALSE] ELSE g

\* Options lead to a prompt in the place of an earlier one, a signature to
\* verification, and that to onAuthenticated.
AttemptConditionalPasskey(g, t) ==
  CASE reply[t] # "ok" -> g
    [] request[t].op = "begin_login" -> [g EXCEPT !.prompt = New[t]]
    [] OTHER -> Does(g, [op |-> "get_session", after |-> "passkey"])

RegisterPasskey_(g, t) ==
  IF reply[t] = "ok" /\ request[t].op = "begin_passkey"
  THEN Does([g EXCEPT !.prompt = None],
            [op |-> "finish_passkey", ceremony |-> New[t], genuine |-> TRUE])
  ELSE g

LoggedOut(g, t) == IF reply[t] = "ok" THEN ShowLogin(g) ELSE g
SessionInvalid(g, t) == IF reply[t] = "unauthenticated" THEN ShowLogin(g) ELSE g

\* The chats that the answer lists, of which the page needs one that can be read.
SomeReadable(t) == sessions[request[t].session].account \in scene.readers

\* resolveChatListOutcome: a page that finds no chat is loaded once more, and
\* then gives up.
ChatListOutcome(g, t) ==
  CASE SomeReadable(t) -> "ready"
    [] ~SomeReadable(t) /\ g.empty -> "configuration-error"
    [] OTHER -> "reload-required"

LoadChats(g, t) ==
  IF reply[t] # "ok" THEN SessionInvalid(g, t)
  ELSE CASE ChatListOutcome(g, t) = "ready" -> [g EXCEPT !.empty = FALSE]
         [] ChatListOutcome(g, t) = "reload-required" -> Loading([g EXCEPT !.empty = TRUE])
         [] OTHER -> g

\* A page that has left follows the redirects.
Navigated(g, t) ==
  CASE request[t].op = "callback" /\ reply[t] = "ok" -> Loading(g)
    [] request[t].op = "start" /\ reply[t] = "ok" ->
         Does(g, [op |-> "interact", authorization |-> New[t]])
    [] request[t].op = "interact" /\ reply[t] = "ok" ->
         Does(g, [op |-> "callback", code |-> New[t], authorization |-> request[t].authorization])
    [] OTHER -> g

After(g, t) ==
  CASE request[t].op = "get_session" -> RefreshSession(g, t)
    [] request[t].op = "request_code" -> RequestCodeFor(g, t)
    [] request[t].op = "verify_code" -> VerifyCode(g, t)
    [] request[t].op \in {"begin_login", "finish_login"} -> AttemptConditionalPasskey(g, t)
    [] request[t].op \in {"begin_passkey", "finish_passkey"} -> RegisterPasskey_(g, t)
    [] request[t].op = "log_out" -> LoggedOut(g, t)
    [] request[t].op = "chats" -> LoadChats(g, t)
    [] request[t].op = "administer" -> SessionInvalid(g, t)
    [] OTHER -> Navigated(g, t)

-----------------------------------------------------------------------------
(* The cookies that the routes of the back end set with an answer. *)

\* Any challenge that is named, issued or not
ChallengeRoute(j, t) == IF reply[t] = "ok" THEN [j EXCEPT !.challenge = New[t]] ELSE j
VerifyRoute(j, t) ==
  IF reply[t] = "ok" THEN [j EXCEPT !.session = New[t], !.challenge = None] ELSE j
PasskeyVerify(j, t) == IF reply[t] = "ok" THEN [j EXCEPT !.session = New[t]] ELSE j
\* The service clears the cookie whether it could end the session or not.
SessionRoute(j, t) == IF reply[t] # "lost" THEN [j EXCEPT !.session = None] ELSE j
StartOidcAuthorization(j, t) ==
  IF reply[t] = "ok"
  THEN [j EXCEPT !.binding = [authorization |-> New[t], issued |-> memo[t].now]] ELSE j
OidcCallback(j, t) ==
  [j EXCEPT !.binding = None, !.session = IF reply[t] = "ok" THEN New[t] ELSE @]

Cookies(j, t) ==
  CASE request[t].op = "request_code" -> ChallengeRoute(j, t)
    [] request[t].op = "verify_code" -> VerifyRoute(j, t)
    [] request[t].op = "finish_login" -> PasskeyVerify(j, t)
    [] request[t].op = "log_out" -> SessionRoute(j, t)
    [] request[t].op = "start" -> StartOidcAuthorization(j, t)
    [] request[t].op = "callback" -> OidcCallback(j, t)
    [] OTHER -> j

-----------------------------------------------------------------------------
(* What the back end does itself, with calls of the service in between. *)

\* readSession takes every answer but 2xx for no session.
ReadSession(t, r) == Asks(t, SessionQuery(t, "authenticate"), r)

\* GET /bff/chats
Chats(t) ==
  /\ Working(t, "chats", 1)
  /\ \E r \in Answers :
       /\ ReadSession(t, r)
       /\ IF r = "ok" THEN GoOn(t, [memo[t] EXCEPT !.now = clock])
                      ELSE Answer(t, "unauthenticated")
  /\ UNCHANGED mail

\* The API authenticates the same cookie once more.
RequestPrincipal(t) ==
  /\ Working(t, "chats", 2)
  /\ \E r \in Answers :
       /\ Asks(t, SessionQuery(t, "authenticate"), r)
       /\ IF r = "ok" THEN GoOn(t, memo[t]) ELSE Answer(t, Status(r))
  /\ UNCHANGED mail

\* The list is of the principal's chats, and no longer asks for the session.
ListAvailableChats(t) ==
  /\ \/ Working(t, "chats", 3) /\ Answer(t, "ok") /\ UNCHANGED faults
     \/ Working(t, "chats", 3) /\ Fault /\ Answer(t, "unavailable")
  /\ UNCHANGED <<stores, mail, clock>>

\* The capabilities that a change needs.
UpstreamTarget(change) ==
  CASE change.op \in {"grant", "ungrant"} ->
         {"canManageFunctionalGrants"}
           \cup (IF change.grant = Admin THEN {"canManagePlatformAdministrators"} ELSE {})
    [] change.op = "domain" -> {"canManageDomainStatus"}
    [] OTHER -> {"canManageAccounts"}

\* The administrator's page is told 403 before anything is asked in his name.
ForwardAdministration(t) ==
  /\ Working(t, "administer", 1)
  /\ \E r \in Answers :
       /\ ReadSession(t, r)
       /\ IF r = "ok" /\ UpstreamTarget(request[t].change) \subseteq Principal(request[t].session).may
          THEN GoOn(t, [memo[t] EXCEPT !.now = clock])
          ELSE Answer(t, "forbidden")
  /\ UNCHANGED mail

\* The way to the issuer begins once its metadata were read.
Discover(t) ==
  \/ /\ Working(t, "start", 1)
     /\ reply' = [reply EXCEPT ![t] = "ok"] /\ memo' = [memo EXCEPT ![t].now = clock]
     /\ UNCHANGED <<stores, mail, clock, faults, request, at>>
  \/ /\ Working(t, "start", 1) /\ Fault /\ Answer(t, "unavailable")
     /\ UNCHANGED <<stores, mail, clock>>

\* The binding in the cookie, as a set of at most one
OpenBinding(t) == {request[t].binding} \ {None}

\* completeOidcAuthorization, until it exchanges the code
CheckBinding(t) ==
  LET bound == \E b \in OpenBinding(t) :
                 /\ request[t].authorization = b.authorization
                 /\ memo[t].now <= b.issued + BindingLifetime
  IN  /\ Working(t, "callback", 1)
      /\ \/ bound /\ GoOn(t, memo[t]) /\ UNCHANGED faults
         \/ ~bound /\ Answer(t, "unavailable") /\ UNCHANGED faults
         \/ bound /\ Fault /\ Answer(t, "unavailable")
      /\ UNCHANGED <<stores, mail, clock>>

\* What the token says of the nonce and of its lifetime holds, as the code was
\* of this authorization; the keys of the issuer have to be read.
VerifyIdToken(t) ==
  /\ \/ Working(t, "callback", 5) /\ GoOn(t, memo[t]) /\ UNCHANGED faults
     \/ Working(t, "callback", 5) /\ Fault /\ Answer(t, "unavailable")
  /\ UNCHANGED <<stores, mail, clock>>

Route(t) ==
  \/ Chats(t) \/ RequestPrincipal(t) \/ ListAvailableChats(t) \/ ForwardAdministration(t)
  \/ Discover(t) \/ CheckBinding(t) \/ VerifyIdToken(t)

-----------------------------------------------------------------------------
(* Calls are sent and answered. *)

\* A call that needs a session and is sent without is answered at once.
WithoutSession(op) ==
  CASE op = "log_out" -> "ok"
    [] op = "administer" -> "forbidden"
    [] OTHER -> "unauthenticated"

\* While the service is down, there is no answer of its own.
First(q) ==
  CASE ~up -> IF q.op = "administer" THEN "forbidden" ELSE "lost"
    [] up /\ "session" \in DOMAIN q /\ q.session = None -> WithoutSession(q.op)
    [] OTHER -> "none"

Sends(t, p, q) ==
  /\ t <= scene.calls
  /\ request[t].op = "none" /\ \A u \in Calls : u < t => request[u].op # "none"
  /\ request' = [request EXCEPT ![t] = q]
  /\ at' = [at EXCEPT ![t] = 1]
  /\ memo' = [memo EXCEPT ![t].now = clock]
  /\ reply' = [reply EXCEPT ![t] = First(q)]
  /\ from' = [from EXCEPT ![t] = [page |-> p, life |-> page'[p].life, mount |-> page'[p].mount,
                                  panel |-> page'[p].panel]]
  /\ UNCHANGED <<stores, mail, clock, faults, up, jar, heard, left, scene>>

Jar(p) == jar[Browser[p]]

\* What a page asks by itself, with the cookies of the moment.
Asking(p, x) ==
  LET own == [op |-> x.op, session |-> Jar(p).session]
  IN  CASE x.op = "get_session" -> [op |-> x.op, session |-> Jar(p).session, after |-> x.after]
        [] x.op = "chats" -> own
        [] x.op = "begin_login" -> [op |-> x.op, client |-> Browser[p]]
        [] x.op = "finish_passkey" ->
             [op |-> x.op, session |-> Jar(p).session, client |-> Browser[p],
              ceremony |-> x.ceremony, genuine |-> x.genuine, count |-> 0]
        [] x.op = "interact" ->
             [op |-> x.op, session |-> Jar(p).issuer, authorization |-> x.authorization]
        [] x.op = "callback" ->
             [op |-> x.op, code |-> x.code, authorization |-> x.authorization,
              binding |-> Jar(p).binding]

Follow(p, x, t) ==
  /\ page' = [page EXCEPT ![p].todo = @ \ {x}]
  /\ Sends(t, p, Asking(p, x))

Hear(t) ==
  LET p == from[t].page
  IN  /\ request[t].op # "none" /\ reply[t] # "none" /\ t \notin heard
      /\ heard' = heard \cup {t}
      /\ jar' = [jar EXCEPT ![Browser[p]] = Cookies(@, t)]
      /\ page' = IF from[t].life = page[p].life THEN [page EXCEPT ![p] = After(@, t)] ELSE page
      /\ left' = left \cup (IF request[t].op = "log_out" /\ reply[t] = "ok"
                            THEN {request[t].session} \ {None} ELSE {})
      /\ UNCHANGED <<serviceVars, from, scene>>

-----------------------------------------------------------------------------
(* What users do. *)

AsksForCode(p, e, t) ==
  /\ e \in scene.mails /\ page[p].shown = "nobody" /\ ~page[p].busy
  /\ page' = [page EXCEPT ![p].busy = TRUE,
                          ![p].prompt = IF page[p].step = "email" THEN None ELSE @]
  /\ Sends(t, p, [op |-> "request_code", email |-> e, client |-> Browser[p]])

\* The code typed is one that has arrived, or wrong.
TypesCode(p, c, t) ==
  /\ "type" \in scene.acts /\ page[p].shown = "nobody" /\ page[p].step = "code" /\ ~page[p].busy
  /\ Jar(p).challenge # None
  /\ page' = [page EXCEPT ![p].busy = TRUE]
  /\ Sends(t, p, [op |-> "verify_code", challenge |-> Jar(p).challenge,
                  right |-> c = Jar(p).challenge])

\* The page goes back from the code to the address.
GoesBack(p) ==
  /\ "back" \in scene.acts /\ page[p].shown = "nobody" /\ page[p].step = "code" /\ ~page[p].busy
  /\ page' = [page EXCEPT ![p].step = "email"]
  /\ UNCHANGED <<serviceVars, jar, from, heard, left, scene>>

PicksPasskey(p, k, genuine, t) ==
  /\ "pick" \in scene.acts /\ page[p].prompt # None
  /\ page' = [page EXCEPT ![p].prompt = None]
  /\ Sends(t, p, [op |-> "finish_login", client |-> Browser[p], ceremony |-> page[p].prompt,
                  passkey |-> k, genuine |-> genuine, count |-> t])

\* A button of the Workspace is disabled while what it began goes on.
Pending(p, ops) ==
  \/ \E u \in Calls :
       /\ request[u].op \in ops /\ u \notin heard
       /\ from[u].page = p /\ from[u].life = page[p].life /\ from[u].mount = page[p].mount
  \/ \E x \in page[p].todo : x.op \in ops

AddsPasskey(p, t) ==
  /\ "add" \in scene.acts /\ page[p].shown \in Accounts
  /\ ~Pending(p, {"begin_passkey", "finish_passkey"})
  /\ UNCHANGED page
  /\ Sends(t, p, [op |-> "begin_passkey", session |-> Jar(p).session, client |-> Browser[p]])

LogsOut(p, t) ==
  /\ "leave" \in scene.acts /\ page[p].shown \in Accounts /\ ~Pending(p, {"log_out"})
  /\ UNCHANGED page
  /\ Sends(t, p, [op |-> "log_out", session |-> Jar(p).session])

SwitchesView(p, v) ==
  /\ "switch" \in scene.acts /\ page[p].shown \in Accounts /\ page[p].view # v
  /\ v = "users" => page[p].may # {} /\ page[p].panel < scene.calls
  /\ page' = [page EXCEPT ![p] = Appears(@, [@ EXCEPT !.view = v])]
  /\ UNCHANGED <<serviceVars, jar, from, heard, left, scene>>

RequestsChange(p, q, t) ==
  /\ UNCHANGED page
  /\ Sends(t, p, [op |-> "administer", session |-> Jar(p).session,
                  change |-> [q EXCEPT !.session = Jar(p).session]])

\* All forms of the panel are disabled while what one of them sent goes on.
PanelBusy(p) ==
  \E u \in Calls :
    /\ request[u].op = "administer" /\ request[u].change.op # "reset" /\ u \notin heard
    /\ from[u].page = p /\ from[u].life = page[p].life /\ from[u].mount = page[p].mount
    /\ from[u].panel = page[p].panel

\* What the page offers is what its user may do by the last answer it has.
Run(p, q, t) == Panel(page[p]) = "users" /\ ~PanelBusy(p) /\ RequestsChange(p, q, t)

AccountForm(p, q, t) ==
  "canManageAccounts" \in page[p].may /\ q.op \in {"create", "update"} /\ Run(p, q, t)
StatusForm(p, q, t) ==
  "canManageAccounts" \in page[p].may /\ q.op = "status" /\ Run(p, q, t)
SessionRevocationForm(p, q, t) ==
  "canManageAccounts" \in page[p].may /\ q.op \in {"revoke", "revoke_all"} /\ Run(p, q, t)
DomainStatusForm(p, q, t) ==
  "canManageDomainStatus" \in page[p].may /\ q.op = "domain" /\ Run(p, q, t)
FunctionalGrantForm(p, q, t) ==
  /\ "canManageFunctionalGrants" \in page[p].may
  /\ q.op \in {"grant", "ungrant"}
  /\ q.grant = Admin => "canManagePlatformAdministrators" \in page[p].may
  /\ Run(p, q, t)

\* There is a route to reset an account, and no form.
ResetsByRoute(p, q, t) == q.op = "reset" /\ page[p].shown \in Accounts /\ RequestsChange(p, q, t)

Changes(p, q, t) ==
  \/ AccountForm(p, q, t) \/ StatusForm(p, q, t) \/ SessionRevocationForm(p, q, t)
  \/ DomainStatusForm(p, q, t) \/ FunctionalGrantForm(p, q, t) \/ ResetsByRoute(p, q, t)

GoesToIssuer(p, t) ==
  /\ "go" \in scene.acts /\ page[p].shown = "nobody"
  /\ page' = [page EXCEPT ![p].shown = "away", ![p].life = @ + 1, ![p].todo = {}, ![p].prompt = None]
  /\ Sends(t, p, [op |-> "start"])

\* The address of a callback is opened once more, here or in another browser.
OpensCallback(p, u, t) ==
  /\ "repeat" \in scene.acts /\ request[u].op = "callback"
  /\ UNCHANGED page
  /\ Sends(t, p, [request[u] EXCEPT !.binding = Jar(p).binding])

\* A request for which the connection broke is sent again by the browser.
SendsAgain(p, u, t) ==
  /\ "again" \in scene.acts /\ request[u].op \in {"finish_login", "finish_passkey"}
  /\ from[u].page = p /\ u \notin heard
  /\ UNCHANGED page
  /\ Sends(t, p, request[u])

Acts(p, t) ==
  \/ \E e \in Emails : AsksForCode(p, e, t)
  \/ \E c \in mailed \cup {None} : TypesCode(p, c, t)
  \/ \E k \in DOMAIN passkeys, genuine \in BOOLEAN : PicksPasskey(p, k, genuine, t)
  \/ AddsPasskey(p, t) \/ LogsOut(p, t) \/ GoesToIssuer(p, t)
  \/ \E q \in scene.changes : Changes(p, q, t)
  \/ \E u \in Calls : OpensCallback(p, u, t) \/ SendsAgain(p, u, t)

Reload(p) ==
  /\ "reload" \in scene.acts /\ page[p].shown # "loading"
  /\ page' = [page EXCEPT ![p] = Loading(@)]
  /\ UNCHANGED <<serviceVars, jar, from, heard, left, scene>>

-----------------------------------------------------------------------------
Init ==
  /\ \E s \in Situations :
       /\ accounts = s.accounts /\ challenges = s.challenges
       /\ sessions = s.sessions /\ passkeys = s.passkeys
       /\ mailed = s.mailed /\ jar = s.jar /\ page = s.page
       /\ clock = s.clock /\ faults = s.faults
       /\ scene = [acts |-> s.acts, mails |-> s.mails, changes |-> s.changes, calls |-> s.calls,
                   readers |-> s.readers]
  /\ up = TRUE
  /\ windows = {} /\ passed = {} /\ ceremonies = {} /\ artifacts = {}
  /\ delivery = [c \in Challenges |-> "none"]
  /\ request = [t \in Calls |-> NoCall] /\ at = [t \in Calls |-> 0]
  /\ memo = [t \in Calls |-> [now |-> 0, allowed |-> TRUE, account |-> None, count |-> 0,
                             principal |-> None]]
  /\ reply = [t \in Calls |-> "none"]
  /\ from = [t \in Calls |-> None] /\ heard = {} /\ left = {}

Next ==
  \/ \E t \in Calls : (Handle(t) \/ Route(t)) /\ UNCHANGED <<up, web>>
  \/ \E c \in Challenges : (Delivering(c) \/ ArriveLate(c)) /\ UNCHANGED <<up, web>>
  \/ (Stop \/ Start \/ Tick) /\ UNCHANGED web
  \/ \E t \in Calls : Hear(t)
  \/ \E p \in Pages, t \in Calls : Acts(p, t) \/ \E x \in page[p].todo : Follow(p, x, t)
  \/ \E p \in Pages : Reload(p) \/ GoesBack(p) \/ \E v \in {"chats", "users"} : SwitchesView(p, v)

Spec == Init /\ [][Next]_vars

\* The service goes on with what it has begun to send.
FairSpec ==
  Spec /\ \A c \in Challenges : WF_vars(Delivering(c) /\ UNCHANGED <<up, web>>)

-----------------------------------------------------------------------------
(* Every value is one that the code can hold. *)
TypeOK ==
  /\ TablesOK /\ up \in BOOLEAN
  /\ clock \in 0 .. MaxTime /\ windows \subseteq passed /\ mailed \subseteq Challenges
  /\ delivery \in [Challenges -> {"none", "sending", "sent", "failing", "given_up", "lost"}]
  /\ reply \in [Calls -> Replies \cup {"none"}] /\ at \in [Calls -> 0 .. 7]
  /\ \A t \in Calls : memo[t].account \in Accounts \cup {None} /\ memo[t].now <= clock
  /\ jar \in [Clients -> CookieRow] /\ page \in [Pages -> PageRow]
  /\ heard \subseteq {t \in Calls : reply[t] # "none"} /\ left \subseteq Sessions

(* No key is let through more often than its rule says within a window of    *)
(* real time, short of how late a process reaches the limiter after it read  *)
(* its clock: the script drops what others counted by the clock of the one   *)
(* that asks (redis-rate-limiter.ts:24).                                     *)
WindowsHold ==
  \A x \in passed :
    LET rule == Rules[x.key[1]]
    IN  Cardinality({y \in passed : /\ y.key = x.key /\ y.at <= x.at
                                    /\ y.at + rule.window > x.at + MaxDelay}) <= rule.limit

\* What a call t has brought about: a session or a passkey.
Granted(t) == New[t] \in DOMAIN sessions \cup DOMAIN passkeys
Beginning(id) == CHOOSE t \in Calls : New[t] = id

(* A ceremony or an authorization code brings at most one session or passkey *)
(* about, however often the request arrives and however its handlers         *)
(* interleave, and only for the browser, and in registration the session,    *)
(* that began it.                                                            *)
GrantedOnceToWhoBegan ==
  /\ \A t, u \in Calls :
       /\ Granted(t) /\ Granted(u)
       /\ \/ request[t].op = "callback" /\ request[u].op = "callback"
             /\ request[t].code = request[u].code
          \/ request[t].op \in {"finish_login", "finish_passkey"}
             /\ request[u].op \in {"finish_login", "finish_passkey"}
             /\ request[t].ceremony = request[u].ceremony
       => t = u
  /\ \A t \in Calls :
       Granted(t) =>
         /\ request[t].op \in {"finish_login", "finish_passkey"} =>
              LET b == Beginning(request[t].ceremony)
              IN  /\ request[b].client = request[t].client
                  /\ request[t].op = "finish_passkey" =>
                       /\ request[b].session = request[t].session
                       /\ passkeys[New[t]].account = sessions[request[b].session].account
         /\ request[t].op = "callback" =>
              Browser[from[Beginning(request[t].authorization)].page] = Browser[from[t].page]

(* A code that is being sent is sent, or nobody can use it any more, unless   *)
(* the process stopped or could not reach the store when it gave up           *)
(* (auth-service.ts:369).                                                    *)
CodesSettle ==
  []<>(\A c \in Challenges :
         /\ delivery[c] \notin {"sending", "failing"}
         /\ delivery[c] = "given_up" => ~Open(c))

(* A session that a page was told is logged out is over, whatever failed on  *)
(* the way, and no other call revives it.                                    *)
LogoutEnds == \A s \in left : ~Kept(s)

=============================================================================
