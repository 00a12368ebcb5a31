# kovcheg in TLA+

This directory holds TLA+ specifications of kovcheg, the messenger in `src/`
(TypeScript services over PostgreSQL and Redis), the TLC configurations that
check them on small instances, and proofs checked by TLAPS.

## 1. The system

A message goes through five stations:

    browser  --POST-->  API  --one SQL call-->  PostgreSQL (messages, outbox, audit)
                                                     |  claim under a lease
                                                 worker: outbox publisher
                                                     |  XADD
                                                 Redis stream kovcheg:application-events:v1
                                                     |  consumer group
                                                 worker: realtime relay
                                                     |  POST, acknowledged by 202
    browser  <--Socket.IO--  API gateway (every live instance)

The event carries ids and a chat sequence, never the text: the browser answers it
with a read of the history. Who may write or read is decided inside PostgreSQL
functions; who is signed in is decided by the auth service, which keeps sessions in
the same database. Signing in goes another way:

    browser  --cookies-->  web back end (/bff)  -->  auth service  --one SQL call-->  PostgreSQL
       \                                              |  scripts: windows, ceremonies
        \--redirect--> issuer (OIDC) --callback-->    Redis

The auth service mails codes, begins and finishes passkey ceremonies, is itself the OIDC
issuer, and administers accounts. The API asks it for the principal of every request.

### Inventory

| component | state | operations | hard behaviour | what makes it correct | module |
|---|---|---|---|---|---|
| Message write path: `create_text_message_for_session`, `write_text_message`, `assign_chat_sequence`, `allocate_chat_sequence` | counters, messages, outbox, audit; locks of running transactions | one SQL call of about ten statements at READ COMMITTED | concurrent retries, rollback anywhere, replies that are lost, revocation while a call runs | gapless sequences that commit in order, one message per key, true answers, one event each, authority that still holds at commit | `MessageWrite`, refining `MessageLog` |
| Membership and posting rights: `track_chat_membership_period`, `admin_set_domain_status`, persona grants, roles | memberships, periods, grants, roles, versions | administrative transactions | boundaries read without a lock, clocks of the callers | periods are ordered, no revocation is overtaken | in `MessageWrite` and `MessageHistory`, at their commit; grants, domain and versions in `AuthStore` |
| History reads: `readMessageHistory` | none; a snapshot each | pages after, before, latest | messages and rights change between pages | nothing left out, nothing twice | `MessageHistory` |
| Outbox publisher | claims and leases on outbox rows, the stream | claim, XADD, record, release | crash between any two, lease outlasted, reply lost | nothing recorded that was not published, everything published | `OutboxPublisher` |
| Realtime relay | pending entries of the consumer group | reclaim or read, POST, acknowledge | slow or failing API, several workers | no entry acknowledged undelivered, everything acknowledged in the end | `RealtimeDelivery` |
| Realtime gateway | rooms of each instance | connect, subscribe, deliver locally and at peers | join and read are two steps; peers come and go | everybody subscribed is told or has read, nobody beyond its session | `RealtimeGateway`; as one client sees it in `ClientTimeline` |
| Web chat panel | timeline, cursor, requests in flight | history, subscription, catch-up, send | replies out of order, lost, for a chat that was left | no gap, no double | `ClientTimeline` |
| Web sign-in: pages, cookies, back end for the front end | what each page shows and has under way; the cookies of a browser | asking for and typing a code, a passkey, the way through the issuer, logging out, chats, administration | answers late, lost and out of order, several pages with one jar, requests sent again | a ceremony or code serves whoever began it, once; a logout that was confirmed is final | `SignIn` |
| Auth: handlers of `AuthService`, `PasskeyService`, the provider and the bridge | nothing but what a handler remembers between awaits; mail under way | about twenty handlers, each a few awaits | any await fails or takes effect unseen; delivery times out; the process restarts | limits, one session per proof, a code is delivered or void | `AuthService` |
| Auth: repository | accounts, challenges, sessions, passkeys | 21 operations, each one SQL function | any two of them lock the same rows, in different orders | each is one step; deactivation leaves nothing; authority holds at commit | `AuthStore`, refining `AuthRepository` |
| Auth: ceremonies and rate limiter (Redis) | ceremonies; a sorted set per key | put and take; consume | two takes at once; clocks of callers | taken once; no more than the limit in a window | in `AuthService` |
| In-memory adapters of the auth service | maps behind a queue | the operations of the repository | none: one after another | the same port | `AuthRepository` |
| Edge, deployment, migrations runner, verification scripts, presentation | – | – | – | – | not modelled, see section 7 |

Interactions are of three kinds: SQL calls (whose locks are what two callers share),
Redis commands, and HTTP or Socket.IO calls that may time out although they take effect.

## 2. The modules

Each specification has its state as variables, one action per operation or step, a type
invariant and the properties named below. `MC<Module>.tla` and a `.cfg` instantiate it
for TLC. `<Module>Proofs.tla` holds the theorems. Operators named `X_<change>` beside an
operator `X` are *mutants*: `X` with one plausible programming mistake. No behaviour uses
them. Each property has a mutant under which TLC finds it violated, so that a run that
passes says something about the code.

### MessageWrite, MessageLog

`MessageWrite` is the transaction behind `POST /chats/{chatId}/messages`, run by many API
instances at once. `phase[t]` is the statement that call `t` executes next:

| action | statement |
|---|---|
| `LockOperator`, `LockSession`, `LockGrant` | the FOR SHARE checks of `create_text_message_for_session` and `authorize_system_persona_action` (0011) |
| `CheckPosting` | the test at the head of `write_text_message` (0010) |
| `ClaimKey` | the trigger `assign_chat_sequence` (0003): advisory lock on (chat, sender, key), then the lookup |
| `RecheckPosting`, `InsertMessage` | the trigger's second test, `allocate_chat_sequence` and the row |
| `WriteEvents`, `Commit` | the outbox and the audit row; the end of the transaction, whose reply may be lost |
| `Fail` | any statement fails, or the process or the connection dies |
| `Deactivate`, `RevokeSession`, `GrantPersona`, `RevokePersona`, `ChangePosting`, `SetDomainStatus` | administrative transactions, at their commit |

A statement sees what is committed when it starts (READ COMMITTED). Uncommitted writes are
in `wrote` and `sequence` and reach the store in `Commit`. Locks are not variables: a call
holds what it has locked until it ends, so the `Holds...` operators derive them from
`phase`, and the actions that must wait have `~Holds...` among their guards. The row lock
on the counter is `HoldsCounter`.

`MessageLog` is what the write path promises: each chat is a sequence of entries to which
a call appends its message, or finds it there, or is refused, in one step. `LogOf` is the
refinement mapping: the entry at place `n` is the message with sequence `n`.

### OutboxPublisher

Worker processes run `publishOnce` over the outbox: `Claim` (claimNext), `Publish` (XADD),
`Mark` (markPublished), `Release`. `PublishFails` and `MarkFails` are commands that fail,
the second disjuncts of `Publish` and `Mark` commands that take effect while their reply
is lost, `Crash` is the process dying (or `release` failing), `Expire` the end of a lease,
which is a fault when the holder is still at work. A claim token stands for the worker
that made it. `Malformed` are rows the realtime contract refuses.

### ClientTimeline

The chat panel against the API, gateway and relay, for one browser. Requests are asked
(`asked`), answered by the API from a snapshot (`answers`) and received. `Relay` delivers
an event in any order and possibly again. `Connect`, `Join`, `ReadSubscription`,
`ReceiveSubscription` are the subscription; `Disconnect` is a connection that is lost, which
Socket.IO opens again, and `Refuse` one that the gateway ends because a check of the session
or of the right to read said no or failed: the client hears of it (`ReceiveDisconnect`) and
does not connect again before another chat is chosen. `ReceiveHistory` is the newest and
older pages;
`ReceiveCatchUp` the catch-up loop page by page; `Send`, `StorePost`, `ReceivePost`,
`PostFails` the sends. `Select` is the effects of choosing another chat: it resets the
panel but not the requests in flight, as the code does. `shown`, `bubble` and `last` are
the stored items, the optimistic items and `lastSequence` of `message-state.ts`.

### MessageHistory

Walks over a chat through `readMessageHistory`, upwards by `nextAfterSequence` and
downwards by `nextBeforeSequence`. A read is one repeatable-read transaction and so one
action. `Rows` are the LIMIT + 1 rows of the query and `Page` what is kept of them.

### RealtimeGateway, RealtimeDelivery

`RealtimeGateway` is the API's side of the announcement of one chat's messages. A *run* is
one execution of `emitMessageCreated`, a *task* its `deliverLocal` at one instance:

| action | code |
|---|---|
| `Admit`, `Join`, `ReadChat`, `Confirm` | `handleConnection` and `subscribe`: the first check of the session, the room, the read, the second check |
| `Fetch`, `Validate`, `Tell`, `TellFails` | `deliverLocal`: the sockets of the room, and of each the session, then the right to read, then the emit |
| `Accept`, `Count`, `Emit`, `Answer`, `TimeOut` | `emitMessageCreated`: locally, then the number of servers, then the peers and their acknowledgements |
| `Cut`, `Start`, `Die`, `Forget` | Redis lost; instances that start, die, and are missed by the adapter |
| `EndSession`, `ChangeMembership` | what administrators and owners of sessions do meanwhile |

The Socket.IO adapter is external: it counts an instance from its start until heartbeats
are missed, and awaits the answers of those it counted when it asked. A read of a right and
the effect that follows its answer in the same turn of the event loop are one action;
everything that is awaited in between is a state other actors can act in.

`RealtimeDelivery` extends it with the relay of the worker and the consumer group: `Reclaim`
(XAUTOCLAIM), `ReadNew` (XREADGROUP), `Post`, `Hear` and `Acknowledge` are one pass over a
batch; `PostFails`, `GiveUp` (the five seconds of the POST), `Crash` and the second
disjuncts of `ReadNew` and `Acknowledge` its failures; `Age` is an entry that has been idle
long enough to be reclaimed. An execution whose caller has given up runs on and ends with
`End`. `Acknowledged` are the entries delivered to the group and not pending.

### AuthRepository, AuthStore

`AuthRepository` is the port of that name (`ports.ts`): accounts, challenges, sessions and
passkeys, and every operation on them as an action whose last parameter is its answer. It
is what `LocalAuthRepository` does, one operation after another in its `ExclusiveQueue`.
Where PostgreSQL may decide otherwise the port allows both; section 6 lists these places.

`AuthStore` is the same operations as SQL functions in transactions of their own, running
at the same time. `Plan` gives each function its statements; a statement is

| action | what PostgreSQL does |
|---|---|
| `Select` | finds rows as committed when the statement starts (`Sees`, `Selected`), or nothing (`Miss`) |
| `Lock` | locks them one by one; a row that is held by another call is waited for |
| `Check` | looks at the locked rows once more (`Passes`), and the function decides (`Ruling`) |
| `Commit` | publishes what the function has written (`Writes`, `WritesThough`), frees the locks; the reply may be lost |
| `Query` | a function that locks nothing |
| `Fail`, `Deadlock` | any statement fails; one of the calls that wait for each other is given up |

An account stands for the rows of `accounts` and `account_auth_profiles`, which are locked
together; the rows `email` and `owner` stand for the unique index on mail addresses and
the advisory lock of the bootstrap. The functions differ in the order of their locks, which
is why `Deadlock` is there: a challenge or session is locked before its account by whoever
presents it, and after it by whoever deactivates the account. `map` names the method of
`PostgresAuthRepository` that a definition ending in `Writes` stands for, and beside it the
SQL function it calls.

### AuthService, SignIn

`AuthService` is what the handlers do between the stores: each is a sequence of awaits
(`at[t]`), and what it keeps from one to the next is `memo[t]`. An operation on the
repository is one step of `AuthRepository`, which `AuthStore` justifies; a script in Redis
is one step as well. `ConsumeWindow` is the script of the limiter, `Put` and `Take` those of
the ceremonies. `Deliver`, `GiveUp`, `ArriveLate` and `InvalidateUndelivered` are the race
of a delivery with its timeout. Any await may fail with or without effect (`Fault`), and
`Stop` and `Start` are the process; a start runs the bootstrap.

`SignIn` puts the web application on top: pages (`page`), the cookies of their browsers
(`jar`), the routes of the back end for the front end (`Cookies`, `Route`), and users. A
page sends some calls by itself (`todo`, `Follow`) and others because of its user (`Acts`);
`Hear` is an answer that arrives: it sets cookies whichever page is open, and changes the
page if it is still the one that asked. A call may be sent again (`SendsAgain`).
Administration is what the forms of `administration-panel.tsx` enable (`Changes`): the
capabilities last shown, no other request under way.

The modules meet in what they assume of each other: `ClientTimeline` and `MessageHistory`
take a chat to be the sequences `1 .. n` that become visible in order, which is
`SequencesHaveNoGaps` and `CommitsFollowSequence` of `MessageWrite`; `OutboxPublisher`
starts from the outbox row that `EventsMatchMessages` provides; `RealtimeDelivery` from
the stream that `EventsAreDelivered` fills; and `Relay` in `ClientTimeline` is what
`AcknowledgedWasSeen` and `RelayCatchesUp` say a subscriber is told; `AuthService` takes an
operation of the repository to be one step, which is `RepositorySpec` of `AuthStore`; and
the sessions and grants that `MessageWrite` locks are those `AuthStore` revokes.

## 3. The runs

| run | instance | shows |
|---|---|---|
| `MessageWrite` | three calls, any three of four requests (a message, its key with other content, two operators as one persona with one key), two administrative transactions | `SequencesHaveNoGaps`, `OneMessagePerKey`, `EventsMatchMessages`, `AnswersMatchMessages`, `LocksProtectCalls`, `PeriodsAreOrdered`, `CallsNeverStall`, `CommitsFollowSequence`, `CommittedWithAuthority`, `ImplementsLog` |
| `OutboxPublisher` | two workers, three rows, the last refused, three faults | `DeliveredWasPublished`, `DuplicatesNeedFaults`, `LeaseIsExclusive`, `EventsAreDelivered` |
| `OutboxPublisherRefused` | one worker, the first row refused, no fault | `DeliveryIsAtLeastOnce` is violated |
| `ClientTimelineReading` | two instances: a chat that fits the newest page, two messages of others, catch-ups of one page of one item, three failures; and a chat of four to five messages, pages of two and one, room for three, no failure | `NoHoles`, `CompleteWhenQuiet`, `CaughtUp` |
| `ClientTimelineSwitching` | two chats, an own message, one switch, one failure | `NoDoubles`, `NothingAboveIsMissed` |
| `ClientTimelineOwnMessage`, `ClientTimelineSwitch` | no failure; an own message, or one switch | `CompleteWhenQuiet` is violated |
| `MessageHistoryWalks` | two walks up and one down, pages of two, up to six messages, two changes of rights | `WalksLeaveNothingOut`, `WalksEndAtTheEnd` |
| `MessageHistoryPeriods` | a reader who leaves and joins again | `ReadsStayInPeriods` is violated |
| `RealtimeDelivery` | two messages, one socket, two instances, one worker with batches of two, two executions at a time, one failure, one change of rights | `AcknowledgedWasSeen`, `SeenWithinSession`, `RelayCatchesUp` |
| `AuthStore` | any two of 33 requests and a look at a session, any three of seven that race for one account, and the set-up of an empty store | `DeactivatedHasNoAccess`, `OneSessionPerProof`, `GuessesAreLimited`, `OneOpenCode`, `ChangesAreAuthorized`, `NothingComesBack`, `OwnerDecides`, `NoUpdateIsLost`, `RepositorySpec`, `CallsEnd` |
| `SignIn` | thirteen situations with two browsers, three pages and two to five calls | `WindowsHold`, `GrantedOnceToWhoBegan`, `LogoutEnds`, `CodesSettle` |

Every module has a type invariant, and that it holds is proved for all instances
(`TypeCorrect`, section 4). `MessageWrite` and `AuthStore`, the two runs in which calls
overlap inside transactions, check it as well; the others leave it to the theorem.

**Bounds.** `MaxChanges`, `MaxFaults`, `MaxSelects`, `MaxMessages`, `MaxLength` bound how
often an administrator, a failure, a switch or a write happens. Three calls are enough for
one that holds a lock, one that waits for it and one that comes when it is released; two
administrative transactions for a right to be taken and given back. Two workers and three
faults let a row be claimed, lost, claimed by the other, lost again and marked late. In
`RealtimeDelivery` one failure is enough for an entry to be lost on its way, refused, late
(while its execution goes on beside the next) or acknowledged in vain, or for an instance
to die between the count and the answer; a batch holds both messages, so that the second
is handled after the first was refused; the second instance starts at any time, and so is
counted or not, and has the socket or not. The page limits of the code (50, 100, 20 pages,
400 items) are scaled to 1 to 4 so that a chat of a few messages goes beyond each of them.
In `AuthStore` two calls that race and a third that looks on reach every pair of orders of
locks; the triples are of calls that want one account in different ways (right and wrong
codes, a token, a passkey, a session that expires, two administrators who deactivate each
other), which is where three parties in one deadlock or a queue of two behind a lock occur.
A code has two attempts, so that three guesses exceed them. A situation of `SignIn` opens
what one question needs (a code typed while a passkey is picked, two pages that log out, a
callback opened twice, a page that reloads while its session runs out, two administrators,
the owner's address changed before a restart, ...) and bounds the calls, `MaxTime` (three
units, a window being two) and, where it has one, the one failure or restart; `MaxDelay` is
how long ago a caller of the limiter may have read its clock, and one is half a window.

The calls of `MessageWrite` and the chats of `ClientTimelineSwitching` are
interchangeable, and symmetry is used there; not where a liveness property is checked.
Deadlock is checked for the publisher and the relay, which always have something to do.
Elsewhere the system may stop: when all calls have ended, when the user does nothing, when
the walks are over, when nobody signs in; `CallsNeverStall` takes the place of the check
for the write path, and `CallsEnd` for the store of the auth service.

**Fairness.** `OutboxPublisher`: the publisher loop of every worker runs on (it catches
every error and tries again), and the leases of claims nobody works on expire; faults are
never owed, and end. `ClientTimeline`: Socket.IO reconnects by itself after a connection was
lost, and not after the API has ended it; the API answers what it is asked, sends are
answered, and the relay delivers every event in the end; the user owes nothing, and a retry
after an error is the user's. `RealtimeDelivery`: the relay
loop of every worker runs on, executions that were begun go on and end, entries come of
age, and dead instances are missed; clients and writers owe nothing, and failures end.
`AuthStore`: PostgreSQL goes on with some statement that waits for nothing, or finds a
deadlock; no call is owed progress before another (one weak fairness condition for all of
them), and failures are never owed. `SignIn`: only a delivery that was begun goes on and
ends, since the promises raced in `deliverChallenge` do so by themselves; users, browsers
and the network owe nothing.
The temporal counterexample of `OutboxPublisherRefused` is under the fairness of the publisher.

## 4. What is proved

The theorems hold for all values of the constants; their assumptions are the `ASSUME`s of
the modules (bounds are numbers, kinds of accounts are disjoint, requests are well-formed,
a write rule is a read rule, events are ordered by numbers, pages have at least one item,
instances are finitely many, lifetimes and attempts are positive and the idle lifetime is
not the longer one). `AuthStore` starts in any tables that satisfy its invariants, and
random ids are fresh (`FreshIds`); a provider token is a token of one account. `SignIn`
starts in any situation that satisfies `Opening`: tables of the right type, pages with
nothing under way but the questions they ask when they appear, cookies that name stored
sessions, no authorization begun, and ids for what calls will make that are not in use.

**MessageWriteProofs.** `TypeCorrect`, then `Inductive`: the invariant `IInv` is
`TypeOK`, `PhasesAgree` (what a call has written and its answer agree with its phase),
`LocksProtectCalls`, `Store` (the sequences, keys and events) and `AnswersMatchMessages`.
None of the last is inductive alone: a commit extends the sequences by exactly one
because the counter is locked and still what the call read (`CounterLocked`); it adds no
second message of its key because the key is locked and was free (`KeyLocked`); and the
audit row is right because requests are sound. From it `NoGaps`, `KeysAreIdempotent`,
`EventsFollowMessages`, `AnswersAreTrue`, `LocksProtect`, and, of steps, `CommitsInOrder`
and `AuthorityAtCommit`. `Refinement` shows that every step is a step of `MessageLog` or
leaves the log as it is. `PeriodsOrdered` has an invariant of its own, in which no
boundary is above the last sequence. `NoCircularWaits` is what keeps calls from stalling,
without ENABLED: whoever waits for a counter waits for a call that runs, and whoever waits
for a key waits for one that runs or that waits for a counter, so that a chain of waits
has two links at most and as long as any call is not done, some call waits for nobody.

**OutboxPublisherProofs.** `NothingIsSkipped` and `LeasesExclude` from an invariant that
says what each step of a worker knows of its row: who is about to mark has published.
`DuplicatesArePaid` keeps a book (`Paid`): what is in the stream, what workers are about
to publish and what still needs a worker's claim (`Unserved`) is never more than the rows
and the faults there have been. A worker that publishes moves one entry of the book; only
a fault adds one, as a claim that is lost must be served again.

**ClientTimelineProofs.** `TypeCorrect`, `NothingTwice` and `NothingAboveMissed` hold for
any chats, sends, switches and failures. `NothingTwice`: a stored own message has no
bubble, whichever of the reply and the timeline tells of it first. `NothingAboveMissed`:
when the header says connected and nothing is under way, no message of the selected chat
is above `lastSequence`. Its invariant `WayInv` says that while the header says connected
each message above `lastSequence` is on its way (`NothingLost`, `OnItsWay`): its event has
still to be accepted, or a subscription or catch-up is under way that reaches it. A
catch-up that fails changes the header in the same step, a reply that is merged into the
wrong chat or an own message only raises `lastSequence`, and a chat that is selected is
subscribed to anew. `ReadingHasNoHoles` and `ReadingIsComplete`
are about a client that only reads (`Reader`: no sends, no switches) of a chat that fits
the newest page (`Fits`, a premise of `NoHoles` and of the theorem of completeness). None
of this can be dropped: what an own message, a switch and a longer chat bring about is in
section 6. Their invariant is `ReaderInv`: what is shown is the last stretch of the chat
up to `lastSequence`, as long as the timeline keeps (`ShownIsWindow`), which is inductive
because every request in flight begins at or below `lastSequence` (`RequestsAreMine`), so
that a merged page always touches the stretch. Completeness is this and
`NothingAboveMissed` together.

**MessageHistoryProofs.** `NothingLeftOut` and `EndAtTheEnd` for any page size, number of
walks and additions, from what a walk has been given up to its cursor.

**RealtimeDeliveryProofs.** `AcknowledgedAfterSeen` and `SessionBounds` for any number of
messages, sockets, instances, executions, workers and faults. Neither property is
inductive: the acknowledgement is separated from the emit by the local delivery, the
count, the peers, the answer and the reply. The invariant `IInv` says what each of them
still owes (`Executions`): a socket that is not yet sure to learn of the message of an
execution is at an instance whose delivery has still to reach it (`Pends`), or the
execution is refused. Who joins later is sure to read it, since the room is joined before
the chat is read (`Informed`); a worker awaits its own execution only (`Awaited`); and a
socket that has been validated for a session that ends before the emit is told only of
what was written before (`HeldWithinSession`). `Learn` is what makes steps of sockets
harmless: clients forget nothing, and a socket that moves is sure to read everything.

**AuthStoreProofs.** The four safety properties of the store and the refinement, for any
number of calls, accounts, rows and times. None is inductive, since a property of the
tables at a commit depends on what a call has seen several statements before. The
invariant `IInv` says of each call which statements it has begun and what of their rows
it holds or waits for (`Seen`), and what it still knows of those it has checked
(`Known`): a session is kept, an account active, a code open with an attempt left, a token
not exchanged, an address free. The argument has two halves. What a commit of a call does
to the tables is confined to rows it holds, or that it adds for an account it has locked
(`Effect`); and since no two calls hold one row (`Exclusive`), a commit leaves alone what
another call has begun (`Same`), hence what it knows. Deactivation needs the further fact
that rows of an account cannot be added while its row is locked (`NoneAdded`), so that the
sessions, codes and passkeys selected under the lock are all there are. From `IInv` follow
`TypeCorrect`, `DeactivationIsComplete`, `ProofsAreSpentOnce`, `GuessingIsLimited`,
`LocksAndAddresses` (no two accounts with one address) and `ChangesStayAuthorized`.
`StoreImplementsPort` shows that the end of a call is one step of the port: what the call
still knows of its rows is what the operation of `AuthRepository` asks of the tables at
once (`CommitPerforms`, `MissPerforms`, `RulingPerforms`, `QueryPerforms`), and every step
before it changes neither tables nor answers.

With that, what the port keeps the store keeps, however calls interleave: a step of the
store that changes the tables is an operation that a call performs (`CallsPerform`), and
three more theorems need one lemma each on the operations of the port. `CodesAreSingle`:
no account has two open codes. `HistoryIsKept`: no call that read a row before writes over
what ended or counted it since. `OwnerAloneDecides`: administrators are made and unmade
only by the owner, whose session is live at the commit though it was looked at several
statements before. A fourth, `NoChangeIsLost`, says more than the port, in which a change
need not compare versions: it uses what the call knows at its commit, that the version it
was decided on is the one it finds (`CommitsCount`).

**AuthRepositoryProofs.** Lemmas about the port that the store and the services share:
what revoking, invalidating, touching and storing rows returns, and what any operation
leaves of the tables (`PerformGrows`): rows keep their types, sessions and passkeys are
added under the caller's fresh id only and stay with their accounts, and revoked rows stay
revoked. `PerformAnswers` says what stands in the tables when an answer is good.
`PerformChanges` brings all operations to one form (`TablesChange`): of each table, which
rows are revoked, touched, counted or stored, and by which operations. From it follow, once
for all operations, `PerformKeepsHistory`, `PerformKeepsOneOpenCode`, and `OwnersAsk`: a
change of who is an administrator is asked for by the owner.

**SignInProofs.** Four theorems, for any situations, calls, pages, browsers, limits and
clocks. Every handler is summed up once (`Step`): how a call goes on from one await to the
next, and what it may do to the tables, the limiter's windows, the ceremonies and the
provider's artifacts, whether the await succeeds, fails, or fails after it took effect.
`NextSteps` reduces the next-state relation to such a step, to the process, mail and
clock, to an answer that a page hears, and to a call that a page sends; every invariant is
then proved from four cases rather than from each handler.

- `TypeCorrect`, from `TInv`, which adds what handlers remember and what is asked.
- `LoggedOutIsOver`. That a session is revoked when its logout is confirmed is decided
  several awaits, and an answer that may be repeated or late, before the page says so.
  `LeaveInv`: a logout names a stored session, which is revoked once the answer is good;
  the cookie that is to be named by the next one is of a stored session. It needs
  `FreshInv`: what a call will make is not in the tables before it has answered.
- `LimitersHold`. The script drops what is old by the clock of whoever asks, which is not
  the time. `WindowInv`: what was let through was late by `MaxDelay` at most, and has been
  dropped only when its window was over for everybody (`PassedOK`). So at the latest
  passing of any window all that `WindowsHold` counts was still in the set that the script
  compared with the limit.
- `GrantsAreOnceToWhoBegan`. A ceremony in Redis was begun by the browser, and in
  registration the session, that it names (`BegunBy`); a handler past its third await has
  taken the ceremony it names, which is gone, and no other handler has (`CeremonyInv`). The
  same of authorization codes, which are used up or expired (`CodeInv`). The cookie that
  binds an authorization was given to the browser that began it, and a callback goes
  further only with the authorization its binding names (`BindingInv`). `GrantInv`: behind
  every session and passkey that a call has made is a code that was verified, a ceremony
  or a code that this call has taken.

`*Proofs` modules are checked with `tlapm`; nothing is assumed without proof.

## 5. What is only model-checked

Liveness (`EventsAreDelivered`, `CaughtUp`, `RelayCatchesUp`, `CallsEnd`, `CodesSettle`)
and `CallsNeverStall`, which is about ENABLED, are beyond the prover; that waits are never
circular, the heart of the latter, is `NoCircularWaits`. `NoHoles` is
neither checked nor proved with own messages or switches, which section 6 shows to break
it; `CompleteWhenQuiet` of a chat longer than its newest page is checked on the instance of
section 3, in which nothing fails, and is false when something does (section 6).

## 6. What the runs found

- **A refused row stops the publisher** (`OutboxPublisherRefused`). Ids of chats may be of
  UUID versions 6 to 8 for the API and not for the realtime contract; such a row is given
  back and claimed again, first in the order, for ever. README.md of the repository:
  "Delivery is at least once."
- **An own message hides another's** (`ClientTimelineOwnMessage`). The reply to a send
  raises `lastSequence`; a message of somebody else with a lower sequence whose event
  comes later is never read. "Clients recover any gap from PostgreSQL history."
- **A late reply enters another chat** (`ClientTimelineSwitch`). Replies are merged into
  the selected chat without asking which chat they are of.
- **A refusal ends the updates** (no run of its own: the state is the exception `Stranded`
  that `CaughtUp` names). `authenticateSocket` takes a check that fails or times out for a
  session that is over, and the gateway disconnects the socket when it connects, when it
  subscribes and before each event (`realtime.gateway.ts:194` and `207`). The tests of the
  gateway see the reason "io server disconnect", after which Socket.IO leaves it to the
  application to connect again; the panel does not (`chat-panel.tsx:254-257`), and its
  header goes on saying "Переподключаемся…" while later messages do not show, until another
  chat is chosen, or the panel or the page is opened again. "Clients recover any gap from
  PostgreSQL history" does not hold then: without `Stranded`, TLC refutes `CaughtUp` with
  one failure. A loss of Redis is different: the adapter
  closes the transport, and Socket.IO reconnects.
- **History and membership periods** (`MessageHistoryPeriods`). The README says that
  history is filtered by "membership-period checks"; reads use the current membership
  only, and a member who returns can read what was written while it was away. The tests
  of the repository hold the code to this.

What the panel loses lies at or below `lastSequence`: above it nothing is missed while the
header says connected, by `NothingAboveMissed`, which has none of the hypotheses that
follow. The hypotheses of
`ReadingIsComplete` are the limits of what holds. Without `Reader` there
are the second and third of these. Without `Fits` there is a hole even for one who only
reads and sees things fail: the newest page raises `lastSequence` while a catch-up from an
earlier sequence is under way; when that catch-up fails or reaches its limit of pages, the
next connection subscribes after `lastSequence` and the header says connected, and what
lies between is read only if the reader pages back. (TLC shows it with pages of one item,
three messages and two failures.) `ClientTimelineReading` therefore has failures on a chat
that fits the newest page, and none on the longer one.

**Where the two stores differ.** The port `AuthRepository` allows both answers; the
services on top of it do not tell them apart except as said.

- The in-memory store ignores the version of an administrative change, lets an existing
  grant be granted and a missing one be revoked; PostgreSQL answers conflict (23505) or
  missing (P0002). Revoking the owner's own grant is a conflict in memory and a failed
  check (23514), so "unavailable", in PostgreSQL.
- In memory every administrative operation counts as activity of the administrator's
  session; in PostgreSQL only creating an account and revoking sessions do.
- In memory a login with a passkey does not compare the time with its creation.
- `authenticate_auth_session` with a clock behind the one that issued the session violates
  a CHECK of the table and is answered with "unavailable".
- A code asked for while the mail address passes from one account to another may be
  answered neutrally although at every moment an active account had it.
- The bootstrap runs at every start, and is a conflict once the owner's mail address has
  been changed; the service then does not start (situation `Upkeep`).

**What the situations of `SignIn` show** of the web application, none of it against a
promise of the repository:

- Asking for a code again within the cooldown replaces the challenge cookie by one that
  belongs to no challenge; the code that was mailed no longer works.
- A late 401 or a late reply to `refreshSession` is not compared with the session it was
  asked with: it can hide a newer session, or show the workspace after a logout.
- `readSession` takes every answer but a success for "no session", so that a failure of
  the auth service becomes a 401 of the list of chats.
- Administration answers 403, not 401, when the session is over; the panel's handler of
  401 is never used. No form asks for `auth-security-reset`, though the route exists.
- A logout that fails upstream with an answer clears the cookie and leaves the session
  alive; the page stays in the workspace. `LogoutEnds` is about logouts that were confirmed.
- The callback of a stale page clears the binding of a newer authorization.
- `cancelPasskeyCeremony` has no effect while the options are still being fetched.

## 7. What is not modelled

- Contents, names, times, correlation ids, HTTP shapes, parsing, logging, layout.
- Clocks of memberships: `admin_set_domain_status` revokes with the caller's clock. In
  `AuthStore` every call has a clock of its own; `SignIn` has one clock and callers that
  read it late, not clocks that go apart. Elsewhere a session or lease may end at any time.
- Lock orders between the administrative transactions of `MessageWrite`, which are single
  commits there; in `AuthStore` they are modelled.
- Of `AuthStore`: audit events, starter chats and the memberships of a domain status; the
  checks of parameters the service never violates; that the shared key lock a grant takes
  on its account is weaker than the exclusive one it has here; an update with a clock
  before the account's creation; a second use of an id of an assertion.
- Of `AuthService`: cryptography (whether an assertion, a code or a token is genuine is
  part of the request), the expiry of keys in Redis before their entries lapse, models of
  the provider other than codes and access tokens, a service configured without bootstrap.
- Of `SignIn`: cookies that expire, the problem report, focus and layout. Both answers to
  a request that was sent again are heard.
- `createGroupChat` and `setChatAdministrator` of the API, each a single transaction.
- In `ClientTimeline`: the moment for which the header says offline between the gateway's
  error event and the end of the connection, and the panel that is closed and opened again.
- A row that `SKIP LOCKED` passes over whose transaction then rolls back.
- Stream entries that cannot be parsed, which the relay acknowledges unsent; the publisher
  writes none (`DeliveredWasPublished`). Several chats or event types in one stream.
- A peer that has just started and is not counted yet when the others are asked, or that
  the adapter drops while it lives: the adapter's doing, and external.
- More entries that fail for ever than a batch holds: they are reclaimed before new ones
  are read. `RelayCatchesUp` has failures that end.
- Presentation, parsing of the configuration, the edge, deployment, backups, the migrations
  runner (psql under an advisory lock; whether a migration is applied is asked before the
  lock, and the primary key of `schema_migrations` makes a race an error), the synthetic
  upstream and the repository's own verification scripts: no run-time state of the system.

## 8. Plan

In the order of importance:

1. The administration of chats (`create_group_chat_for_session`, chat administrators) and
   the memberships of a domain status, with the clocks of their callers, as further calls
   beside those of `MessageWrite`.
2. Clocks of processes that go apart, for the limiter and the leases.
