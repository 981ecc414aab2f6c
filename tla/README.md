# Verification of the helpdesk microservices

TLA+ models of the helpdesk backend (`src/backend`, Go services behind an API
gateway, PostgreSQL, RabbitMQ, and a Flutter client), TLC runs that check them
on small instances, and TLAPS proofs for all sizes.

## The system

| Part | State | Operations | Talks to |
|---|---|---|---|
| api-gateway (`cmd/main.go`, `cmd/middleware.go`) | a circuit breaker per upstream, rate-limit buckets | JWT check and identity headers, proxying, shutdown | the three services |
| auth-service sessions (`refresh_token_repository.go`, `handler.go`) | `refresh_tokens` rows, a per-user advisory lock | login, refresh, logout, revocation | PostgreSQL |
| auth-service accounts and start-up (`auth_usecase.go`, `bootstrap.go`, `migrate.go`) | `users` rows, schema version | migrate, bootstrap admin, register, create staff | PostgreSQL |
| ticket-service workflow (`ticket_usecase.go`, `ticket_repository.go`) | `tickets`, `ticket_status_histories` | create, assign or claim, change status, read the trail | PostgreSQL, publisher |
| ticket-service comments, attachments, reports | their tables | insert, list, aggregate | PostgreSQL, publisher |
| ticket-service publisher (`publisher.go`) | current session, generation, in-flight reconnect, cooldown | `Publish`, `reconnect` | RabbitMQ |
| notification-service consumers (`consumer.go`) | `notifications`, queue positions | persist (shared queue), broadcast (queue per replica) | RabbitMQ, PostgreSQL, the hub |
| notification-service hub (`ws.go`) | the clients map, a bounded channel | connect, broadcast, `CloseAll` | clients |
| rate limiters | token buckets in memory or in Redis | allow | Redis |
| Flutter client | stored token pair, WebSocket, retry count | refresh on 401, reconnect | gateway, hub |

What is hard here is what happens between two statements: every service runs as
several replicas with a goroutine per request, they share rows and not memory,
and checks are made on rows read earlier. In the publisher many goroutines share
one connection that can die at any time.

What makes each part correct:

- publisher: one reconnect at a time, no leaked connection, no nil session, no
  message handed over twice, no handler stuck;
- ticket workflow: ticket row and audit trail agree, a change is applied only
  if it is allowed, the row's columns fit its status;
- sessions: a refresh token is good for one exchange, nobody ends somebody
  else's session, logins keep the cap, locks are not waited for in a circle, a
  password change ends every session;
- consumers: no event acknowledged before it is stored, duplicates only of
  events returned to the queue, poison messages parked, every event settled;
- hub: a message reaches exactly the clients it is for and in order, no
  connection is forgotten, the cap is exceeded by overlapping handshakes only;
- gateway and limiters: a limiter is a token bucket, clients cannot open the
  circuit;
- reads and events: nobody is shown what he has no part in, turning pages misses
  no more rows than leave the list;
- start-up: who serves has the schema and an administrator, and starting is
  safe to repeat.

The hazards behind these are listed, with their lines, in `PROJECT.json`.

## Modules

| Module | Models | Proofs |
|---|---|---|
| `Publisher` | `publisher.go`, all of it | `PublisherProofs` |
| `TicketWorkflow` | create, assign, status change and their transactions | `TicketWorkflowProofs` |
| `AuthSessions` | login, refresh, logout, password and profile changes and their transactions | `AuthSessionsProofs` |
| `EventDelivery` | abstract: what becomes of a published event | |
| `NotificationPipeline` | `consumer.go` and the stored notifications; implements `EventDelivery` | `NotificationPipelineProofs` |
| `WsHub` | `ws.go` and the shutdown of its process | `WsHubProofs` |
| `TokenBucket` | abstract: a bucket per client | |
| `RateLimiter` | the in-memory and the Redis limiter; implements `TokenBucket` | `GatewayProofs` |
| `Gateway` | the api-gateway; extends `RateLimiter` with routing, breaker, proxy, shutdown | `GatewayProofs` |
| `TicketDesk` | comments, attachments, lists with filters and pages, reads, the events about them | `TicketDeskProofs` |
| `Accounts` | start-up, migrations, seeding and creating accounts | `AccountsProofs` |

`MC*` modules and `.cfg` files instantiate them for TLC. Definitions marked
"Mutant" are what a plausible bug would make of the definition that follows;
they are not part of the specifications and show that each property can fail.

### Publisher

`cur`, `gen`, `inflight` and `cooling` are the fields of the `Publisher` struct
(`lastFail` is reduced to the one question asked of it: is the cooldown over).
A session is the number of its broker connection; `broken` connections died,
`closed` ones were closed by this process. Each call has its program counter
and the locals of `Publish` and `reconnect`.

A critical section of `p.mu` is one action: `Start`, `AlreadyReplaced`,
`JoinInflight`, `FailFast`, `StartDial`, `Recheck`, `Install`, `DialFailed`,
`Reload`. What runs without the mutex is a step of its own: the connection
attempts and the topology declaration, the wait, the hand-off, and
`old.close()`, which therefore can be arbitrarily late. `Break` lets any
connection die at any time. A session whose connection died may still accept a
message (the client has not noticed), so `HandOff` and `HandOffFails` are both
possible on it; one closed by this process only fails. Timeouts may fire at any
moment. A confirm that times out or a nack is a normal return, as in the code.

### TicketWorkflow

PostgreSQL runs at READ COMMITTED. A handler reads the ticket (`FindByID`),
decides (`MayAssign`, `MayUpdate`, `allowedTransitions`), and then runs a
transaction: `Select` (only in `AssignAndTransition`), `Update`, which waits for
and keeps the row lock, and `Commit`, the INSERT of the audit row together with
COMMIT. `Abandon` is any failing statement or a crash: rollback. `row` holds
committed rows only, so a reader never sees a running transaction. `Zero` is
agent id 0, which an admin's request without a body assigns; it is not NULL, so
the ticket leaves the queue although no agent has it (`handler.go:258`). No text
says what such a request should do, so no property takes a side.

Left out: titles, priorities, SLA due dates and filters, which no transition
reads. The clock is read together with the ticket; between the two the code
does nothing that others can see, and the properties use a time only for being
set.

### AuthSessions

`refresh_tokens` is the set `rows`; `tok` gives every token its user, the
password its login was checked against and the token it was rotated from (0 for
a login). A transaction's own inserts and deletes are in `ins` and `del` until
`Commit`; a deleted row is locked. A DELETE fixes its rows when it starts
(`todo`), then takes them one by one, waiting for a locked row (`LockedByOther`)
and skipping one that is gone; an eviction may also delete the row its own
transaction inserted. Login takes the advisory lock, inserts, deletes
expired rows, evicts (`Surplus`); `Rotate` deletes and inserts without the
advisory lock, as the code does. `SaveProfile` writes back the password it read,
because gorm's `Save` writes every column. `Happens` says which requests and
faults a run contains. The rows of a DELETE are locked in table order, which is
what a scan of this small table does.

Left out: the access token (never revoked, 2 h), signatures (a token that was
not issued is `Reject`ed), roles, names and availability values.

### NotificationPipeline and EventDelivery

The exchange copies a message to the queue `ticket_created` (`ready` and
`unacked`), which the replicas share, and to the exclusive queue of every
connected replica (`bqueue`). There is no prefetch limit, so a delivered
message waits in the client's buffer (`buf`). The handler of `consumePersist`
is `Take` (decode and decide), `Create` (the INSERT, which may fail with or
without a row) and `Answer`; `consumeBroadcast` is `Push` and `BAnswer`. `link`
and `blink` are the two connections: "stale" is a connection the broker has
given up while the replica still works on its buffer, until `Notice`. A drop, a
crash and a broker restart requeue what was not acknowledged; messages are not
published as persistent, so a classic queue comes back empty (`lost`) and a
quorum queue does not. `MarkRead` and `MarkAllRead` are the REST calls.

`EventDelivery` is the promise: an event is done only after its notification
exists, or parked, or lost where the broker does not keep messages; copies may
be more than one. The mapping is `Abstract` in `NotificationPipeline`.

### WsHub

A connection goes through `Check` (the cap, under `RLock`), `Upgrade`,
`Register`, and then belongs to its reader goroutine (`ReadError`,
`CloseConn`). `HandleMessages` is `Dequeue`, `Lock`, one `Write` or
`WriteError` per matching client and `Unlock`; it holds `clientsMu` throughout,
which is the guard `~locked` of the others. A peer reads, is stuck, or is gone;
`Write` waits while it is stuck. `CloseAll` and `Exit` are the shutdown;
handshakes may still complete between them. The variables under "history" say
which messages were accepted and when a connection joined.

### RateLimiter, TokenBucket and Gateway

`visitors` is the map of buckets, in memory or in Redis, and `Decision` what
both do with one. Amounts are integers in a unit smaller than a token, so that
fractions occur. Eviction and expiry forget a bucket; a Redis call that fails
lets the request through, with the script executed or not. `TokenBucket` has
levels that rise with the clock; the mapping computes the level a lazy bucket
would have now. Two steps of `TokenBucket` are concessions to the code:
`FailOpen`, possible only with Redis, and `Forget`, which makes buckets full at
once and is possible only in memory and only if a bucket takes longer to fill
than the 3 minutes after which it is evicted. No configuration check excludes
that; with the default rates it does not happen.

`Gateway` adds a request's way: rate limit and route (`Arrive`), `Send` through
the breaker, `Respond` or `Fail`, and clients that `HangUp` at any time. The
breaker is gobreaker's, modelled from its use: `Threshold` is its default
`ReadyToTrip`, `After` its treatment of a result, including that a result of an
earlier generation counts for nothing. Identity headers are left out.

### TicketDesk

A request is `Authorize` (the SELECT of `GetTicketByID` and the role rule) and
then a second statement, with reassignments possible in between. `shown` is
what the last step disclosed and to whom: the rows of a page, an answer, or the
event of a change (`ticket_created` to all staff, `ticket_assigned`,
`ticket_status_changed`, comments and attachments), which may also be lost. An
event is published after the commit with targets and contents fixed by then; it
counts as shown in the step it reports. `Browse` and `NextPage` are a caller
turning pages of `GET /tickets`, all scopes, the unassigned queue included. Of
the filters there are the ones whose rows change: status (as done or not) and
overdue; a filter on a column that never changes selects like the owner does.
An admin may assign any id, also a customer's or 0. `Assign` and `UpdateStatus`
are one step here; how they come about is `TicketWorkflow`. In a job, `agents`,
`stay`, `got` and `left` are history: who had the ticket during the request,
which rows were in the list all the time, which the caller got, and how many
left the list meanwhile.

### Accounts

`pc` is how far `main` is: `ReadVersion`, `CheckTable` and `ForceVersion` are
`migrations.Run`, `Up` and the three steps of a migration are golang-migrate's,
under its advisory lock. `schema` is what really exists, `version` what is
recorded. A database made by AutoMigrate has schema 1, no version, and perhaps
accounts. A migration is one transaction and fails where its objects exist.
`FindAdmins` and `SeedAdmin` are `bootstrapAdmin`, whose errors `main` only
logs. `Register` and `CreateStaff` look an e-mail up and insert later. `Stop`
is a crash or a termination at any point.

## Runs

| Run | Instance | Shows |
|---|---|---|
| `publisher` | 3 calls, 1 connection attempt per dial, 175k states | all safety and liveness properties of the publisher |
| `ticket_workflow` | 1 ticket, admin, 2 agents, customer, 2 requests at a time, 4 in all | row and trail agree, columns fit the status, requests end |
| `ticket_stale_decision` | 2 agents, no admin, 2 requests at a time | violated: two agents claim one ticket and both succeed |
| `auth_sessions` | 2 users, 2 requests at a time, 3 tokens and passwords before the last request starts, cap 1, expiry and failures, 2.0M states | exchange at most once, replay rejected, revocation complete, other users untouched, logins keep the cap, locks untangle |
| `auth_session_survives` | login, refresh, password change | violated: a login under way survives the password change |
| `auth_password_reverted` | profile and password change | violated: the old password is written back |
| `notification_pipeline` | 2 replicas, 1 event of any kind, 2 faults, both queue types, 395k states | at-least-once delivery (refinement), duplicates only of returned events, live pushes unrepeated, every event settled |
| `ws_hub` | 2 connections, cap 1, 4 messages, channel of 2, 584k states | order and addressees, no forgotten socket, accepted messages handled |
| `gateway` | 4 requests, 2 addresses, a bucket of 1.5 tokens, 2.5M states | token bucket (refinement), who opens the circuit |
| `ticket_desk` | 2 tickets, 5 accounts, 1 request at a time, pages of 1, at most 2 rows leave a list, 483k states | disclosure in answers and events, pages |
| `accounts` | 3 replicas, 2 e-mails, 2 migrations, new or adopted database, 68k states | schema and administrator when serving |
| `accounts_dirty` | the same with 2 replicas | violated: a dirty version without a crash |

Bounds: a dial's attempts only repeat one step, so one attempt is enough for
the interleavings (the proofs are for any number). Three calls give a dialer, a
waiter and a third that arrives late. Two requests at a time are what a lost
update or a lock conflict needs; four ticket requests reach `closed`; three
tokens with a cap of 1 give eviction, rotation and a DELETE of several rows.
Two replicas and two faults give a redelivery to the other replica while the
first still works on the event, and a second one after that; events do not
affect each other, so one is enough. In the hub two connections compete for a
cap of one; with four messages and a channel of two, two wait together, one is
dropped behind them and one follows the dropped one. Two consecutive failures open the circuit (`Threshold` 1), a third
request can be late and a fourth be the trial. The instance's buckets fill before they are evicted; slow
ones are in the proof. Two tickets make an attachment of another ticket and a
second page; the interference there comes from changes of the tickets, not from
a second request, and two rows leaving a list are as many as there are. Its run
uses a VIEW without `shown`: no action reads it, and both properties look at it
in the step that sets it, so states that differ in it alone have the same
continuations. Three replicas give one that
finished, one that is late and one that starts on what they left.
Interchangeable replicas, workers, users and requests are used as symmetries in
`auth_sessions`, `gateway`, `ticket_desk`, `accounts` and the violation runs of
`AuthSessions`; runs with liveness properties use none. Deadlock is not checked
where the system may come to rest: all events published, all requests answered,
the process gone.

Fairness. Publisher: weak fairness of each call's next step; the Go scheduler
is fair and dial, wait and confirm are bounded by timeouts. Nothing makes the
broker work or the cooldown end. Tickets: strong fairness of an accepted
request's next step, because PostgreSQL grants locks in the order of the wait
queue: a request that could go on again and again does. Requests are
not required to arrive, nor to fail or not to fail. Pipeline: weak fairness of
the broker's delivery and of each replica's consumer goroutine, including that
a dead connection is noticed and dialled again (`StartConsumer`'s endless
loop); faults are bounded. Hub: `HandleMessages` is scheduled, and a write goes
on when its peer reads again and again (strong fairness); `AllHandled` assumes
that no peer is stuck for ever, because the code has no deadline there and one
such peer does stop the hub. The remaining runs are about safety only.

The violation runs are disagreements between the code and what its comments or
the README say; `PROJECT.json` quotes them under "findings". All come from the
same pattern, a decision on something read before the transaction, or the lock,
under which it is acted on. In `ticket_stale_decision` two agents claim a ticket
and the second takes it from the first; in `auth_session_survives` a login, in
`auth_password_reverted` a profile update overlaps a password change. In
`accounts_dirty` two replicas start together on a database adopted from
AutoMigrate: both read "no version", the first forces 1 and migrates to 2, the
second forces the version back to 1, and its `Up` fails on the column that
exists and leaves version 2 dirty, which every later start refuses. Only the
auth-service has a second migration and so this fault.

Three more disagreements have a positive statement of what the code does
guarantee instead of a violation run:

- the session cap (`src/README.md:49`): a rotation takes no advisory lock, so
  the successor of a session refreshed while a login evicts comes on top of the
  cap. `CapKeptByLogins` says that nothing else does. The other way round, such
  a rotation has the newer row, and with a cap of 1 the login evicts its own
  session;
- "persisted exactly once collectively" (`consumer.go:20`): an event that was
  returned to the queue unacknowledged is stored again. `DuplicatesPaid` counts
  one copy for each such return and none for anything else;
- "Hard cap on concurrent WebSocket connections"
  (`notification-service/.env.example:20`): the cap is tested in one critical
  section and used in another. `CapExceededByOverlap` (theorem
  `CapOverlapBound`) says by how much overlapping handshakes exceed it.

One more is not covered: live events are missed while `consumeBroadcast`
reconnects, where `consumer.go:186` says "at-least-once-per-replica".
`LiveOnce` is about the other side, that nothing is pushed twice.

## Proofs

Every safety property the passing runs check, invariant, action property or
refinement, is also a theorem: it holds for every value of the constants, any
number of calls, requests, users, tickets, replicas, events, connections and
faults. Each proof module has an inductive invariant `IInv`, shown to hold
initially and to be kept by every action, one lemma or one step per action;
the invariants were checked with TLC before they were proved. The exception is
`LocksUntangle`, which is only model-checked. `TypeCorrect` is proved in all
eight; for the last five it is the only check of `TypeOK`, which their runs
leave out.

- `PublisherProofs`. The properties are not inductive: that nobody dials twice
  rests on which channel is in `inflight`; that a retry goes to a newer session
  rests on a session being determined by its generation. `IInv` adds where each
  connection number can be (in `conn`, in `old`, in `cur`), that a generation
  seen by a call is not newer than the current one and fixes the session, and
  that the session being replaced is broken. Assumption: at least one attempt.
- `TicketWorkflowProofs`. `IInv` adds who holds a row lock (a worker that is
  between UPDATE and COMMIT on that ticket), that a running request's `from` is
  a status of the trail, and that a running change to `closed` was decided on a
  resolved ticket, which then has its resolution time for good. Assumptions:
  `Null` and `Zero` are no accounts.
- `AuthSessionsProofs`. `RotatedOnce` needs `ReplayRejected` and the other way
  round: `IInv` adds that a row deleted by an open transaction is still there
  and has one deleter, that inserted rows are new and private, and that what a
  worker inserts has as parent the row it has locked, or none. On top of it,
  `RevokeInv` gives the action properties: whatever a request has locked, means
  to delete or has inserted is of its own user (`OwnInv`), and what a revocation
  saw and is still there is locked or still to come (`SeenInv`; a deleted row
  never comes back, a COMMIT adds only new ones). The cap needs two more:
  a login holds its user's advisory lock from the INSERT on (`LockInv`), so that
  no other login adds rows of that user, and of the rows its eviction saw, what
  is neither deleted nor still to be is within the cap (`LoginInv`;
  `NewestBound` is the counting argument about `LIMIT`: the oldest of the rows
  kept has fewer than `n` newer ones). Refreshes are included; the rows they add
  during the eviction are the ones `CapKeptByLogins` does not count.
  Assumptions: the cap is positive and `Null` is no worker.
- `NotificationPipelineProofs`. `PlaceInv`: a published message is in exactly
  one place, in the queue, with one replica, acknowledged, parked or lost.
  `ConsumerInv`: what a consumer has in memory, by the state of its connection
  (on a stale one it works on what was requeued), and that it answers only
  after the row exists. With these every action is a step of `EventDelivery` or
  changes nothing of it (`DeliveryImplemented`). `CountInv` bounds duplicates:
  the copies, plus the replicas that will still store the event, plus one if it
  is in the queue, are at most one more than the times it was returned there. Assumptions: finitely
  many replicas; users differ from the other kinds of target.
- `WsHubProofs`. `ChannelInv` relates the channel to the history of accepted
  messages, `JoinInv` says that a client joined before what it is written;
  together they make `ReceivedInOrder` inductive. It is stated by an order
  preserving enumeration of the messages due (`InOrder`), not by filtering a
  sequence, which would need induction. `CapExceededByOverlap` needs that
  `peak` is not below the handshakes under way (`PeakInv`). Assumptions:
  positive limits, finitely many connections.
- `GatewayProofs`. For the limiters: a level never exceeds the burst, waiting
  in one go or in parts fills the same amount, and what is forgotten was full
  unless the bucket is too slow for the eviction, so that the mapped levels move as `TokenBucket` says (`LimiterIsTokenBucket`;
  the lemmas are about integer products and minima). For the breaker: it has
  counted no more failures than there were, and did not open with fewer than it
  takes (`Explained`). Assumptions: rate and burst are positive, a burst is
  at least a token, finitely many requests. The code accepts a smaller burst,
  with which a client is admitted once and then never; that is left out.
- `TicketDeskProofs`. `JobOK`: a request under way is by an admin, the owner,
  or somebody who was the ticket's agent at some moment of it, and the agent it
  has read was one too, however often the ticket is reassigned before it is
  answered; `NotesInv`: only comments are internal. For the pages,
  `Unseen`: of the rows that stayed and are not got yet, at most `left` lie in
  front of the next offset. A row that enters the list pushes the others back
  (`Crossing`, `BeforeLoses`: each row that leaves moves at most one row across
  the offset), and when a page is empty every row of the list lies in front of
  it, which gives the bound. Assumptions: an account has one role, page sizes
  are positive.
- `AccountsProofs`. `LockInv`: the migration lock is held by the replica that
  migrates. `VersionInv`: what a clean and a dirty version say of the schema.
  `PhaseInv`: what a replica knows at each point of `main`. Assumptions: at
  least one migration; the bootstrap e-mail is an e-mail or none.

`Null` is in each module assumed to be none of the values it stands in for.
These assumptions are evaluated by TLC in every run.

Only model-checked: the liveness properties `PublishReturns`, `ReconnectEnds`,
`RequestsEnd` (tickets), `EventuallySettled` and `AllHandled`, because fairness
and ENABLED are beyond the prover, and `LocksUntangle`, whose proof for any
number of workers needs an order on all locks and induction along it.

## Plan

1. How far refreshes can exceed the cap: a bound by the rotations that overlap
   an eviction, in the manner of `CapExceededByOverlap`.
2. What `NoneSurvives` and `PasswordKept` still guarantee where requests of one
   user do not overlap, as theorems with that hypothesis.
3. Violation runs for the three disagreements that have none.

## Not modelled

- The Flutter client: its session and WebSocket code is Dart, outside the
  backend. Its races with the server are worth a model of their own: two
  requests that get 401 at once both refresh and the loser clears the session
  (`api_client.dart:141`), a refresh answered after a logout stores its tokens
  again (`auth_repository.dart:41`), a reconnect scheduled before `disconnect()`
  still runs (`websocket_service.dart:52`). User interface code has no protocol
  state.
- Times: the audit trail is sorted by a time taken before the row lock
  (`ticket_repository.go:159`), and a resolved ticket that is reassigned has a
  negative resolution time (`report_repository.go:49`).
- The text of the identity headers (`X-User-ID` is a float printed with `%v`),
  the client address behind proxies (`clientip.go`), request ids.
- Reports: aggregate SELECTs over rows that are never deleted. What they assume
  of the rows is `ClosedWasResolved`.
- The event after a ticket's commit: best effort without an outbox, so nothing
  is promised that could be checked.
- Health endpoints, configuration, logging, metrics, generated API
  documentation (`docs.go`), deployment manifests: no behaviour over time.
