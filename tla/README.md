# A TLA+ model of the asynchronous order processor

The repository is a NestJS service that accepts orders over HTTP, records them
in MySQL together with an event (transactional outbox), relays the events to
RabbitMQ, and processes them asynchronously: it reserves stock or fails the
order. Consumers and relays run as any number of replicas, the broker delivers
at least once, and every process may die at any time. What keeps the stock and
the orders right is a handful of SQL conditions, unique keys and row locks; what
keeps messages and answers right is where each process stands in its awaits
when a connection, a channel or a key changes under it. These modules say
exactly what the code promises; TLC checks the promises on small instances, and
TLAPS proves every invariant, action property and refinement the passing runs check,
for any number of orders, products, consumers, relays, messages, connections,
requests and tokens.

## 1. Inventory

Paths are relative to `src/src/` in this checkout (the repository's own `src/`).

| Component | State it keeps | Operations | Interacts with |
|---|---|---|---|
| Order creation `application/create-order` | none; writes `orders`, `order_items`, `outbox_messages` | `execute`: one transaction | HTTP, database |
| Order processing `application/process-order` | none; writes `orders`, `products`, `stock_reservations`, `inbox_messages` | `execute` (reserveAndConclude), `failOrder` | called by the consumer, database |
| Reprocessing `application/reprocess-order` | none; writes `orders`, `outbox_messages` | `execute`: FAILED back to PENDING, with a new event | HTTP, database |
| Order aggregate `domain/order` | the order read in this transaction | `conclude`, `fail`, `requeue` and the refusals | the use cases |
| Repositories and unit of work `infrastructure/persistence` | the tables, row locks, open transactions | INSERTs and guarded UPDATEs, commit, rollback | MySQL |
| Outbox relay `workers/relay` + `outbox-dispatch.repository.ts` | `outbox_messages.status/attempts/available_at`; the batch in memory | claim, publish, markRetry, markPublished, purge | database, publisher |
| Retention `outbox-retention`, `inbox-retention` | none | two DELETEs, hourly, from the relay | database |
| Queue consumer `infrastructure/messaging/orders/order.consumer.ts` | `inFlight`, `consumerTag`; per delivery, the channel it will be acknowledged on | `start`, `stop`, `handle`, `onFailure` | broker, process-order, publisher |
| Retry policy `domain/shared/retry-policy.ts` | none | `decide`, `exhausted` | consumer |
| Publisher `messaging/orders/order.publisher.ts` | none | `publishCreated`, `publishRetry`, `publishDead` | broker |
| AMQP connection `messaging/amqp/amqp.connection.ts` | the cached connection and channel | `getChannel`, the close handler, the shutdown hook | publisher, consumer, readiness probe |
| Topology and codec `amqp.topology.ts`, `codec/message.codec.ts` | queues and bindings on the broker | declaration at connection; encode, decode | broker |
| HTTP interface `interface/http` | none | four order routes, login, readiness; authentication, roles, validation, error mapping | clients, use cases |
| Queries `application/get-order`, `list-orders` | none | one order, or a page of them, within the reader's scope | HTTP, database |
| Database connections `persistence.module.ts`, `unit-of-work` | the pool; two query runners made at start-up and never released | take, wait for, give back, lose | MySQL |
| Login and tokens `application/login`, `infrastructure/security` | none | verify a password or a token, map roles | HTTP, database, Keycloak |
| JWKS cache `security/keycloak/jwks.cache.ts` | `chaves`, `buscadoEm`, `ultimaRenovacaoPorKid`, `emVoo` | `chavePublica` | Keycloak |
| Configuration, logs, metrics | none that anything decides on | | |

Interactions. The API commits an order and its outbox row in one transaction.
A relay claims due outbox rows and publishes them with confirms. A consumer
handles each delivery in one transaction: inbox key, order status, stock and
reservations, status again. A business failure is written in a second
transaction after the first is rolled back. A transient failure is republished
to a retry queue, whose messages return to the main queue later, or, after the
last attempt, fails the order and is dead-lettered. An operator may send a FAILED
order back, which appends a new event. The purge deletes old inbox and outbox rows
while all this goes on.

What is hard:

- concurrency: handlers of the same order, of orders sharing products, two
  reprocess requests, two relays: what one of them read may be stale when it
  writes;
- failure: process death between any two statements, a commit or a confirm whose
  answer is lost, an error inside the error handler;
- ordering: redelivered and retried messages come at any time, after the order was
  concluded, failed or sent back;
- time: a claim that is only a 30-second window while a batch takes as long as it
  takes, a confirm nobody sets a timeout for, a purge that forgets what the inbox
  knew, keys whose age is counted from a time before they arrived;
- connections: an await on one that is gone, a channel that is closed and still
  cached, an ack on another channel than the delivery's, a pool that is empty;
- locks: inbox key, order row, product rows, and the foreign keys of order items.

What makes each part correct:

- processing: stock leaves once and only for PROCESSED orders; an order has all
  its reservations or none; a refusal for want of stock is true; no deadlock among
  handlers; PROCESSED is final;
- reprocessing and retries: a PENDING order always has an event that will not be
  swallowed; a dead letter leaves no order waiting;
- relay: nothing is PUBLISHED without a confirm; replicas hold disjoint batches,
  publish twice only after a failure, and reopen nothing they have published, all
  but for rows whose claim ran out under a batch; every event settles unless every
  relay waits for a confirm that never comes;
- consumer process: no event is lost whatever closes or dies; each delivery is
  settled by its own handler; until something is lost there is one connection;
  `stop()` cancels, waits for every handler, and ends;
- API: every request is answered while the pool has connections to give, and the
  answer agrees with the tables; a fault of the database costs the requests it
  meets and no later one, but for reads on a runner that has lost its connection;
  a PENDING order has its event; reading page after page misses nothing;
- JWKS cache: one fetch at a time; a withdrawn key runs out; a known key is never
  refused for want of the provider; a new key is learned.

`PROJECT.json` lists the hazards one by one with their lines, and the properties
that watch them; those without a property say why.

## 2. Modules

| Module | What it is |
|---|---|
| `OrderLedger` | abstract: orders and stock, whole transitions, no transactions or messages |
| `OrderProcessing` | create, process, fail, retry, reprocess, purge; one action per SQL statement; implements `OrderLedger` |
| `OrderProcessingProofs` | what is proved about it |
| `StockProofs` | the same: the stock adds up over the orders |
| `EventOutbox` | abstract: an event is delivered at least once before it counts as published, and what became of it is final unless its handling overran its time |
| `OutboxRelay` | the relay replicas over `outbox_messages`; implements `EventOutbox` |
| `OutboxRelayProofs` | what is proved about it |
| `MessageDelivery` | abstract: an event is owed until it is committed or a dead letter, and never again |
| `ConsumerProcess` | one consumer process: connections, channel cache, subscription, handlers, stop, and the queues it works with; implements `MessageDelivery` |
| `ConsumerProcessProofs` | what is proved about it |
| `ConsumerCopyProofs` | the same: without a fault there is one copy of an event |
| `ConsumerDeliveryProofs` | the same: it implements `MessageDelivery` |
| `OrderApi` | one API process: requests, pool, answers, and a client who pages |
| `OrderApiProofs` | what is proved about it |
| `JwksCache` | the signing keys and the verifications that ask for them |
| `JwksCacheProofs` | what is proved about it |
| `MCOrderProcessing`, `MCOutboxRelay`, `MCConsumerProcess`, `MCOrderApi`, `MCJwksCache` | constants of the small instances |

The modules meet at events. `OrderApi` commits an order with its event;
`OutboxRelay` brings the event to the broker; `ConsumerProcess` brings a
delivery to a handler, and what is left of it to a queue or to the dead letters;
`OrderProcessing` is what the handler does to the database. Each keeps the
part of the others it needs as a step with the same outcomes: an event of
`OrderApi` is settled or given up, `execute` in `ConsumerProcess` commits,
refuses or throws, the broker of `OrderProcessing` delivers whatever was ever
sent.

### OrderProcessing

`status`, `code`, `gen`, `stock`, `reserved` and `inbox` are the *committed*
database. A transaction's own writes are kept in its handler: a consumer's
`pc[w]` is the statement it is about to run, `taken[w]` the products it has
decremented and reserved. `Commit` applies them in one step; rolling back is
forgetting them (`Finish`, `Throws`, `RollbackAndFail`). A row lock is derived from where its
holder stands (`HoldsKey`, `HoldsOrder`, `HoldsProduct`, `SharesProduct`), and a
statement that needs a lock is enabled when nobody else holds it.

| Code | Actions |
|---|---|
| `order.consumer.ts` handle, ack, and the broker's delivery | `Deliver`, `Finish` |
| `inbox.repository.ts` register (INSERT, duplicate key) | `Register` |
| `process-order.use-case.ts` reserveAndConclude | `FindOrder`, `CommitDuplicate`, `TransitionToProcessed`, `ReserveItem`, `Commit` |
| the same, failOrder | `FindToFail`, `TransitionToFailed` |
| `order.consumer.ts` onFailure, `retry-policy.ts` | `PublishRetry`, `ExhaustRetries`, `PublishDead` |
| errors, lost answers, process death | `TransientError`, `Throws`, `Crash`, the second disjunct of the commits |
| `create-order.use-case.ts` | `InsertOrder`, `InsertItem`, `CommitCreate`, `AbortCreate` |
| `reprocess-order.use-case.ts` | `FindFailed`, `Requeue`, `AbortRequeue` |
| `inbox-retention.repository.ts` | `PurgeInbox` |
| an operator at the SQL prompt, as in `estoque-reserva.feature` | `ManualReset` |

Abstractions. The broker is the growing set `sent` and a delivery takes any
member of it, so messages are lost by never being delivered, duplicated,
delayed and reordered. An event is its order and its number `gen`; the outbox
is collapsed into the commit that appends the event, which `OutboxRelay` opens up.
Retry delays are not kept: a retry may come at once or never. A simulated processing
delay and `failure_reason`, `processing_attempts` and timestamps decide
nothing and are left out. `Throws` sends a non-business error to `onFailure`,
and one thrown in `onFailure` itself ends the process, as an unhandled
rejection does.

### OutboxRelay

`status`, `attempts` and `due` (the rows whose `available_at` has come) are the
table; `pc`, `locked`, `batch` and `published` are a relay's cycle.

| Code | Actions |
|---|---|
| the outbox INSERT of the use cases, committed | `Append` |
| `claimBatch`: SELECT ... FOR UPDATE SKIP LOCKED, UPDATE, COMMIT | `SelectBatch`, `ReserveBatch` |
| `relay.worker.ts` publish | `PublishConfirmed`, `PublishError` |
| `markRetry`, `markPublished` | `MarkRetry`, `MarkPublished` |
| an error out of `drainOnce`, process death, a lost answer | `LoseCycle`, `LoseAnswer` |
| a confirm that never comes: `publish` awaits it without a timeout | `Hang` |
| `available_at` comes; the purge | `Elapse`, `Purge` |

A claim moves `available_at` 30 seconds ahead, and nothing in the code makes a
batch end within them: 50 publishes, each awaiting its confirm, on a slow broker
take longer. So `Elapse` may make a row due at any time, under a batch too; the
history variable `late` has the rows to which that happened, and the properties
say what holds of the others, or of the steps about these. `markRetry` writes to
whatever the row has become, as in the code. A relay that hangs keeps its claim in
memory only, and writes nothing more; its rows become due as those of a dead relay
do. Only the death of the process (`LoseCycle`) ends the wait. `copies` counts to
2, which stands for more. The backoff only delays, and is `Elapse`. `late` is
`overrun` in `EventOutbox`.

### ConsumerProcess

A connection and its only channel have one number; `conn` is what has become of
it, `cached` the one `getChannel` answers with, `opening` the one a caller is
still opening, `consumer` the one the broker has the subscription on. `task[h]`
is the delivery at work, the await it stands at (`stage`), and the channels it
was delivered on, will be acknowledged on and is publishing on. An error of a
`guarded` task goes to `onFailure`; any other is an unhandled rejection, which
ends the process.

| Code | Actions |
|---|---|
| `amqp.connection.ts` getChannel, its `close` handler | `Connect`, the operator `Gets` inside every caller, `LoseConnection` |
| `amqp.probe.ts` | `Check` |
| `order.consumer.ts` start, stop; the shutdown hooks | `Start`, `StartFails`, `Terminate`, `Cancel`, `CancelFails`, `Exit` |
| the same, handle | `Deliver`, `Enter`, `NoChannel`, `Execute`, `Ack`, `AckElsewhere`, `AckFails` |
| the same, onFailure; `retry-policy.ts` | `OnFailure`, `FailOrder` |
| `order.publisher.ts` | `Publish`, `Confirm`, `Unconfirmed` |
| `amqp.topology.ts` | `Bound`, `RoutedTo`, `RouteRetry`, `RouteDead`, `Expire` |
| process death, a new process | `Crash`, `Restart` |

`Init` starts with bindings of an earlier deployment (`OldTiers`) and, when a
message was waiting in its last retry queue, with an attempt number of that time.
Messages are readable, refused or unreadable as a whole. What the broker and
amqplib do is external and taken from how the code uses them: a channel that gets
an ack for a tag it does not know is closed by the broker, perhaps with its
connection; a publish whose connection is lost rejects or never calls back. A
`getChannel` that fails (`Abandoned`) has made no connection; or leaves it open
and uncached, when the channel, the prefetch or the topology fails after it; or
its connection closed meanwhile, whose listener clears the cached channel of
another.

`Delivery` maps this to `MessageDelivery`: `owed` is the events with a copy ready,
waiting or in a handler, `settled` and `dead` are the same. A dead letter of an
unreadable message names no event, so `Letter` takes all of those to `NoEvent`:
between two unreadable messages nobody can tell which one the letter is about.
`ImplementsLedger` is checked where orders compete (`contention`) and
`ImplementsDelivery` in `consumer`; section 5 proves both for every instance.

### OrderApi

`orders` has each row with its owner, its creation time and the state of its
newest event; `free` counts the pool's connections nobody holds; `conn` is the
connection of each of the two long-lived query runners; `call[r]` is a request,
`answer` the answer the last step gave, `since` in a request how many faults of
the database there had been when it came. `mix` chooses, once, which provider,
rows, requests and paging clients a behaviour has.

| Code | Actions |
|---|---|
| guards, pipes and DTOs | `Arrive` (`Authenticated`, `Authorized`, `WellFormed`, `Refusals`) |
| unit of work, probe and query runners: taking a connection | `Begin` |
| `connect` or `startTransaction` throws, outside the `try` | `BeginFails` |
| a statement fails on a connection that stays (a deadlock victim) | `StatementFails` |
| create and reprocess in their transaction | `Rollback`, `Commit`, `CommitLost` |
| `get-order`, `login` with either authenticator, readiness | `Get`, `Login`, `LoginAtKeycloak`, `Probe`, `NoConnection` |
| MySQL or the network closes connections | `Lose`, `Break` |
| `http-exception.filter.ts` | the operator `Status` |
| `order.repository.ts` list, `list-orders` | `StartWalk`, `ReadRows`, `ReadTotal`, `WalkFails` |
| relay and consumers, from outside | `Settle`, `GiveUp` |

A token or a password is genuine or not; a role name has its capitals in the
function `Upper`. Identifiers are taken in any order, as UUIDs are, so that the
order of creation and the order of identifiers are unrelated. Amounts are in
cents. Every step of the database that goes wrong counts in `faults`, which bounds
them; one `Lose` may close any set of connections. `leaked` counts the connections
taken by a transaction that then could not begin: the `finally` that gives them
back comes after. A fourth state of an event, `givenUp`, stands for a FAILED
outbox row; `Settle` and `GiveUp` may happen, and nothing says that they do.

### JwksCache

Times are kept as ages, up to the age from which nothing tells them apart, so that
the state space is finite without a bound on the clock. A step of the event loop
ends at an await: a fetch that ends resumes everyone who waits for it at once.

| Code | Actions |
|---|---|
| `chavePublica` up to its await, `renovar` | `Ask` (`Hit`, `Reload`, `LookAgain`, `TooSoon`) |
| `buscar`, and `chavePublica` after it | `Answer`, `Succeed`, `Fail`, with `Resume` |
| the verifier goes on | `Return` |
| time, Keycloak's rotation and outages | `Tick`, `Rotate`, `Outage` |

`presence[k]` is for how long a key has been published, or withdrawn;
`sinceFailure` is a history variable the properties use.

## 3. Runs

All runs set `CHECK_DEADLOCK FALSE`: the system is at rest when every order is
settled, the process has exited or the bounds are used up, and that is not an
error. Wait cycles on row locks are a property of their own,
`NoConsumerWaitCycle`, and waiting for ever for a connection or a confirm is what
`EveryRequestIsAnswered` and `StopEnds` are about.

| Run | Instance | Shows |
|---|---|---|
| `contention` | 2 consumers, 1 request at a time, 2 orders of the same 2 products, one unit of each | types (no negative stock), reservations exactly for PROCESSED orders, true refusals, no wait cycle, the ledger is implemented |
| `reprocess` | 2 consumers, 2 operators, 1 order, 1 reprocessing | the new event is never swallowed, dead letters leave nothing waiting, PROCESSED is final |
| `manual` | as `contention` with room for both, plus an order that always fails, an event without an order, and edits by hand | stock is conserved and orders are whole by the unique key alone |
| `create_deadlock` | as `contention` | *violated*: a request and a handler wait for each other |
| `refused_twice` | as `contention` | *violated*: a business failure ends in the dead-letter queue |
| `outbox` | 2 relays, 2 rows, batches of 2, 2 faults, 3 attempts, claims that may run out at any time | PUBLISHED means confirmed; batches overlap, rows are reopened, and events go out twice with no failure only where a claim ran out; the outbox is implemented; every event settles unless both relays hang |
| `outbox_attempts` | 2 relays, 1 row | *violated*: FAILED comes one attempt early |
| `outbox_overlap` | 2 relays, 1 row, no faults | *violated*: a duplicate without a failure |
| `outbox_reopened` | 2 relays, 1 row, no faults | *violated*: a late retry makes a PUBLISHED row PENDING again |
| `consumer` | prefetch 2; an event beside an unreadable message, or a refused one; 2 retries after a deployment that had 1; 3 connections, 1 fault | nothing is lost, nothing is copied without a fault, delivery at least once is implemented, own deliveries only, one connection until a loss, a cancelled and clean exit, `stop()` ends, events end while subscribed |
| `jwks` | 2 keys, 2 tokens at once, TTL 4, interval 2, timeout 1, 1 rotation, any outages | one fetch, fresh keys, withdrawn keys run out, known keys are served, new keys are learned |
| `api` | 2 requests at once, a pool of 3, 4 identifiers, pages of 1, 1 fault, 1 failed order, five mixes of requests | requests are answered, truly; a fault costs what it meets; a walk sees all; an order is PENDING with its event |

Bounds. Two consumers make every pairwise race (same event, same order, same
product); wait cycles of more than two and larger populations are covered by the
proofs. Two products are what a partial reservation and an opposite lock order
need, one unit of each makes the exact fit and the shortage both happen.
`MaxAttempts = 2` has a retry and an exhaustion; `MaxReprocess = 1` has an old and
a new event. Two rows and batches of two give a full and a partial batch, a row
left over, and a batch of which one row's claim runs out and the other's does not;
`MaxPublishAttempts = 3` lets a row be retried and given up; `MaxFaults = 2` lets
both relays hang, or one die and the other lose an answer. It bounds crashes, lost
statements and lost confirms only: refusals by the broker and claims that run out
need none.

In `consumer`, two handlers make a delivery that ends while another is at work,
and two calls of `getChannel` at once; three connections are the subscription's
and one more for each; the one fault is a lost connection, a death or a
restart, and comes at any combination of stages. A second ack on a closed
channel, or a death by an unhandled error, needs no fault of its own. `Mixes` says
which messages come together. In `jwks`, the interval is longer than a fetch and
the TTL longer than both, as in the code (30 s, 5 s, 600 s), so that a key can be
withdrawn or published before, during and after a fetch, and expire afterwards; two
tokens are the one that starts a fetch and the one that joins it. In `api`, the
pool has one connection more than the two runners keep, the least with which
everything is answered (section 4); `MaxTime = 2` lets two orders have the
same creation time or commit in the other order; pages of one row put every
boundary to use; `IdLeft` keeps an identifier for each creation under way. The
mixes keep apart requests that do not meet: paging beside creations, refusals,
sending back, connections of every kind, and Keycloak.

Symmetry is over interchangeable processes, in the three passing runs of
`OrderProcessing`, none of which checks liveness.

Fairness. `OrderProcessing` claims no liveness: an order settles only if the
broker delivers and the database answers. The relay has weak fairness on each
relay's `Cycle`, because `run()` loops for as long as the process is up and
catches every error, and a dead process is restarted. Faults are never fair; and a
relay that hangs is not in its cycle: nothing says that its process ever dies or
is restarted, so that it may hang for ever, and `EveryEventSettles` has the case
in which all do (`AllHang`) as an alternative. It has weak fairness on `Elapse`,
because time passes. Nothing says whether the broker accepts a publish: an event
it keeps refusing ends FAILED, which `EveryEventSettles` counts as settled (it is
visible in the table).

`ConsumerProcess` has weak fairness on the handlers together, because the event
loop runs what is ready; on the process's own steps, for the same reason; and on
delivery and expiry together, because the broker serves its queues. It is never
assumed that a connection holds, that a process is restarted or that a signal
comes: `ConsumedWhileSubscribed` has the lasting subscription as its premise,
which the code by itself does not give (section 4). `JwksCache` has weak fairness
on time and on each verification; `NewKeyIsLearned` takes a provider that stays
up, and tokens that keep coming, as premises. `OrderApi` has strong fairness on
each request and on the paging client, because mysql2's pool serves its queue in
order: who waits for a connection gets one if connections keep being given back.
That an event is settled in the end is neither assumed nor claimed there, for a
consumer may subscribe no more and a relay hang (section 4): `AcceptedIsUnderWay`
says that a PENDING order has an event, `EveryEventSettles` and
`ConsumedWhileSubscribed` what becomes of it under their conditions.

## 4. Findings

1. **A request and a handler can deadlock** (`create_deadlock`). Order items are
   inserted in the client's order and their foreign key locks the product rows
   shared; a handler takes the same rows in ascending order, exclusively.
   `docs/ARCHITECTURE.md:1581` argues that the sorted order leaves no cycle.
   InnoDB breaks it by rolling one side back: the handler retries, the request
   answers 500.
2. **A business failure is dead-lettered** (`refused_twice`). Two deliveries of an
   order without stock both decide INSUFFICIENT_STOCK; the second finds the order
   already FAILED, `failOrder` answers false, and the message goes to the
   dead-letter queue as an event without an order.
   `features/retry-e-dead-letter.feature:49` promises "sem dead-letter".
3. **An event is given up one attempt early** (`outbox_attempts`). The UPDATE of
   `markRetry` increments `attempts` before it reads it again, and MySQL evaluates
   assignments left to right.
4. **A slow batch is published twice without a failure** (`outbox_overlap`). The
   claim commits before the publishing; the documents rely on the row lock lasting
   until the mark.
5. **A PUBLISHED event is reopened** (`outbox_reopened`). The UPDATE of
   `markRetry` has `WHERE id` only (`outbox-dispatch.repository.ts:116`). When a
   batch outlasts its claim, a second relay publishes and marks the row; the
   publish of the first then fails, and its retry makes the row PENDING again, or
   FAILED. `docs/ARCHITECTURE.md:763` has PUBLISHED as the last state.
   `ReopenedOnlyWhenLate` shows, and section 5 proves, that this is the only way.

Other behaviours the modules show, or that were met while reading. They have no
run of their own; those a model reaches are also among the hazards.

Orders:

- A delivery of an order's *old* event that exhausts its attempts fails the order
  although an operator has sent it back and its new event is on the way.
- A PENDING order whose event the relay has given up is never processed, and
  cannot be sent back, for it is not FAILED: the `givenUp` of
  `AcceptedIsUnderWay`.

Relay:

- `publish` awaits the confirm without a timeout (`order.publisher.ts:54-67`).
  When the callback never comes, `run()` stands still until the process is
  restarted; its gauges of the outbox, published by the same loop, keep their last
  values. `EveryEventSettles` has `AllHang` as an alternative for this reason.

Consumer:

- Nothing subscribes again after a lost connection: the process stays up and
  ready and consumes nothing until it is restarted. `ConsumedWhileSubscribed`
  has the subscription as a premise for this reason.
- Calls of `getChannel` that meet while connecting open a connection each; after
  a loss, a handler may acknowledge on a channel its delivery did not come on
  (`AckElsewhere`), and the delivery comes again.
- `stop()` with the broker out of reach throws in the shutdown hook, and the
  process ends at once with its handlers at work (`CancelFails`).
- A publish whose callback never comes leaves a handler waiting, and `stop()`
  with it: the exception `Hung` in `StopEnds`.
- An unreadable message is dead-lettered with an empty payload; what it said is lost.
- A deployment that changes the delay of a retry leaves the old queue bound to
  the same key: each retry then waits in both, and comes back twice. The
  precondition `SameKeys` of `NoCopyWithoutFault` excludes it.

API:

- The two query runners of `persistence.module.ts:29-39` keep a connection each.
  With `DB_POOL_SIZE` 1 a first GET takes the only one, and every transaction
  waits for ever; with 2, a GET and a local login do. `PoolSize = 1` or `2` in the
  `api` instance violates `EveryRequestIsAnswered`. `.env.example:10` speaks of a
  small pool as one that only serialises.
- When such a connection is lost, every GET (or every local login) answers 500
  until the process is restarted, while `/health/ready` answers 200: it asks with
  a connection of its own. This is what `FailuresHaveCause` allows these two
  routes, each on its own runner, and no other.
- `connect` and `startTransaction` are outside the `try` of the unit of work
  (`BeginFails`): when `startTransaction` throws on a connection that stays,
  nobody gives it back, and each time the pool is smaller by one until it has none
  left: `Exhausted` in `EveryRequestIsAnswered`. A rollback that fails hides the
  error it was for.
- A customer name of blanks, and a total wider than its column, pass validation
  and answer 500.
- A client who pages may see an order twice; with a status filter it may also miss
  one that changes status meanwhile. Rows and total come from two statements.
- A refused local login answers the code `UNAUTHORIZED`, where
  `features/autenticacao.feature:32` names `INVALID_CREDENTIALS`.

Keys:

- While one token with a new key waits for the fetch, the next one with that key
  is refused at once (`LongPublishedKeyIsServed`, its last condition). A token
  with an unknown kid that joins a fetch begun before uses up the interval without a
  fetch of its own.
- With expired keys and Keycloak down, a token starts a fetch as soon as the last
  has failed, whatever its kid; `README.md:85` and `docs/ARCHITECTURE.md:1881` of
  the repository speak of one fetch per window at most for an unknown kid, which
  is so while the keys are good.

## 5. Proofs

Every theorem holds for all values of the constants that satisfy
`ConstantsAssumption`, `RelayAssumption`, `JwksAssumption`,
`ConsumerAssumption` or `ApiAssumption`; TLC evaluates these on every run.

`OrderProcessingProofs`. The inductive invariant `IInv` joins four
parts to the types: `HandlerInv` (what a handler holds fits where it stands),
`RowInv` (a message is about an order with a row, or a stray one),
`OrderLockInv` (one handler between an order's update and its commit, and the
order stays PENDING meanwhile) and `ProductLockInv` (one holder per product;
what fitted when it was locked still fits; the products still to come are
greater). None of it follows from the types alone: that `Commit` leaves no
negative stock needs the last part, which needs the others. Each action has a
lemma `<Action>Step`; handlers that end, fail or go on share `MovesOn`.

| Theorem | Statement | Assumes | Argument |
|---|---|---|---|
| `TypeCorrect` | `TypeOK` | | `IInv` |
| `ReservationsAreWhole` | `AllOrNothing` | | a commit takes all items or none |
| `ReservedExactlyWhenProcessed` | `ReservedIffProcessed` | `~ManualIntervention` | only `Commit` writes either |
| `ProcessedStaysProcessed` | `ProcessedIsFinal` | `~ManualIntervention` | `OrderLockInv` and the guards |
| `RefusalsAreTrue` | `RefusedOnlyWhenShort` | | `VerdictInv`: a carried verdict stays true, for stock never grows |
| `ConsumersNeverDeadlock` | `NoConsumerWaitCycle` | | inbox key, order row, then products going up: nobody waits for a handler at its inbox key, and among handlers in their items nobody waits for the one whose next product is the smallest (well-foundedness of <) |
| `PendingOrdersAreCarried` | `PendingHasCarrier` | `~ManualIntervention` | `CarrierInv`: events are no newer than `gen`; a duplicate is settled or old |
| `DeadLettersAreSettled` | `DeadLetteredIsSettled` | `~ManualIntervention` | `SettledInv`, for the handler about to publish too |
| `FailurePairHolds` | `FailurePair`, the CHECK constraint `ck_orders_failure_pair` | | only a PENDING order gets a code, with FAILED |
| `RefinesLedger` | `Spec => Ledger!Spec` | | every step is a ledger step or a stutter |

`StockProofs`. What the reservations took of a product is a sum over the
orders, `MapThenSumSet` of the community modules, which is a recursive function
on sets. What it adds up to is proved by induction, with a set in place of
the usual predicate: `NaturalInduction` and `OrderSetInduction` say that a set of
numbers, or of sets of orders, that is closed under one more has them all, and
each use names the set its hypothesis describes. So every step is first-order, which
the installed provers can do. `SumAddsUp` then gives the sum order by order, and
`OneOrderAddsUnits` what it becomes when one order reserves: the units
`Commit` takes from the stock in the same step (`CommitKeepsStockInv`). The
rest is that no other action writes stock or reservations (`ReservationStep`). A sum
needs finitely many orders, which `ConstantsAssumption` asks for: the rows of a
table are.

| Theorem | Statement | Assumes | Argument |
|---|---|---|---|
| `StockIsConserved` | `StockConserved` | | `StockInv`: `Commit` moves the units of one order, nobody else any |
| `NothingIsOversold` | `NeverOversold`: the reservations never exceed the seeded stock | | conservation, and no stock is negative |

`OutboxRelayProofs`. Nothing is assumed of how long a batch takes. `RelayInv`
joins to the types `CycleInv` (what a relay holds fits where it stands, and has a
row), `PublishedMeansConfirmed` and `FailedInv` (a FAILED row has no attempt left,
so that a late retry leaves it FAILED). `ClaimInv` says of the rows not in `late`
that no two relays hold one, that a held one is PENDING, and that once claimed it
is not due; a row enters `late` in the very step that makes it due under a relay,
and that is what makes the invariant inductive. `SentInv` adds that without
failures a sent event that is not late is on its way to being marked and was sent
once. That a published row is reopened only when late is then `ClaimInv` at the
retry, and so is that `EventOutbox` is implemented.

| Theorem | Statement | Argument |
|---|---|---|
| `RelayTypeCorrect`, `PublishedWasConfirmed` | `TypeOK`, `PublishedMeansConfirmed` | `RelayInv` |
| `BatchesNeverOverlap` | `BatchesAreDisjoint` | `ClaimInv` |
| `NoDuplicateWithoutFailure` | `DuplicateNeedsFailure` | `SentInv` |
| `OnlyLateRetriesReopen` | `ReopenedOnlyWhenLate` | `ClaimInv`: the row a relay retries is PENDING unless it is late |
| `RefinesOutbox` | `Spec => Outbox!Spec` | the same, with `FailedInv` |

`JwksCacheProofs`. What a fetch brings is described by `Reflects`: every key
published before it began, and none withdrawn before. The inductive invariant
joins to the types `FlightInv` (`emVoo` is the one fetch under way and what the
waiting wait for; a fetch whose failure refuses everyone began with no keys, and
there are none still), `AnswerInv` and `CacheInv` (the answer under way and the
cache reflect their age) and `IntervalInv` (while the interval runs and no fetch
does, the cache is as young as the fetch the interval began with, or a fetch
failed since). The properties do not follow without it: that a key long published
is not refused compares the ages of the interval, the cache and the key.
The theorems need `Timeout < Ttl` and an interval of at least a tick.

| Theorem | Statement | Argument |
|---|---|---|
| `CacheTypeCorrect` | `TypeOK` | `IInv` |
| `ProviderIsAskedOnce` | `OneFetchAtATime` | `FlightInv` |
| `CachedKeysAreFresh` | `KeysAreFresh` | `CacheInv` |
| `WithdrawnKeysRunOut` | `WithdrawnKeyRunsOut` | who is served finds the kid among keys that reflect an age below the TTL |
| `KnownKeysAreNeverRefused` | `KnownKeyIsNeverRefused` | `FlightInv`: a fetch whose failure is thrown has no keys to lose |
| `LongPublishedKeysAreServed` | `LongPublishedKeyIsServed` | `CacheInv` with `IntervalInv` |

`ConsumerProcessProofs`. A step of a handler connects, ends with an
acknowledgement, ends with the process, or `Proceeds`: it goes on with its
message, takes nothing from where a message may end, and reaches the stage `ack`
only when the event is committed or handed on. `StepCases` shows it, and each part
of the inductive invariant is then preserved case by case:
`HandlerInv` (who works has a message and, after its entry, a channel; who retries
has a tier), `ProcessInv` (a process that does not consume has nothing but the
connection `start()` opens; one that consumes has bound its tiers), `PrimaryInv`
(the connection of the subscription, or of a delivery still held, is the
process's only one: with a channel cached nobody connects), `LossInv` (until a
loss the subscription stays), `CountInv` (`inFlight` is the number of handlers at
work) and `KeptInv` (where each event is). The handlers are finitely many and the
retry tiers not none; nothing is asked of the earlier tiers.

| Theorem | Statement | Argument |
|---|---|---|
| `ConsumerTypeCorrect` | `TypeOK` | `CountInv` keeps `inFlight` from falling below 0 |
| `NoEventIsLost` | `NothingLost` | `KeptInv`, with a queue for every retry from `ProcessInv` and `HandlerInv` |
| `OneConnectionSuffices` | `OneConnectionUntilLoss` | `LossInv` and `PrimaryInv` |
| `StopCancels` | `DrainingIsCancelled` | `PrimaryInv`: the channel `stop()` gets is the subscription's, or there is none |
| `OnlyOwnDeliveries` | `OwnDeliveriesOnly` | `PrimaryInv`: an ack goes to another channel only when no delivery is held any more |
| `ExitsAreClean` | `ExitIsClean` | `CountInv`, and an idle handler holds nothing |

`ConsumerCopyProofs`. `NoCopyWithoutFault` counts the places of an event; the
proof has the set of them (`PlacesOf`: ready, waiting or at work), and the
invariant `OneCopyInv` says it has at most one element. It needs beside the
types: that every queue has a message once, for a count above 1 is one place
still (`CopyInv`); that the bindings are those of the two deployments, so that a retry
finds one queue (`BindInv`); that a handler at work holds its delivery
(`HeldInv`), and publishes on its delivery's channel (`PubInv`), so that without
a fault a publish is neither routed and reported lost nor left hanging. `QuietStep` lists
what a step can be when no fault has been: there a handler at `ack` only
acknowledges, and only a retry makes a message, on the way to its ack. Each of the four ways
a message moves then replaces one place by another (`MovingKeepsOne`).

`ConsumerDeliveryProofs`. What `MessageDelivery` owes is every event with a copy
in a queue or in a handler, one whose delivery was taken back and goes on working
included. `HandlerWorks`: a handler's step commits, gives up or makes copies of the
event it has and of no other. `StepWorks`: no step makes a copy of an event there
is none of. So no event comes back, and one that is owed no more
must, by `KeptInv`, have been committed or be a dead letter.

| Theorem | Statement | Argument |
|---|---|---|
| `OneCopyWithoutFault` | `NoCopyWithoutFault` | `OneCopyInv` |
| `RefinesDelivery` | `Spec => Delivery!Spec` | `StepWorks` and `KeptInv` |

`OrderApiProofs`. The inductive invariant joins to the types `CallInv` (a request
at work is one that was asked), `PoolInv` (every connection is free, with one
request, with one query runner, or leaked; a loss of any set of them gives back as
many), `CauseInv` (a request whose connection is gone has met a fault since it
came), `AcceptedIsUnderWay` itself, and `WalkInv`: of the orders there were when
the client began, those ranked before the next page have been seen. That stays
true because rows never go, nor change owner or place (`RowsStay`), so that what
is created meanwhile only adds to an order's rank and moves it back, towards pages
still to come; and the last page ends beyond the last row (`LastPageIsEnough`). A
reader could miss rows if one could be deleted, or leave his scope, between two of
his pages.

| Theorem | Statement | Argument |
|---|---|---|
| `ApiTypeCorrect` | `TypeOK` | `PoolInv` bounds the free connections |
| `WalksMissNothing` | `WalkSeesAll` | `WalkInv` |
| `AnswersAgree` | `AnswersAreTrue` | `WritesFacts`: what commits has found its order as it had to be |
| `AcceptedHaveEvents` | `AcceptedIsUnderWay` | a row and its event are written in one commit, and settled in one (`UnderWayStep`) |
| `FaultsDoNotLinger` | `FailuresHaveCause` | `CauseInv`: no step that fails needs an older fault, but those on a runner |

Model-checked only: `EveryEventSettles`, `NewKeyIsLearned`, `StopEnds`,
`ConsumedWhileSubscribed` and `EveryRequestIsAnswered`, liveness under fairness,
which is beyond this prover. The five violations are counterexamples, which need
no proof.

## 6. Not modelled

- InnoDB gap locks, and the shared lock a refused duplicate key leaves behind: a
  statement may fail at any time in the model, which is what their victims see,
  but a deadlock through them is not shown.
- `failure_reason` and the widths of text columns; `processing_attempts`.
- Response bodies, `/metrics`, `/health/live`, `/docs`; the list's status filter;
  decimal formatting; correlation identifiers; logs and metrics. Nothing decides
  on them.
- Hashing, signatures and the tokens a login issues: a token is genuine or not.
- Parsing of the environment: what it guarantees is assumed of the constants.
- The relay's `stop()`: it lets the last cycle end, which `OutboxRelay` shows as a
  relay that does not begin another. With a lost confirm that cycle does not end,
  and `stop()` waits as long as the relay hangs.
- Several consumer or API processes at once in `ConsumerProcess` and `OrderApi`:
  processes share nothing but the database and the broker, which `OrderProcessing`
  has with any number of consumers.

## 7. Plan

1. *(done)* `OrderProcessing` over `OrderLedger`: the core, its proofs.
2. *(done)* `OutboxRelay` over `EventOutbox`, its proofs.
3. *(done)* `ConsumerProcess`: connection, subscription, handlers, stop, retry
   topology across a deployment.
4. *(done)* `OrderApi`: requests, connections, answers, queries, and orders
   between requests.
5. *(done)* `JwksCache`, its proofs.
6. *(done)* `ConsumerProcess`, its proofs, `NoCopyWithoutFault` among them.
7. *(done)* `OrderApi`, its proofs.
8. *(done)* `MessageDelivery`, which `ConsumerProcess` implements.
9. *(done)* The sum over the orders in `StockConserved`.
10. What could still be stated: a ledger of accepted requests that `OrderApi`
    implements, as `OrderProcessing` implements `OrderLedger`.
