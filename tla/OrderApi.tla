-------------------------------- MODULE OrderApi --------------------------------
(***************************************************************************)
(* One API process: requests, its database connections, and what becomes   *)
(* of the orders it has answered for.                                      *)
(*                                                                         *)
(*   Calls   requests being served at once                                 *)
(*   walk    a client who reads GET /orders page after page                *)
(*                                                                         *)
(* Transactions and the readiness probe take a connection of the pool and  *)
(* give it back; the repositories GET and login use have a query runner    *)
(* each, made at start-up, that keeps its first connection.  What happens  *)
(* to an order and its event between requests is OrderProcessing and       *)
(* OutboxRelay; here an event is carried until it is settled or given up.  *)
(***************************************************************************)
EXTENDS Integers, FiniteSets, FiniteSetsExt

CONSTANTS
  Ids,          \* order identifiers, compared as integers
  Catalog,      \* names of the products
  Mixes,        \* bound: the provider, first rows, requests and paging clients of a behaviour
  Upper,        \* Upper[x]: the role name x in capitals
  Calls,
  PoolSize,     \* DB_POOL_SIZE
  MaxAmount,    \* the largest DECIMAL(12,2)
  MaxTime,      \* bound: clock readings
  Limit,        \* rows per page
  MaxFaults,    \* bound: occasions on which the database fails
  MaxFailures,  \* bound: orders that fail
  Nobody, NoRequest, NoAnswer

Statuses == {"ABSENT", "PENDING", "PROCESSED", "FAILED"}

RowsOf(owners) == [status : Statuses, owner : owners, at : 0..MaxTime,
                   event : {"none", "carried", "givenUp", "done"}]

(* The event of the row is with the relay, the broker or a consumer, or    *)
(* the relay has given it up.                                              *)
UnderWay(row) == row.event \in {"carried", "givenUp"}

ASSUME ApiAssumption ==
  /\ Ids \subseteq Nat
  /\ PoolSize \in Nat \ {0}
  /\ Limit \in 1..100
  /\ MaxAmount \in Nat /\ MaxTime \in Nat /\ MaxFaults \in Nat /\ MaxFailures \in Nat
  /\ IsFiniteSet(Ids) /\ IsFiniteSet(Calls)
  /\ \A m \in Mixes :
       /\ m.existing \in [Ids -> RowsOf({m.existing[o].owner : o \in Ids})]
       /\ \A o \in Ids : m.existing[o].status = "PENDING" <=> UnderWay(m.existing[o])

VARIABLES
  mix,       \* the member of Mixes this behaviour is about
  orders,    \* the committed rows, each with the state of its newest event
  free,      \* connections of the pool nobody holds
  conn,      \* the connection of each long-lived query runner
  call,      \* what each request is doing
  answer,    \* the answer the last step gave, if it gave one
  walk,      \* how far the client who pages has come
  faults,    \* occasions on which the database failed
  failures,  \* orders that failed
  leaked     \* connections of the pool that nobody will give back

counts == <<faults, failures, leaked>>
vars == <<mix, orders, free, conn, call, answer, walk, counts>>

Runners == {"orders", "users"}

NoRow == [status |-> "ABSENT", owner |-> Nobody, at |-> 0, event |-> "none"]
Idle == [stage |-> "idle", q |-> NoRequest, seen |-> "ABSENT", at |-> 0, since |-> 0]

-----------------------------------------------------------------------------
(* Faulty variants, each used in place of the definition of the comment.   *)

OneRunner(route) == "orders"              \* ConnectionOf: all repositories on one runner
KeepsConnection(r) == free' = free        \* Release: no finally
ReleasesTwice(r) == free' = free + 2      \* Release: in the catch and in the finally
AnyStatus(o) == TRUE                      \* StillFailed: no "AND status = :from"
OnCreationOnly(route) ==                  \* NewEvent: reprocessing appends none
  IF route = "create" THEN "carried" ELSE "none"
OnePageFurther(page) == page * Limit      \* Skip: counted from zero

-----------------------------------------------------------------------------
(* Who asks: the guard's token, as each provider verifies it.              *)

KnownRoles == {"ADMIN", "CUSTOMER"}

(* header.alg, a kid, and then signature, issuer, audience, expiry. *)
KeycloakVerifies(t) == t.alg = "RS256" /\ t.kid /\ t.genuine

LocalVerifies(t) == t.alg = "HS256" /\ t.genuine

Authenticated(t) ==
  /\ t.bearer
  /\ IF mix.provider = "keycloak" THEN KeycloakVerifies(t) ELSE LocalVerifies(t)

MappedRoles(t) == {role \in KnownRoles : \E x \in t.roles : Upper[x] = role}

RolesOf(t) == IF mix.provider = "keycloak" THEN MappedRoles(t) ELSE t.roles

Authorized(q) == q.route = "reprocess" => "ADMIN" \in RolesOf(q.token)

(* escopoDeLeitura: the rows a reader may see. *)
InScope(t) ==
  {o \in Ids : /\ orders[o].status # "ABSENT"
               /\ "ADMIN" \in RolesOf(t) \/ orders[o].owner = t.subject}

-----------------------------------------------------------------------------
(* What is asked: the pipe and the DTOs, and the error filter.  A price is *)
(* in cents, -1 standing for one the pattern refuses.                      *)

ItemAccepted(item) == item.quantity >= 1 /\ item.price >= 0

BodyAccepted(q) ==
  /\ q.name # ""
  /\ q.items # <<>>
  /\ \A i \in DOMAIN q.items : ItemAccepted(q.items[i])

CredentialsAccepted(q) == q.login # "malformed"

IdAccepted(q) == q.order \in Ids

WellFormed(q) ==
  CASE q.route = "create" -> BodyAccepted(q)
    [] q.route = "login" -> CredentialsAccepted(q)
    [] q.route \in {"get", "reprocess"} -> IdAccepted(q)
    [] OTHER -> TRUE

Repeated(q) ==
  \E i, j \in DOMAIN q.items : i # j /\ q.items[i].product = q.items[j].product

Unknown(q) == \E i \in DOMAIN q.items : q.items[i].product \notin Catalog

LineTotal(item) == item.price * item.quantity

Total(q) == MapThenSumSet(LAMBDA i : LineTotal(q.items[i]), DOMAIN q.items)

(* Accepted by the DTOs, and refused where nothing maps the error: a name  *)
(* of blanks by Order.create, a total too wide by the column.              *)
Unstorable(q) == q.name = "blank" \/ Total(q) > MaxAmount

Status(error) ==
  CASE error \in {"ValidationError", "BadRequestException"} -> 400
    [] error = "UnauthorizedException" -> 401
    [] error = "ForbiddenException" -> 403
    [] error = "NotFoundError" -> 404
    [] error = "ConflictError" -> 409
    [] error = "BusinessRuleViolation" -> 422
    [] OTHER -> 500

Public(route) == route \in {"login", "ready"}

(* What refuses a request before any connection is needed. *)
Refusals(q) ==
  IF ~Public(q.route) /\ ~Authenticated(q.token) THEN {"UnauthorizedException"}
  ELSE IF ~Public(q.route) /\ ~Authorized(q) THEN {"ForbiddenException"}
  ELSE IF ~WellFormed(q) THEN {"BadRequestException"}
  ELSE IF q.route = "create" /\ Repeated(q) THEN {"ValidationError"}
  ELSE {}

-----------------------------------------------------------------------------
(* Connections.                                                            *)

ConnectionOf(route) ==
  CASE route = "get" -> "orders"
    [] route = "login" -> IF mix.provider = "local" THEN "users" ELSE "none"
    [] OTHER -> "pool"

Acquire ==
  /\ free > 0
  /\ free' = free - 1

(* The database fails a statement, a BEGIN or a connection: once more. *)
Fault == faults < MaxFaults /\ faults' = faults + 1

(* A query runner connects once. *)
OnRunner(c) ==
  \/ conn[c] = "open" /\ UNCHANGED <<free, conn>>
  \/ conn[c] = "none" /\ Acquire /\ conn' = [conn EXCEPT ![c] = "open"]

(* It cannot connect: whether it tries again is TypeORM's affair. *)
ConnectionRefused(c) ==
  /\ conn[c] = "none" /\ free > 0
  /\ conn' \in {conn, [conn EXCEPT ![c] = "lost"]}
  /\ UNCHANGED <<free, leaked>>

(* release, at the end of a transaction or of the probe's query. *)
Release(r) == free' = free + 1

(* The readiness probe catches every error. *)
Failed(r) == IF call[r].q.route = "ready" THEN 503 ELSE Status("Error")

Answered(r, status) ==
  /\ call' = [call EXCEPT ![r] = Idle]
  /\ answer' = [call |-> r, status |-> status]

Serving(r, stage, routes) == call[r].stage = stage /\ call[r].q.route \in routes

-----------------------------------------------------------------------------
(* Requests.                                                               *)

(* Bound: an identifier is left for every order being created. *)
IdLeft ==
  Cardinality({o \in Ids : orders[o].status = "ABSENT"})
    > Cardinality({r \in Calls : call[r].stage # "idle" /\ call[r].q.route = "create"})

Arrive(r, q) ==
  /\ call[r].stage = "idle"
  /\ q.route = "create" => IdLeft
  /\ \/ /\ Refusals(q) = {}
        /\ call' = [call EXCEPT ![r].stage = "accepted", ![r].q = q, ![r].since = faults]
        /\ answer' = NoAnswer
     \/ /\ \E error \in Refusals(q) : answer' = [call |-> r, status |-> Status(error)]
        /\ UNCHANGED call
  /\ UNCHANGED <<mix, orders, free, conn, walk, counts>>

(* A transaction, or the probe's query, gets its connection, perhaps after *)
(* waiting for one.  Reprocessing reads the order here, and a new order    *)
(* takes its createdAt, neither of which waits for the commit.             *)
Begin(r) ==
  /\ call[r].stage = "accepted"
  /\ \/ ConnectionOf(call[r].q.route) = "pool" /\ Acquire /\ UNCHANGED conn
     \/ ConnectionOf(call[r].q.route) \in Runners /\ OnRunner(ConnectionOf(call[r].q.route))
  /\ \E now \in 1..MaxTime :
       call' = [call EXCEPT ![r].stage = "begun",
                  ![r].at = IF call[r].q.route = "create" THEN now ELSE 0,
                  ![r].seen = IF call[r].q.route = "reprocess"
                              THEN orders[call[r].q.order].status ELSE "ABSENT"]
  /\ answer' = NoAnswer
  /\ UNCHANGED <<mix, orders, walk, counts>>

(* connect or startTransaction throws, before the try: nothing is rolled   *)
(* back, and a connection that is still good is not given back either.     *)
BeginFails(r) ==
  /\ call[r].stage = "accepted"
  /\ Fault
  /\ \/ ConnectionOf(call[r].q.route) = "pool" /\ free > 0 /\ UNCHANGED <<free, conn, leaked>>
     \/ /\ call[r].q.route \in {"create", "reprocess"} /\ ConnectionOf(call[r].q.route) = "pool"
        /\ Acquire
        /\ leaked' = leaked + 1
        /\ UNCHANGED conn
     \/ \E c \in Runners : c = ConnectionOf(call[r].q.route) /\ ConnectionRefused(c)
  /\ Answered(r, Failed(r))
  /\ UNCHANGED <<mix, orders, walk, failures>>

(* A runner whose connection is gone has no other. *)
NoConnection(r) ==
  /\ call[r].stage = "accepted"
  /\ ConnectionOf(call[r].q.route) \in Runners
  /\ conn[ConnectionOf(call[r].q.route)] = "lost"
  /\ Answered(r, Status("Error"))
  /\ UNCHANGED <<mix, orders, free, conn, walk, counts>>

(* The statements on a runner end; it keeps the connection. *)
Get(r) ==
  /\ Serving(r, "begun", {"get"})
  /\ Answered(r, IF call[r].q.order \in InScope(call[r].q.token)
                 THEN 200 ELSE Status("NotFoundError"))
  /\ UNCHANGED <<mix, orders, free, conn, walk, counts>>

PasswordMatches(q) == q.login = "right"

Login(r) ==
  /\ Serving(r, "begun", {"login"})
  /\ Answered(r, IF PasswordMatches(call[r].q) THEN 200 ELSE Status("UnauthorizedException"))
  /\ UNCHANGED <<mix, orders, free, conn, walk, counts>>

(* With Keycloak a login needs no connection, and Keycloak may be down. *)
LoginAtKeycloak(r) ==
  /\ Serving(r, "accepted", {"login"}) /\ mix.provider = "keycloak"
  /\ \/ Answered(r, IF call[r].q.login = "right" THEN 200 ELSE Status("UnauthorizedException"))
     \/ Answered(r, Status("Error"))
  /\ UNCHANGED <<mix, orders, free, conn, walk, counts>>

(* /health/ready asks the broker as well. *)
Probe(r) ==
  /\ Serving(r, "begun", {"ready"})
  /\ Release(r)
  /\ \E status \in {200, 503} : Answered(r, status)
  /\ UNCHANGED <<mix, orders, conn, walk, counts>>

(* UPDATE ... AND status = 'FAILED' *)
StillFailed(o) == orders[o].status = "FAILED"

(* What execute throws before its transaction can commit. *)
Thrown(r) ==
  LET q == call[r].q IN
  CASE q.route = "create" /\ Unknown(q) -> {"BusinessRuleViolation"}
    [] q.route = "create" /\ ~Unknown(q) /\ Unstorable(q) -> {"Error"}
    [] q.route = "reprocess" /\ call[r].seen = "ABSENT" -> {"NotFoundError"}
    [] q.route = "reprocess" /\ call[r].seen \in {"PENDING", "PROCESSED"} -> {"ConflictError"}
    [] q.route = "reprocess" /\ call[r].seen = "FAILED" /\ ~StillFailed(q.order) -> {"ConflictError"}
    [] OTHER -> {}

Rollback(r) ==
  /\ Serving(r, "begun", {"create", "reprocess"})
  /\ \E error \in Thrown(r) : Answered(r, Status(error))
  /\ Release(r)
  /\ UNCHANGED <<mix, orders, conn, walk, counts>>

(* outbox.append, in the transaction of the row it is about. *)
NewEvent(route) == "carried"

Writes(r) ==
  LET q == call[r].q IN
  \/ /\ q.route = "create"
     /\ \E o \in Ids :
          /\ orders[o].status = "ABSENT"
          /\ orders' = [orders EXCEPT ![o] =
               [status |-> "PENDING", owner |-> q.token.subject,
                at |-> call[r].at, event |-> NewEvent(q.route)]]
  \/ /\ q.route = "reprocess"
     /\ orders' = [orders EXCEPT ![q.order].status = "PENDING",
                                 ![q.order].event = NewEvent(q.route)]

Commit(r) ==
  /\ Serving(r, "begun", {"create", "reprocess"})
  /\ Thrown(r) = {}
  /\ Writes(r)
  /\ Release(r)
  /\ Answered(r, IF call[r].q.route = "create" THEN 201 ELSE 202)
  /\ UNCHANGED <<mix, conn, walk, counts>>

(* A statement fails on a connection that stays, as when InnoDB rolls the  *)
(* transaction back to break a deadlock.                                   *)
StatementFails(r) ==
  /\ call[r].stage = "begun"
  /\ Fault
  /\ IF ConnectionOf(call[r].q.route) = "pool" THEN Release(r) ELSE UNCHANGED free
  /\ Answered(r, Failed(r))
  /\ UNCHANGED <<mix, orders, conn, walk, failures, leaked>>

(* The connection goes while the COMMIT is answered: it has happened. *)
CommitLost(r) ==
  /\ Serving(r, "begun", {"create", "reprocess"})
  /\ Thrown(r) = {}
  /\ Fault
  /\ Writes(r)
  /\ free' = free + 1
  /\ Answered(r, Status("Error"))
  /\ UNCHANGED <<mix, conn, walk, failures, leaked>>

(* A statement finds its connection gone; so does the rollback.            *)
Break(r) ==
  /\ call[r].stage = "broken"
  /\ Answered(r, Failed(r))
  /\ UNCHANGED <<mix, orders, free, conn, walk, counts>>

Serve(r) ==
  \/ Begin(r) \/ BeginFails(r) \/ NoConnection(r)
  \/ Get(r) \/ Login(r) \/ LoginAtKeycloak(r) \/ Probe(r)
  \/ Rollback(r) \/ StatementFails(r) \/ Commit(r) \/ CommitLost(r) \/ Break(r)

(* The server or the network closes connections, idle ones too.  The pool  *)
(* forgets them.                                                           *)
Lose(runners, calls, strays) ==
  /\ Fault
  /\ \A c \in runners : conn[c] = "open"
  /\ \A r \in calls : call[r].stage = "begun" /\ ConnectionOf(call[r].q.route) = "pool"
  /\ runners \union calls # {} \/ strays > 0
  /\ conn' = [c \in Runners |-> IF c \in runners THEN "lost" ELSE conn[c]]
  /\ call' = [r \in Calls |->
       IF r \in calls \/ (call[r].stage = "begun" /\ ConnectionOf(call[r].q.route) \in runners)
       THEN [call[r] EXCEPT !.stage = "broken"] ELSE call[r]]
  /\ free' = free + Cardinality(runners) + Cardinality(calls) + strays
  /\ leaked' = leaked - strays
  /\ answer' = NoAnswer
  /\ UNCHANGED <<mix, orders, walk, failures>>

-----------------------------------------------------------------------------
(* Between requests: an order's event is carried to the consumers, who     *)
(* settle the order, or the relay gives the event up.                      *)

Settle(o) ==
  /\ orders[o].status = "PENDING" /\ orders[o].event = "carried"
  /\ \/ /\ orders' = [orders EXCEPT ![o].status = "PROCESSED", ![o].event = "done"]
        /\ UNCHANGED failures
     \/ /\ failures < MaxFailures
        /\ failures' = failures + 1
        /\ orders' = [orders EXCEPT ![o].status = "FAILED", ![o].event = "done"]
  /\ answer' = NoAnswer
  /\ UNCHANGED <<mix, free, conn, call, walk, faults, leaked>>

GiveUp(o) ==
  /\ orders[o].status = "PENDING" /\ orders[o].event = "carried"
  /\ orders' = [orders EXCEPT ![o].event = "givenUp"]
  /\ answer' = NoAnswer
  /\ UNCHANGED <<mix, free, conn, call, walk, counts>>

-----------------------------------------------------------------------------
(* GET /orders, page after page: the rows first, then their number, in     *)
(* statements of their own.                                                *)

(* ORDER BY createdAt DESC, id DESC *)
ComesBefore(o, p) ==
  \/ orders[o].at > orders[p].at
  \/ orders[o].at = orders[p].at /\ o > p

Rank(o, S) == Cardinality({p \in S : ComesBefore(p, o)})

Skip(page) == (page - 1) * Limit

Page(t, page) ==
  {o \in InScope(t) : Rank(o, InScope(t)) \in Skip(page)..(Skip(page) + Limit - 1)}

TotalPages(total) == (total + Limit - 1) \div Limit

StartWalk(t) ==
  /\ walk.stage = "none"
  /\ Authenticated(t)
  /\ walk' = [stage |-> "rows", token |-> t, page |-> 1, seen |-> {}, initial |-> InScope(t)]
  /\ answer' = NoAnswer
  /\ UNCHANGED <<mix, orders, free, conn, call, counts>>

ReadRows ==
  /\ walk.stage = "rows"
  /\ OnRunner("orders")
  /\ walk' = [walk EXCEPT !.stage = "total", !.seen = @ \union Page(walk.token, walk.page)]
  /\ answer' = NoAnswer
  /\ UNCHANGED <<mix, orders, call, counts>>

ReadTotal ==
  /\ walk.stage = "total"
  /\ conn["orders"] = "open"
  /\ walk' = IF walk.page < TotalPages(Cardinality(InScope(walk.token)))
             THEN [walk EXCEPT !.stage = "rows", !.page = @ + 1]
             ELSE [walk EXCEPT !.stage = "done"]
  /\ answer' = NoAnswer
  /\ UNCHANGED <<mix, orders, free, conn, call, counts>>

WalkFails ==
  /\ walk.stage \in {"rows", "total"}
  /\ \/ conn["orders"] = "lost" /\ UNCHANGED <<free, conn, faults, leaked>>
     \/ Fault /\ ConnectionRefused("orders")
     \/ Fault /\ conn["orders"] = "open" /\ UNCHANGED <<free, conn, leaked>>
  /\ walk' = [walk EXCEPT !.stage = "failed"]
  /\ answer' = NoAnswer
  /\ UNCHANGED <<mix, orders, call, failures>>

WalkOn == ReadRows \/ ReadTotal \/ WalkFails

-----------------------------------------------------------------------------
Init ==
  /\ mix \in Mixes
  /\ orders = mix.existing
  /\ free = PoolSize
  /\ conn = [c \in Runners |-> "none"]
  /\ call = [r \in Calls |-> Idle]
  /\ answer = NoAnswer
  /\ walk = [stage |-> "none", token |-> Nobody, page |-> 0, seen |-> {}, initial |-> {}]
  /\ faults = 0 /\ failures = 0 /\ leaked = 0

Next ==
  \/ \E r \in Calls, q \in mix.asked : Arrive(r, q)
  \/ \E r \in Calls : Serve(r)
  \/ \E runners \in SUBSET Runners, calls \in SUBSET Calls, strays \in 0..leaked :
       Lose(runners, calls, strays)
  \/ \E o \in Ids : Settle(o) \/ GiveUp(o)
  \/ \E t \in mix.walkers : StartWalk(t)
  \/ WalkOn

(* The event loop and the database go on with what has begun, and the pool *)
(* hands out connections in the order they were asked for.  No client has  *)
(* to ask, nothing has to fail, and nobody has to settle an order.         *)
Fairness ==
  /\ \A r \in Calls : SF_vars(Serve(r))
  /\ SF_vars(WalkOn)

Spec == Init /\ [][Next]_vars /\ Fairness

-----------------------------------------------------------------------------
(* Properties.                                                             *)

Asked == UNION {m.asked : m \in Mixes}

Row == RowsOf({q.token.subject : q \in Asked} \union {mix.existing[o].owner : o \in Ids})

Call == [stage : {"idle", "accepted", "begun", "broken"}, q : Asked \union {NoRequest},
         seen : Statuses, at : 0..MaxTime, since : 0..MaxFaults]

(* Types. *)
TypeOK ==
  /\ mix \in Mixes
  /\ orders \in [Ids -> Row]
  /\ free \in 0..PoolSize
  /\ conn \in [Runners -> {"none", "open", "lost"}]
  /\ call \in [Calls -> Call]
  /\ answer = NoAnswer \/ answer.status \in {200, 201, 202, 400, 401, 403, 404, 409, 422, 500, 503}
  /\ walk.stage \in {"none", "rows", "total", "done", "failed"}
  /\ walk.seen \subseteq Ids /\ walk.initial \subseteq Ids
  /\ faults \in 0..MaxFaults /\ failures \in 0..MaxFailures /\ leaked \in 0..PoolSize

Keepers == {c \in Runners : conn[c] = "open"}

(* What transactions that could not begin have left of the pool, the two   *)
(* runners keep.                                                           *)
Exhausted == leaked > 0 /\ leaked + Cardinality(Keepers) = PoolSize

(* Every request that gets past the guards is answered, and every page     *)
(* read: no connection is kept by whoever is done with it, and the two     *)
(* that are kept for ever leave some, unless transactions that could not   *)
(* begin have used up the pool (unit-of-work's finally, and what is before *)
(* its try; persistence.module, the runners nobody releases).              *)
EveryRequestIsAnswered ==
  /\ \A r \in Calls : (call[r].stage # "idle") ~> (call[r].stage = "idle" \/ Exhausted)
  /\ walk.stage \in {"rows", "total"} ~> (walk.stage \in {"done", "failed"} \/ Exhausted)

(* A fault costs the requests it meets, waiting for a connection or at     *)
(* work, and no later one: a write fails only when the database has failed *)
(* since it arrived or cannot hold its data, a probe never, and a read     *)
(* goes on failing only while the runner of its own repository is without  *)
(* a connection (unit-of-work, a runner each; persistence.module).         *)
FailuresHaveCause ==
  [][LET c == call[answer'.call] IN
     answer' # NoAnswer /\ answer'.status = 500 =>
       /\ c.q.route # "ready"
       /\ c.q.route = "create" => faults' > c.since \/ Unstorable(c.q)
       /\ c.q.route = "reprocess" => faults' > c.since
       /\ c.q.route = "get" => faults' > c.since \/ conn["orders"] = "lost"
       /\ c.q.route = "login" /\ mix.provider = "local" =>
            faults' > c.since \/ conn["users"] = "lost"]_vars

(* The answer agrees with the tables: 201 and 202 come with exactly the    *)
(* order they are about becoming PENDING, once per failure, and with its   *)
(* event; a refusal has written nothing; an order is shown to its owner or *)
(* an administrator, as it is at that moment.                              *)
AnswersAreTrue ==
  [][LET q == call[answer'.call].q
         Changed == {o \in Ids : orders'[o] # orders[o]} IN
     answer' # NoAnswer =>
       /\ answer'.status \in {201, 202} =>
            \E o \in Ids :
              /\ Changed = {o}
              /\ orders[o].status = (IF q.route = "create" THEN "ABSENT" ELSE "FAILED")
              /\ orders'[o].status = "PENDING" /\ orders'[o].event = "carried"
       /\ answer'.status \in 400..499 => Changed = {}
       /\ (answer'.status = 200 /\ q.route = "get") => q.order \in InScope(q.token)]_vars

(* A client who reads every page without a filter has then seen every      *)
(* order that was there for him when he began, and none that is not his,   *)
(* whatever was created or changed meanwhile, in whichever order commits   *)
(* and clocks come (order.repository.ts, list; list-orders, metaOf).       *)
WalkSeesAll ==
  walk.stage = "done" =>
    /\ walk.initial \subseteq walk.seen
    /\ walk.seen \subseteq InScope(walk.token)

(* Whenever an order is PENDING, its newest event is on its way to the     *)
(* consumers or was given up by the relay, and only then: no order is      *)
(* accepted, or sent back, without an event that can settle it (the        *)
(* transactions of create and reprocess, with the event in them).          *)
AcceptedIsUnderWay ==
  \A o \in Ids : orders[o].status = "PENDING" <=> UnderWay(orders[o])
=============================================================================
