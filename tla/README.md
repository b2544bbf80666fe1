# Verification of the student cafe

TLA+ models, model-checking runs and machine-checked proofs for the services in
`src/practicals/`. The repository is a course: the same cafe is rebuilt in several
practicals, and `practical6-example` is the final system. It comes first here; then the
monolith and the REST services it grew out of (practical 5), the cafe page and its
services (practical 4), and service discovery (practical 2).

## 1. Inventory

| Part | State | Operations | Talks to |
|---|---|---|---|
| API gateway (`practical6-example/api-gateway`) | none of its own; one goroutine per HTTP call | nine handlers: create, get, list for users, menu items and orders | one gRPC call per request to the user, menu or order service |
| User service (`user-service`) | table `users` (unique email), id sequence | `CreateUser`, `GetUser`, `GetUsers` | its own Postgres |
| Menu service (`menu-service`) | table `menu_items`, id sequence | `CreateMenuItem`, `GetMenuItem`, `GetMenu` | its own Postgres |
| Order service (`order-service`) | tables `orders` and `order_items`, two id sequences | `CreateOrder`, `GetOrder`, `GetOrders` | its own Postgres; `GetUser` and `GetMenuItem` of the other services |
| Deployment (`docker-compose.yml`) | which containers run | start order, exits on a failed connection | all of the above |
| Monolith (`practical5/student-cafe-monolith`) | the tables of all three services in one database | six handlers | its own Postgres |
| REST services (`practical5`: user, menu, order) | a database each | the same over HTTP | the order service asks the other two over HTTP |
| REST gateway (`practical5/api-gateway`) | none | a reverse proxy per route | the three services |
| Cafe page (`practical4/student-cafe/cafe-ui`) | menu, cart, message, pending requests | add to the cart, place an order, take an answer | catalogue and order service through Kong |
| Catalogue and order service (`practical4`) | a Go map of orders; their entries in Consul | `POST /orders`, register, health | Consul |
| Users and products service (`practical2`) | whether they listen; their entries in Consul | register, listen, health, `GET /<service>/{id}` | Consul |
| Discovering gateway (`practical2/api-gateway`) | none | check the path, ask Consul, proxy | Consul, the services |

What is hard in the final system:

* `CreateOrder` is a chain of remote calls (user, then every item) followed by a
  transaction in a third database. Nothing locks or joins the three databases, and
  there are no foreign keys between them.
* The reads of the order service use GORM's `Preload`: two SELECTs outside a
  transaction, while other orders commit.
* Every process can die and is not restarted; a database can fail before, during and
  after COMMIT. No call has a deadline (`context.Background()`), a retry or an
  idempotency key.
* Errors cross two translations: database error to gRPC code, gRPC code to HTTP
  status. Several causes are merged on the way.
* Integers change their width: JSON `uint32` quantity to `int32`, 64-bit ids to
  `uint32`.

In the cafe of practical 4, several orders can be pending while the cart changes, error
answers can look like orders, handlers share a map without a lock, and registration with
Consul is tried once.

In practical 5, bodies are decoded into the database models, so a client can choose a
primary key; containers start before their databases answer and are never restarted; and
an order of the REST services is four processes and a chain of HTTP calls without
timeouts. In practical 2, what Consul knows is always a little old: services register
before they listen and never deregister, two processes can want one port, every
instance calls itself "localhost" but has its health checked under the name of its host,
and a Consul that restarts has forgotten them all.

The places where this bites are listed, line by line, under `hazards` in `PROJECT.json`.

## 2. Modules

```
Grpc            codes, unary calls, fixed-width integers, failures   (constants)
UserService     extends Grpc                 users, userSeq, userUp, userCall
MenuService     extends Grpc                 menuItems, menuSeq, menuUp, menuCall
OrderService    extends UserService, MenuService (it is their client)
ApiGateway      extends OrderService         http, gatewayUp, before
StudentCafe     composes the four processes; properties; refinement
CafeLedger      the abstract specification
MCStudentCafe   instances for TLC
StudentCafeProofs   theorems: types, OrderIntegrity
LedgerProofs    extends StudentCafeProofs    theorems: keys, refinement of CafeLedger
AnswerProofs    extends LedgerProofs         theorems: what the client is told about orders
ReadProofs      extends AnswerProofs         theorems: reads after writes

Gorm            Create, First and Find on a table with a sequence and deleted rows   (external)
Monolith        extends Gorm                 one process, one database; properties; refinement
RestCafe        extends Gorm                 four containers; properties; refinement
MCMonolith, MCRestCafe   instances for TLC
MonolithProofs, RestProofs   theorems

Consul          the agent: catalogue and health checks   (practicals 2 and 4; external)
CafeServices    extends Consul               podUp, registering, orders, post
CafeUI          extends CafeServices         items, cart, message, waiting, added; properties
MCCafeUI        instances for TLC
CafeUIProofs    theorems
Discovery       extends Consul               proc, http, ready; properties
MCDiscovery     an instance for TLC
DiscoveryProofs theorems
```

**Calls.** A client call `c` is served by one goroutine per process, so each service
has one slot per client call: `userCall[c]`, `menuCall[c]`, `orderCall[c]`. A slot is
idle, holds a request that is not answered, or an answer that is not taken. gRPC is
external; it is modelled as the code uses it: a call to a dead process ends with
`Unavailable` (`UserRefuse` and the like), and when a process dies any answer still on
its way may be lost (`CutOff`). A call that a dead process had not begun may be served
after a restart, as gRPC allows.

**Databases.** A table is a set of rows, a Postgres sequence a counter that failed
inserts may advance. A handler with one statement is one step. `DB.Create(&order)` is
three: insert the order row, insert the item rows, COMMIT; rows appear at COMMIT. With
`"db"` in `Faults` any statement may fail, and the connection may break after COMMIT,
so that a stored row is reported as an error.

**Handlers of the order service.** `handler[c]` holds the locals of one goroutine: where
it is, the lines collected so far, the ids drawn in its transaction, the orders of the
first SELECT. One action per step between two points where the goroutine waits.

**Gateway.** One action per handler up to its gRPC call, and one per service for what
follows (`UserResponse`, `MenuResponse`, `OrderResponse`). `http[c]` is what the client
sees. A body or path that does not decode is answered 400 at once.

**Composition.** A step of the system is a step of one process. `CancelStep` is the one
step that needs two of them: the context of an order handler is cancelled when the
gateway that called it has died.

**Data left out.** Names, descriptions, the owner flag, timestamps and error texts: no
handler looks at them. Prices and emails are model values. Item ids are drawn as one
block per statement. The order of rows in a list is not modelled: the queries have no
ORDER BY.

**History variables.** `placed[c]` (ids of the orders stored for a call) and `before[c]`
(calls already answered when `c` began) are read by properties only.

Operators whose comment begins with "Mutant:" are faulty variants of the definition that
follows; no specification uses them. They exist so that each property can be shown to
fail on a plausible bug.

**The cafe of practical 4.** `CafeUI` is the page together with the services behind it.
A press of "Add to Cart" is a numbered pick, so the model can follow what becomes of each;
food, prices and texts are left out. `post[r]` is one POST: unsent, on its way, looked up
in Consul (`found`), writing the map (`storing`, or `racing` when two handlers write at
once), answered. Two writers at once are undefined in Go: the process may stop
(`FatalMapWrites`), or a write may be lost, or nothing happens. Kong, Consul, Kubernetes
and the browser are external. Kong answers for a pod that is down with a JSON object or
with text; React takes the page down when the menu is such an object. `picked` (the picks
since the page was loaded), `during` (which POSTs were pending when a pick was made) and
`settled` (the POSTs whose answer emptied the cart) are history variables. UUIDs are taken to be unique, and the error that
`GenerateUUID` returns, which the handler ignores, is not modelled.

**Messages.** `CreateUserRequest`, `GetOrdersResponse` and the like are the messages of
the generated protobuf code with the fields that handlers look at, ids and quantities in
their width. `UserReq` and its fellows are the methods a client stub can call, and
`UserServing` is how the generated server picks a handler.

**GORM (practical 5).** `Create`, `First` and `FindFails` give the outcomes one statement
may have: done, rejected by a key, failed before or after it drew an id, committed but
reported as an error. `DB.Create(&order)` is one step here, a transaction of its own;
practical 6 shows it in three. Users and menu items are decoded into models that embed
`gorm.Model`, so a client can send `DeletedAt` as well as `ID`: `deleted` is that field,
and every query returns the `Live` rows only, while keys and the unique index see them all.
A path id that is not a number (`Text`) is a condition in SQL to `DB.First(&user, id)`:
`FirstByParam` lets it find any live row, or none. The timestamps of `gorm.Model` are left
out; nothing reads them. Order items of practical 5 are told apart by their place in the request instead of their own id.

**Monolith.** `handler[c]` is the goroutine of call `c`, with one step per statement. A
crash takes all goroutines; `Start` migrates, which keeps rows and sequences.

**RestCafe.** `proc[p]` is a container: created, running or exited. With "db" in
`Faults`, `Main` may find that its database does not answer and exit; nobody is obliged to
start it again.
`call[s][c]` is the HTTP call made to service `s` on behalf of `c`; status 0 is a
connection that broke. The menu service works on `models.Menu`, whose relation
`references:MenuID` names a field that does not exist: GORM refuses the model, its table
is not migrated either, so every valid POST is answered 500, every GET of an item 404,
and `GET /menu` has no route (405). `MenuChecked` keeps what would happen after a 200:
a price of 0, because a `Menu` has none. The retries that Go's transport makes of a GET
on a reused connection are left out; they change nothing that is stored.

**Discovery.** A process runs one `<<service, host>>` pair, which is its id in Consul.
`proc[p]` says how far it has come: starting, registered, listening. The gateway checks
the path (`routeRequest`), asks Consul (`discoverService`, any healthy instance), and
proxies to its `Address`, "localhost" for every instance; `named` keeps which instance Consul
had named. Two constants say what the code leaves to the network. `Joined` are the hosts from
which `consulapi.DefaultConfig()` leads to the gateway's agent: without CONSUL_HTTP_ADDR it
is the agent of the process's own host, and a process elsewhere exits. `Reachable` are the
hosts whose names mean something to the agent, which polls `http://<hostname>:<port>/health`;
for a Consul in a container, as practical2.md starts it, there may be none. `ready` is a
history variable: the requests that arrived while their service was `Steady` (Consul up, the
instance beside the gateway healthy and listening), until a step `Disturbs` it: Consul or the
listener stops, or a process registers the same id again, which may set its check back. The
products service is the same code with other names.

## 3. Abstract specification

`CafeLedger` says what the backend promises: one ledger where a user, a menu item or a
whole order appears in one step and stays; ids and emails are unique; an order names a
registered user and the current prices; a client call places at most one order.
Three systems implement it, each under a mapping `Ledger` in its module: `users` and
`menuItems` are themselves, an order is its row together with its item rows.

* `StudentCafe`: three databases, no transaction across them.
* `Monolith`: so splitting it kept its promise, explicit ids included.
* `RestCafe`, with a menu that stays empty: what it stores are orders without items.

## 4. Runs

| Run | Instance | Checks |
|---|---|---|
| `orders` | `MCStudentCafe`: 3 calls that order, read orders, and create the users and items the orders refer to, one stored user and one stored item; the order service may crash, databases fail | `OrderAsRequested`, `AnswerIsTrue`, `OrdersReadWhole`, `KeysUnique`, `OrderIntegrity`, `HandlerInv`, `ImplementsLedger` |
| `api` | 2 calls to any endpoint, inputs that decode and inputs that do not; everything may fail | `TypeOK`, `ReadYourWrites`, `NotFoundIsTrue` |
| `liveness` | 2 calls, orders and reads, any process may crash for good | `CallsEnd`, `HandlersEnd` |
| `outage` | 2 calls, user and menu service may crash | `OutageIsNot400` (violated) |
| `cart` | `MCCafeUI`: 2 picks, 2 POSTs; pods, Consul and the network fail, the page is reloaded | `CafeTypeOK`, `CartKept`, `CartInv` |
| `cart_liveness` | 1 pick, 2 POSTs; pods crash and are restarted, Consul starts late or never | `PromisesSettle`, `CatalogFound` |
| `placed_undefined` | the order service crashes | `PlacedIsAnOrder` (violated) |
| `monolith` | `MCMonolith`: 4 calls, users and items with and without an id of their own; the database fails, the process dies and restarts | `MonolithTypeOK`, `OrderAnswers`, `SequenceAhead`, `MonolithImplementsLedger` |
| `rest` | `MCRestCafe`: 2 calls to any endpoint; containers do not start, die, lose answers; databases fail | `RestTypeOK`, `RestOrderAnswers`, `RestImplementsLedger`, `RequestsEnd` |
| `rest_menu` | no failures | `MenuCanBeFilled` (violated) |
| `discovery` | `MCDiscovery`: two users processes beside the gateway, one on another host, 1 request; Consul, services and gateway fail | `DiscoveryTypeOK`, `Undisturbed`, `RestartIsFound`, `OutageIsNoticed`, `GatewayAnswers` |
| `remote_instance` | the same processes, no failures | `NamedInstanceServes` (violated) |

What they show:

* A stored order is the one that was requested, with each item as often as it was
  listed; 201 means stored exactly once and 400 or 404 that nothing was stored. A client
  that gets 500 or 503 cannot know (the run reaches both outcomes).
* Reads return whole orders although they use two queries, because rows are never
  changed or deleted and an order commits with its items.
* Orders never dangle, whatever is created concurrently and whatever fails. This rests
  on the absence of delete and update operations, which `TablesGrow` makes explicit: a
  future delete endpoint would break it.
* Every call ends without deadlines, because a broken connection is an error at once.
* The ledger holds in the run while databases fail and the order service crashes, and for
  crashes of all four processes by the theorem `CafeImplementsLedger`.
* A pick leaves the cart only when an order is answered that carries it, or that was pending
  when the pick was made. That is less than it may seem. In the second case the pick may
  never be ordered. The answer need not be that of the order service: Kong's JSON error empties the
  cart as well, and then no order was stored. And two presses before the first answer send
  the same picks twice; both orders are stored.
* The page calls an order placed when Kong's error object arrives. Two orders at the same
  moment can crash the order service (`FatalMapWrites`), or one of them is answered 201 and
  not stored (`StoreEnds`), which no endpoint shows; the page still gets an answer.
* A catalogue registers once per process. It is found if one of its attempts meets a Consul
  that then stays up, however late Consul started; otherwise only after a crash.
* In the monolith as in the REST services, 201 means stored exactly once and as asked,
  400 that nothing was stored; 500, 502 and a lost connection leave the client in doubt.
  A client that sends an "ID" stores behind the sequence and can make a later insert fail;
  without such clients no insert is refused for its key, through failures and restarts.
* Every request to the REST services ends although nothing has a timeout, but no menu item
  can be stored there and so no order with items.
* Behind the discovering gateway, a request gets the answer of its service if the service ran
  beside the gateway and was healthy when the request came, and neither the process nor its
  registration nor Consul is disturbed before the answer. Dead instances in the catalogue,
  instances on other hosts, a second process that finds the port taken, and other services
  make no difference. The "localhost" that every instance registers has two sides: an
  instance that just died elsewhere does no harm, and an instance on another host is never
  used, so a request that Consul sends there is answered 502 unless the gateway's own host
  happens to run the service (`remote_instance`).
* Where Consul reaches the hosts by their names, a process left running is found again; where
  it does not, it never is, and every request is answered 503 (`healthCheckHandler`). One that is
  gone is no longer offered, and every request is answered. All this needs a Consul that keeps
  running: after a restart in development mode the catalogue is empty, services do not
  register again, and the answer is 503 until somebody restarts them.

Documents and code disagree in four places that a run shows (`findings`): a valid order
is answered 400 "not found" while a service is down (`outage`), the page greets an order
that was not placed (`placed_undefined`), the menu of practical 5 cannot be filled
(`rest_menu`, where nothing fails at all), and the address a service of practical 2
registers, "localhost" where practical2.md:382 and :490 have the host name, is not where an
instance on another host runs (`remote_instance`). Others are visible in a single definition
and have no run:

* a health check is registered under the host name (users-service/main.go:71), so a service
  that runs never turns green, as practical2.md:634 says it will, in a Consul that cannot
  reach that name. That is the Consul in Docker of the same text, which records "no healthy
  instances" at practical2.md:669-684 and advises to install Consul on the host
  (`healthCheckHandler` with a host that is not in `Reachable`);
* an order of practical 4 answered 201 need not be in the memory that practical4.md:576 says
  it is stored in, if two handlers write the map at once (`StoreEnds`);
* a duplicate email is answered 500 where practical5b.md:270 says 409
  (`UserServer_CreateUser`);
* `GetOrder` reports every database error as NotFound where practical6.md:247 says "Resource
  doesn't exist" (`OrderService`);
* a service of practical 4 registers once, at its start, where practical4.md:190 says that it
  registers itself (`CafeServices`).

**Bounds.** The number of client calls is the only bound on behaviour: 2 or 3 calls, each
of which makes one request. Three are enough for the interesting races (two writers and
a reader; a user, an item and an order; two transactions and a rollback). Crashes and
restarts are not bounded. `Word` (2^32 in Go) is 8: quantities from 0 to 7 become
integers from -4 to 3, so the wrap to negative numbers occurs (quantity `Word - 1`),
and ids stay below 8. TLC stops where all calls are answered, so deadlock is not
checked; `CallsEnd` and `HandlersEnd` say what matters instead. Symmetry of the calls is
used in the runs of safety properties only. In `MCCafeUI` the picks and the POSTs are bounded by 2:
a pick before and one during a pending order, and two orders whose answers overtake each
other or whose handlers race. Four calls to the monolith are a user, an item, an order and
a second writer or reader. In `MCRestCafe` two are enough, as the only rows that matter
are users and orders without items. In `MCDiscovery` requests share no state, so one is
enough; two processes on a host race for the registration and the port, the third is the
remote instance, and nobody runs the products service, so its requests find nothing. Both
hosts are joined and reachable. The theorems take any processes of both services and any
`Joined` and `Reachable`.
Launches, crashes and restarts are unbounded in all of them.

**Fairness.** `FairSpec` assumes for every call that whoever serves it goes on: the Go
scheduler runs runnable goroutines, a database answers or fails, gRPC reports a broken
connection. Serving and refusing share one condition, so a service that crashes and
restarts for ever does not starve a call. Restarts are not assumed:
`docker-compose.yml` has no restart policy. In `CafeUI` they are, because Kubernetes
restarts the containers of a Deployment; Consul polls its checks, goroutines and promises
go on, but the customer need not do anything and Consul need not come back. `RestCafe`
assumes that goroutines run and that a connection to a process that is gone is noticed;
containers need never start. `Discovery` assumes that a `main` that has begun goes on,
that goroutines run and that Consul polls every instance; nobody has to launch a process
or bring Consul back, and `RestartIsFound` and `OutageIsNoticed` say what they need of it.

## 5. Proofs

TLAPS checks the following for any set of calls and requests, any number of rows and any
choice of failures, where the runs fix two to four calls. Every invariant, action property
and refinement that a passing run checks has a theorem; liveness has none.

### Practical 6

`StudentCafeProofs` (any initial tables, any even `Word`):

* `TypeCorrect`: `Spec => []TypeOK`;
* `HandlersRelyOnTruth`: `Spec => []HandlerInv`;
* `IntegrityHolds`: `Spec => []OrderIntegrity`.

`OrderIntegrity` is not inductive: `Commit` stores what the handler collected earlier, so
the invariant must say what the handler knows at each step. `HandlerInv` does: a handler
runs only for an unanswered request (`RunningInv`); the call in the user slot asks about
the user of the order and OK means it exists (`AskedUser`); the same for the current item
and its price (`AskedMenu`); what has been checked stays true (`CheckedInv`); and a slot
is used only by the call it belongs to (`ChannelInv`). `TypeOK` needs `HandlerInv` as
well, since the loop indexes `req.Items` with the number of lines collected. The proof
follows the processes: `UserAnswers` and `MenuAnswers` say what a service may do to one
call, `OtherCalls` that a handler's step leaves the other calls alone, and
`UserStepInv`, `MenuStepInv`, `OrderStepInv`, `GatewayStepInv` put them together.

`LedgerProofs`:

* `KeysAreUnique`: `Spec => []KeysUnique`;
* `CafeImplementsLedger`: `Spec => ImplementsLedger`.

Unique keys are not inductive: a transaction draws its ids when it inserts and shows its
rows when it commits. `KeysInv` says that sequences are ahead of every stored id
(`SequencesAhead`) and that the ids a handler holds belong to no row and to no other handler
(`OrderIdOwned`, `ItemIdsOwned`). `PlacedInv` says that a call with a stored order has no
handler that could store another. With these, `Commit` is `PlaceOrder` of the ledger (the
prices come from `HandlerInv`), the inserts of users and items are `RegisterUser` and
`AddMenuItem`, and every other step leaves the ledger alone.

`AnswerProofs`:

* `AnswersAreTrue`: `Spec => []AnswerIsTrue`;
* `OrdersAreReadWhole`: `Spec => []OrdersReadWhole`;
* `OrdersAreAsRequested`: `Spec => []OrderAsRequested`.

`AnswerInv` follows an order from the gateway and back: the order service was asked what
the client asked, translated (`SentInv`); what its answer says is true while nobody has
taken it (`DoneInv`), and when the client has it (`ToldInv`); between the two SELECTs of a
read the rows of the first are stored (`RowsInv`). `OrderAsRequested` counts rows and
compares with the number of places in the request. `RowsCounted` gives a bijection between
the two, since `InsertItems` makes one row with its own id for each line; `LinesInv` and
`RequestedInv` carry lines and stored rows through the loop and the commit.

`ReadProofs`:

* `WritesAreRead`: `Spec => []ReadYourWrites`;
* `NotFoundIsReliable`: `Spec => [](IdsFit => NotFoundIsTrue)`.

`UserReadInv`, `MenuReadInv` and `OrderReadInv` say that what was acknowledged before a read
began is in the tables when a service reads them, and in what the handler or the answer
slot holds afterwards. `IdsFit` (no sequence has passed `Word`, 2^32 in Go) is needed: a
message carries an id modulo `Word`, so after a wrap the acknowledged id may be that of a
row which does not exist. All runs stay below it.

### Practical 5

`MonolithProofs`:

* `MonolithTypeCorrect`: `Spec => []MonolithTypeOK`;
* `SequencesStayAhead`: `Spec => []SequenceAhead`;
* `OrderAnswersAreTrue`: `Spec => []OrderAnswers`;
* `MonolithIsLedger`: `Spec => MonolithImplementsLedger`.

`CreateOutcome` sums up `DB.Create`: the table is as it was, with an error, or has one new
row whose id nobody had. `RunInv` is what a goroutine knows (the user exists, every line has
the price of an existing item), `StoreInv` that it has stored nothing before `DB.Create` and
answers truthfully after it, `ItemsOwned` that item rows belong to stored orders, so that the
rows of a new order are exactly the ones inserted with it.

`RestProofs`:

* `RestTypeCorrect`: `Spec => []RestTypeOK`;
* `RestAnswersAreTrue`: `Spec => []RestOrderAnswers`;
* `RestIsLedger`: `Spec => RestImplementsLedger`.

Here the invariant relates the slots of three services: a goroutine of the order service
lives only while the process runs and its own call is unanswered (`RunInv`); a 200 for the
user it asked for means that the user is stored, however late it is read (`AskedUser`); the
menu service never answers 200 (`NoMenu`), so no line is ever collected and `orderItems`
stays empty; an answer is true in the slot of the order service and after the gateway has
passed it on (`ToldInv`). `KilledInv` and `QuietInv` treat the crashes, the other lemmas one
process each.

### Practicals 4 and 2

`CafeUIProofs`, for any number of picks and POSTs:

* `CafeTypeCorrect`: `Spec => []CafeTypeOK`;
* `PendingCarriesCart`: `Spec => []CartInv`;
* `CartIsKept`: `Spec => []CartKept`.

`CartKept` is not inductive. `CartInv` adds that a pending POST carries everything in the
cart that was not added after it was sent, so that the answer that clears the cart takes only
picks it carried or that were made while it was pending, and that pending and answered POSTs
have been sent, so that their items no longer change. `ServiceKeepsSent` is what the page needs from the
services: whatever they do, a POST that was sent keeps its items.

`DiscoveryProofs`, for any processes, hosts and requests:

* `DiscoveryTypeCorrect`: `Spec => []DiscoveryTypeOK`;
* `UndisturbedRequestsAreAnswered`: `Spec => []Undisturbed`.

`RouteInv` says that a request that proxies goes to the service of its path on the gateway's
own host, where the serving process listens; `ReadyInv` that the service of a ready request
that is still pending is `Steady`. For this a poll must not take the instance out of the
healthy ones while it listens, although its host may be one that Consul cannot reach:
`CheckInv` says that only instances on reachable hosts ever pass. `SteadyStep` follows every
kind of step that does not disturb a service, `AnswerStep` the answers: one process listens
on a port, so the death of the serving process is that of the listener, and the request is no
longer ready.

### Assumptions and limits

Assumptions: the named ASSUMEs (`Word` even and positive, seeds and requests well-typed,
emails of the seed distinct, `Text` no number, `Joined` and `Reachable` any sets of the
hosts), which TLC evaluates on every run. Each inductive invariant was
checked by TLC on the instance of its run before it was proved.

Only model-checked: liveness under fairness, which is outside the prover's reach
(`CallsEnd`, `HandlersEnd`, `PromisesSettle`, `CatalogFound`, `RequestsEnd`,
`RestartIsFound`, `OutageIsNoticed`, `GatewayAnswers`).

## 6. Not modelled

* `practical5a`: its services are the code of practical 6, and its gateway does not compile:
  it fills `CreateOrderRequest` with `OrderItem` messages and a `uint32` quantity where the
  generated code has `OrderItemRequest` and `int32`.
* The HTTP handlers in the services of practicals 5a and 6, which no route reaches.
* Of the generated protobuf code, the descriptors, reflection and the `Unimplemented`
  servers, which every service overrides.
* The deployment of practical 6: a service that has not started is a crashed one to its
  callers (`RestCafe` does model start order and exits, for practical 5).
* A COMMIT that is still in flight when the answer of a dead process is reported: the order
  would appear later than in the model.
* TLS, logging, metrics; the cluster files and scripts of practical 4; practicals 1 and 3,
  which are texts.

## 7. Plan

Done: every part that has a program of its own is modelled, and what its runs check is
proved, except liveness. What is left:

1. The step properties behind the refinements, as theorems of their own: tables only grow,
   and a request that was answered keeps its answer.
2. Practical 5's two proofs repeat the lemma about `DB.Create`; practical 6's services could
   share their lemmas about slots.
