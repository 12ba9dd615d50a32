# ihavefood in TLA+

This directory holds a formal model of the ihavefood backend: TLA+ modules
translated from the services' source, TLC configurations that check them on
small instances, and TLAPS proofs of the most important results for instances of
any size. `tla/` stands beside `src/`; paths below are relative to the directory
that holds both (`src/src/` has the services, `src/protos/` their interfaces).

    cd tla
    tlc -workers 2 -config Placement.cfg MCOrderPlacement
    tlapm OrderPlacementProofs.tla

`PROJECT.json` lists the runs, says which lines of the source each definition
models, which plausible bug (mutant) each property catches, the hazards the
properties are for, and the places where a run shows that the code does not do
what its own text says.

## 1. The system

A food-ordering platform: six services behind an HTTP gateway. They call each
other over gRPC and publish events to one direct exchange of RabbitMQ. Each keeps its
own store, and no transaction spans two of them.

| component | keeps | operations that change it | talks to |
|---|---|---|---|
| OrderService (Go) | Mongo `orders`, unique index on `requestId` | `CreatePlaceOrder`; status and payment event handlers | calls customer, merchant, delivery, coupon; publishes `order.placed.event` |
| CouponService (Go) | Mongo `coupons`, one document per code | `AddCoupon`, `RedeemCoupon`, clean-up ticker | called by order and web |
| DeliveryService (Rust) | Redis hash per order; Mongo riders (never written) | `main`; consumers of `order.placed.event` and `sync.rider.created`; `report_delivery_status`, `get_delivery_fee`, `tracking_rider` | publishes `rider.*.event`, called by order (fee) and web |
| AuthService (Go) | Postgres `credentials` | `Register`, `CreateAdmin` | publishes `sync.<role>.created` inside the transaction |
| CustomerService (Go) | Postgres customers, addresses | creation from events, address and profile RPCs | called by order, delivery |
| MerchantService (Go) | Mongo merchants | merchant and menu RPCs, consumer of `order.placed.event` | called by order; publishes `merchant.accepted.event` |
| Generated stubs (Rust) | nothing; a router in front of DeliveryService's handlers | decoding, encoding, dispatch of every gRPC call | between clients and servers |
| API gateway (Go) | nothing | HTTP to gRPC, auth cookie | all services |
| Web (TypeScript) | browser state | order button (a fresh `request_id` per click), timer-driven delivery reports | gateway |

What is hard here, and which property is about it (the full list, with lines, is
`hazards` in PROJECT.json):

- *A saga without a coordinator.* `CreatePlaceOrder` takes a coupon in another
  service, inserts an order, reads it back, publishes it, and undoes only the
  insert, in a deferred function, under a context that may have ended.
  Correct means: never two orders for a request, never an announced order that is
  missing, never a coupon unaccounted for, and an order left behind an error only
  for reasons one can name.
- *Retries that overlap their first attempt.* The index on `requestId` is the only
  thing two calls of a request share.
- *Read-compare-write over Redis.* `report_delivery_status` is HGET, a match and
  HSET; riders race. Correct means: a claimed delivery is never offered again,
  progress is lost only through a race, what is announced is backed by Redis, and what
  Redis knows is announced unless one can say what cut the announcement off.
- *One-shot consumer tasks.* The Rust consumer returns on any error and nobody
  starts it again; who declares the exchange first decides whether it can.
- *Stock and clean-up.* A redemption, a top-up (upsert) and a clean-up meet on one
  document. Correct means: nothing is lost, nothing goes below zero, exhausted
  documents disappear.
- *Status events.* Four consumers of OrderService share one queue with automatic
  acknowledgement, the update has no guard, and a store that answers late may apply
  it late. Correct means: a document only shows what was announced for that order,
  nothing is handled twice, one bad message does not block a consumer, and an older
  event overwrites a newer one only through a race of two consumers or a late update.
  Whether that order is also the one of the happy path is up to the publishers, and
  they do not keep it: a rider's report does not wait for the merchant.
- *Registration* over two services and an uncommitted transaction. AuthService
  announces an account before it commits it, and nothing retries or compensates.
  Correct means: an account without a profile, a profile without an account, and an
  email shared by two people each have a reason one can name, and one bad
  announcement stops neither of the services that listen.
- *The same data read twice.* OrderService reads a customer, and DeliveryService reads
  it again to price the way to it; `GetCustomer` itself is two SELECTs. Correct means:
  what is priced has its addresses, and the price is for the address the order
  carries unless that address was changed in between.
- *A limit that is counted, then used.* Concurrent `CreateAddress` calls pass the
  limit of addresses, but not by more than there are calls.
- *A server whose callers leave.* tonic drops the future of a call whose caller is
  gone, between any two awaits, but not the task that `tracking_rider` spawned.
  Correct means: a handler runs at most once, "ok" means that it came to its end, a
  stream that ends well was complete, and the tasks end.

## 2. Modules

| module | models | extends / instantiates |
|---|---|---|
| `Coupon` | coupon documents and the three operations on them | |
| `OrderLifecycle` | abstract: what placing an order promises | |
| `OrderPlacement` | `CreatePlaceOrder`, every call a process, with the coupon service | `INSTANCE Coupon` (composition), `INSTANCE OrderLifecycle WITH` (refinement) |
| `StatusBoard` | abstract: what the consumers of status events promise | |
| `OrderStatusEvents` | subscriptions, queues, handlers and `UpdateOrderStatus` of OrderService | `INSTANCE StatusBoard WITH` (refinement) |
| `Genproto` | the generated messages, enums, clients and servers: what is encoded how, and who understands whom | |
| `Delivery` | consumer, `report_delivery_status`, Redis, exchange | `Genproto` |
| `CallContract` | abstract: what a gRPC call promises its caller | |
| `DeliveryRpc` | the delivery service as a server: start-up, router, `get_delivery_fee`, `tracking_rider`, callers that leave | `Genproto`, `INSTANCE CallContract WITH` (refinement) |
| `DeliveryFee` | the pricing of an order's delivery over three services, and the addresses it is about | |
| `Replication` | abstract: what copying accounts into another service promises | |
| `Registration` | accounts, announcements, profiles over AuthService, CustomerService and DeliveryService | `Genproto`, `INSTANCE Replication WITH` (refinement) |
| `MC*` | constants for TLC | the module they are named after |
| `*Proofs` | theorems and proofs | the module they are named after, `TLAPS` |

### Coupon

`present`, `quantity` and `expiration` are the fields of the documents, `now` is
the clock, and `added` and `used` are history. Every operation is one command on one
document, hence one action. `AddCoupon` is the upsert with `$inc` and `$max`.
`RedeemCoupon` has two disjuncts because `UpdateOne` answers the same whether its
filter matched or not. `CleanUpFilter` has only the half of the `$or` that can
match: the other compares a date with an integer, and Mongo compares only values of
one type. `IsRedeemable` is what `GetCoupon` answers.

### OrderPlacement

A call of the RPC is a member of `Calls`; `pc` is the statement it has reached.
As `toDbPlaceOrder` draws a fresh uuid per call, an order carries the name of the
call that made it, and `orders` is a set of calls. The rest:

| code | action |
|---|---|
| `ValidateStruct` | `Validate` |
| `GetCustomer`, `GetMerchant`, `GetDeliveryFee` (they read; under `context.TODO()`) | `LookUp` |
| `RedeemCoupon` over gRPC, applied and answered / failed before or after it was applied | `Redeem` / `RedeemFails` |
| `storage.Create`: inserted / duplicate key or dead context / cut off, applied or not | `Create` / `CreateRefused` / `CreateCutOff` |
| `GetPlaceOrder` | `GetOrder` / `GetFails` |
| `Publish`: taken / nil but lost / error | `Publish` / `PublishLost` / `PublishFails` |
| the deferred `DeletePlaceOrder`, under the caller's context | `DeleteOrder` / `DeleteFails` |
| the caller hangs up or times out; the process dies | `Cancel`; `Crash` |
| administrators and the ticker of the coupon service | `CouponStep` |

`Faults` says which kinds of failure may happen. `redeemed` and `dbErrors` are
history: which calls took a coupon, and for which a command on the collection
failed. Two external facts are modelled from how the code uses the libraries:
amqp091-go ignores the context given to a publish, and an error of a publish means
the broker does not have the message, while nil does not mean that it does.

`OrderLifecycle` is the promise: per request at most one order is kept, an
announced order is never withdrawn, an "ok" is for good, and a caller who gets an
error learns nothing (`Abandon`, `StoreUnseen`). The refinement mapping reads
`stage` off `orders` and `events`, and `reply` off `pc`.

### OrderStatusEvents

`queue` and `bound` are the broker's, `sub[h]` is how far `Subscribe` has come for
routing key `h`, `buffer[h]` what its consumer was sent and has not handled (the
first message is the one in hand), `status` the field `orderStatus`. A consumer is
named by its key, but the queue is shared by all status keys, so it gets messages of
any of them.

| code | action |
|---|---|
| `QueueDeclare` + `QueueBind`; `ConsumeWithContext`; an error, which is logged | `Bind`; `Consume`; `SubscribeFails` |
| `HandlePlaceOrder` of the merchant service, which sends a bare uuid | `MerchantAccepts` |
| `report_delivery_status`, which sends a protobuf message, merchant or no | `RiderReports` |
| the keys nobody in the repository publishes: any body, any order, repetitions | `OthersPublish` |
| the broker sends to one of the consumers and forgets (auto-ack) | `Deliver` |
| one turn of the handler's loop that updates / that ends in `continue` / whose update returns an error: applied, still to come, or never | `Handle` / `Discard` / `UpdateFails` |
| Mongo applies an update nobody waits for any more | `ApplyLate` |
| the connection breaks (nothing reconnects; exclusive queues go); what amqp091-go had buffered | `Disconnect`; `DropRest` |
| the process starts again; updates under way may reach Mongo yet | `Crash` |

The two publishers under `src/` are actions of their own, each with the one key and the
body it has. Neither waits for the other: the merchant's acceptance comes ten seconds
after the order, a rider may report before. Neither sends what the handlers read, a JSON
string; so at this commit every status event is discarded
(`PublishersAreUnreadable`, section 4). `OthersPublish` stands for whoever publishes
`rider.finding.event`, `rider.delivered.event` and `order.paid.event`, which the code
subscribes and nobody in it sends; only those can carry an `id`. What happens to a
readable event is checked with them, under the assumption of no order at all.

The payment handler is the same loop; it discards every message, because it waits
for a key its queue is not bound to, so `UpdatePaymentStatus` is never reached and
payments have no variable. `NewStatus` keeps the numbers of the wire (`pb.OrderStatus`),
which the code casts to `dbOrderStatus`, whose numbers differ. The timestamps that
`UpdateOrderStatus` writes beside the status are left out. `applied` and `writer` are
history. An order is in the collection or not (`Absent`) from the start: placing
orders is `OrderPlacement`'s subject.

`StatusBoard` is the promise without queues and consumers: an announcement shows its
own status for its own order, once or not at all, and no order comes into being. An
announcement is `open` as long as it is in a queue, in a buffer or with a store that is
late (`Waiting`); a message that is discarded or whose update was not applied is `Lose`, and a crash that
empties every buffer is one `Lose` of many. `Says` is what an event announces:
nothing if its body cannot be read or its key is the payment's. The promise has no
order among the announcements, because the code keeps none.

### Delivery

`status` is the Redis field, `exchange` how the broker knows `my_exchange`
(declared durable by `subscribe` and by the Go services, not durable by
`publish`), `queue`/`consumer`/`current` the task of `run`. A report `r` reads
(`Read`, which includes the `match`), writes (`Write`) and publishes (`Announce`).
`Place` is `CreatePlaceOrder`
announcing an order, in the one body it has; `OthersPlace` is a publisher of the body
`events.proto` declares, of which the repository has none; `OthersDeclare` is a Go
service declaring the exchange.
`Publish` always ends in an error, as in the code: either the declaration is
refused, or the message leaves and the confirmation is `NotRequested`, for which
`is_ack()` is false because the channel is not in confirm mode. `Restart` loses
the task and the reports in flight; the queue of the old process had a server-given
name and is not read again. `DropReport` is a caller who hangs up: tonic drops the
future where it waits, after the write and before the publish, say. `StreamEnds` is the
end of the task's stream of messages, or its `unwrap` of an error. `silenced` is history:
the orders of reports that wrote, or may have written, and whose event never left. The body of an
`order.placed.event` is named after the message it encodes, `OrderPlacedEvent`
(what `events.proto` declares) or `PlaceOrder` (what OrderService sends), and
`Genproto!Decodes` says what the task can read: not the second, for which it dies.

### Genproto

Data and three questions. A message is a set of fields with tag, wire type and
declared type; `Schema` is all of them by name. `Decodes(written, read)` is prost's rule:
a tag both sides know must have one type, other tags are skipped. `Getter` is the
getter of an enum field, which reads an unknown number as the first name. A method
is what its request and reply are encoded as and whether the reply streams; the
tables of the clients and of the servers are translated from different functions of
the generated file, and the assumption `ClientsMatchServers`, evaluated in every run
that uses the module, says that they agree. `Speaks` is that agreement for one
method.

### DeliveryRpc

A call has two ends: `client[c]` is what its caller knows, `server[c]` where the
future stands. `task[c]` is what `tracking_rider` leaves behind, `sent`, `buffer` and
`got` count the locations on their way through the channel.

| code | action |
|---|---|
| `main`: start; a turn of `init_customer_client` or `init_merchant_client` that connects / does not; the process ends | `Start`; `DialReaches` / `DialFails`; `Crash` |
| a stub is called; the caller gives up or is cut off; h2 tells the server | `Call`; `HangUp`; `Reset` |
| the arms of `DeliveryServiceServer::call`: unary, streaming, no such path | `DispatchUnary`, `DispatchStreaming`, `DispatchUnknown` |
| `report_delivery_status` (`Delivery` has its inside) | `Report` |
| `get_delivery_fee`, one step for each answer it waits for | `AskCustomer`, `CustomerAnswers`, `MerchantAnswers`, `AskFails` |
| the spawned task: the sleep; a `send` that has room; a `send` without receiver | `Wake`; `Push`; `PushFails` |
| tonic takes a location off the channel; the channel is empty and closed; the answer arrives | `Pull`; `EndStream`; `Reply` |

`get_delivery_estimate` is in the generated trait, but not in `impl DeliveryService`:
the crate at this commit does not compile. `Implemented` leaves the method out, and
`DispatchUnknown` is what a build of either half answers for it.

`CallContract` is the promise: the handler runs at most once, "ok" only after it came
to its end, "refused" only when it never ran and never will; "failed" says nothing. The
mapping reads `known` off `client`; a handler that begins after its caller has left
is allowed, and happens.

### DeliveryFee

`customers`, `owner`, `content` are the tables of CustomerService, `issued` the
uuids drawn so far, `creating`/`counted` the calls of `CreateAddress` at work, and
`pc`, `customer`, `wanted`, `located`, `carried`, `quoted`, `fee` an order on its way
through `prepareNewOrder` and `get_delivery_fee`. Every SELECT is a step of its own:
the customer's row and its addresses in OrderService's call (`OrderReadsRow`,
`OrderReadsAddresses`), then again in DeliveryService's (`FeeReadsRow`,
`FeeReadsAddresses`). `wanted` is an id that has been issued to somebody: the web
client sends what it was shown. `moved` is history. The database's foreign key and its
`ON DELETE CASCADE` are in `Insert` and `DeleteCustomer`.

The distance does not depend on the address: `fake_geocode` draws a random point
(`FakeGeocode`, in hundredths of a degree). Near the equator, where it draws, the
haversine formula is the plane one to within a metre or so; `Distances` are
the whole metres between two such points and `Fee` is `calc_delivery_fee` with its
rounding. Everything that can go wrong on the way is in `OrderFails`.

### Registration

An account is named after the call that makes it. `pc` is where `Register` or
`CreateAdmin` stands, `accounts` the committed rows, `profiles` the rows of
CustomerService, `queue[s]` and `consumer[s]` the announcements for a service and the
task that reads them.

| code | action |
|---|---|
| `Register`: validation and `CreateTx` / refused | `Insert` / `RegisterRefused` |
| `dispatchCreation`: sent or lost / "invalid role" or an error | `Dispatch` / `DispatchFails` |
| `Commit` / its error, applied or not; the process dies | `Commit` / `CommitFails`; `AuthCrash` |
| `CreateAdmin` | `CreateAdmin` |
| `Subscribe`, `run`; the connection breaks; a service starts again | `Subscribe`; `Disconnect`; `Restart` |
| `HandleCustomerCreation`: inserted / unique index / other error | `CreateProfile` / `ProfileClashes` / `ProfileFails` |
| `handle_rider_created` (which stores nothing) | `HandleRider` |
| `DeleteCustomer` | `DeleteCustomer` |

The unique index on `credentials.email` makes an insert wait for open transactions
with the same email (`Waits`). `suffix` stands for the last four digits of the uuid,
of which CustomerService makes the default username. `broken`, `lost`, `clashed` and
`deleted` are history: the reasons for what is missing or left over.

`Replication` is the promise: an account is for good and its email its own; it is kept
only after its copy was ordered; the copy is ordered once, arrives at most once, and
never comes back when it is gone. The mapping takes committed accounts for `kept`,
customers for `copied`, and reads `copy` off the queue, the profiles and the history
(`CopyOf`: coming, there, gone, or none yet). A disconnection or a restart that loses
several announcements is one `Vanish`. It promises neither that a copy arrives nor that
it has an account: AuthService can promise neither, as it announces before it commits.

## 3. Runs

| run | instance | shows |
|---|---|---|
| `coupon` | 2 codes, 3 coupons each, 3 hours, `expire_in_hour` in {-1, 0, 2} | no coupon lost or invented; a top-up never shortens a life; exhausted documents disappear |
| `placement` | 2 calls, 2 requests, 1 code with up to 2 coupons, every fault | `OneOrderPerRequest`, `AnnouncedIsStored`, `BooksBalance`, `FailedLeavesNoOrder`, `OneOkPerRequest`, the refinement of `OrderLifecycle`, and `CallsFinish` |
| `delivery` | 2 orders, 2 reports with any target, both bodies, every fault | announcements follow Redis, and Redis is announced but for a reason (`SilenceHasAReason`); regress needs a stale read; a claimed order stays claimed |
| `status` | 1 order, 3 keys (2 on one queue), 2 events in any order and bodies, every fault | `StatusIsAnnounced`, `AtMostOnce`, `StaleWriteNeedsARace`, the refinement of `StatusBoard`, and `ReceivedIsTaken` |
| `rpc` | 2 calls of any of the 4 methods, 3 dials, 3 locations, a channel of 2 | `CompleteStream`, the refinement of `CallContract`, and `TrackersEnd`, `StartupSettles` |
| `fee` | 1 order, 2 calls of `CreateAddress` at a time, 2 customers, 3 ids, limit 1 | `PricedHasAddresses`, `MisquoteNeedsUpdate`, `LimitIsNearlyKept` |
| `registration` | 2 calls of any role, 2 emails and a malformed one, 2 suffixes, every fault | `MissingIsExplained`, `OrphansHaveAReason`, `EmailIsOnePersons`, `DeletedStaysDeleted`, `RiderTaskSurvives`, the refinement of `Replication`, and `QueuedIsHandled` |
| `placement_orphan` | 1 call, the caller may give up | **violated**: the cleanup leaves the order |
| `placement_retry` | 2 calls of one request, no fault | **violated**: each takes a coupon |
| `delivery_accept` | 1 order, 2 reports, no fault | **violated**: two riders accept one order |
| `delivery_notify` | 1 order in the declared form, fair task, no fault | **violated**: the task dies publishing, on the exchange's options |
| `status_regress` | 1 order, 2 keys, 2 readable events in the order of the happy path, no fault | **violated**: the later status is overwritten by the earlier |

*Bounds.* The hazards of OrderPlacement are between two calls: a retry and its first
attempt, or two calls for the last coupon. Two calls over two requests and one
optional coupon cover same request / different request and both / one / none with
a coupon; the initial state takes every combination. The proofs need no bound, so the
runs are kept small enough to check the temporal properties too. `MaxStock`
bounds how many coupons are ever added, `MaxTime` the clock; neither cuts off a
redemption or a clean-up. Delivery's races are between two reports and the consumer;
two orders show that they do not disturb each other. Nothing limits the number of
restarts there. In Delivery an order is announced once, as in the code (one publish
per order).

In OrderStatusEvents two events are the fewest that can overtake each other. Of the four
status keys, which share the queue and behave alike but for their numbers, the run
subscribes the two that can carry a readable body; a fourth subscription is out of
TLC's reach, and events of the keys left out find no queue. The proofs take any keys.
Orders do not interact, so one is checked and the proofs take any number. `MaxEvents`
bounds what is published, never what is delivered or handled.

DeliveryRpc's numbers in the code are five dials, five locations and a channel of
four. What matters is that the channel is smaller than the stream, so that the task
waits for room, and that there is more than one of each; three, three and two keep the
liveness check small, and the proofs are for any. Two calls show that they do not
disturb each other.

DeliveryFee's limit is five in the code and one in the run, so that the two concurrent
calls reach and pass it with three ids; the proof takes any limit and any number of
calls. Points are drawn from the corners of the square only: they are 0, 22 or 31
kilometres apart, so that both a fee and the refusal of `calc_delivery_fee` occur.
`AddressIds` bounds how many addresses are ever inserted. Creates, customers, ids and
contents are symmetric; only invariants are checked under symmetry.

In Registration two calls are the fewest that can share an email or a username, and
one of them can break before the other begins. Nothing limits restarts and
disconnections.

*Deadlock* is checked in the passing runs. The violation runs for Delivery without
restarts, and for OrderStatusEvents without
faults, stop when all is done, so they say `CHECK_DEADLOCK FALSE`. So does `fee`:
when every customer is deleted, nothing is left to do.

*Fairness.* `Coupon!Spec` has weak fairness of `CleanUpCoupons`: a ticker drives
it as long as the process runs. `OrderPlacement!FairSpec` has weak fairness of a
call's steps from `storage.Create` on: Mongo commands end after 30 s
(`SetTimeout` in `orderservice/main.go`), and a dead broker connection by its
heartbeat. Nothing is assumed of the lookups, which have no deadline; so
`CallsFinish` starts at the insert. `OrderStatusEvents!FairSpec`
has weak fairness of each handler's loop: an update ends after those 30 s too, and
nothing else can hold a handler. `Delivery!FairSpec` has weak fairness of the
consumer task (tokio polls it) and is used only to make a counterexample count.
`DeliveryRpc!FairSpec` has weak fairness of dialing (a dial is answered, refused, or
times out), of the tracking task (a tokio timer and a `send`) and of the reply stream,
which tonic polls whether or not the caller reads: the locations are empty messages,
far below a flow-control window. Nothing is assumed of callers, of other services, or
of a started handler. `Registration!FairSpec` has weak fairness of
`HandleCustomerCreation` returning, with or without an error of a unique index; no
fault is needed to move on.

## 4. Proofs

For arbitrary constants and any `Faults`, except the theorems marked *conditional*:
their assumption describes a system with fewer failures, publishers or concurrent
calls than there may be, and together with a violation run they say what that violation needs. Five
kinds of result:

- *Invariants*: `Spec => []Inv`. `Inv` is seldom inductive; the strengthening is named
  below.
- *Action properties*, from the same invariants.
- *Refinements*: each of the four abstract modules is implemented. Initial states map to
  initial states, every step to a step or a stutter, one lemma per group of steps.
- *Conditional* theorems, the counterparts of the violation runs.
- *Halves of liveness*. That a step is taken at all under fairness needs `ENABLED`; that
  each such step makes progress and that no other step undoes it does not, and is
  proved for every instance: `CallsMoveOn`, `BuffersMoveUp`, `TrackersMoveOn`,
  `DialingIsBounded`, `QueueMovesUp`.

### CouponProofs

Types, `StockConserved` and `ExpirationNeverShortened`. `TypeOK` and the balance
together are inductive: `CleanUpFilter` only removes documents whose quantity is 0
because a quantity is a natural number.

### OrderPlacementProofs

`OneOrderPerRequest` and `AnnouncedIsStored` are not inductive: nothing in them says
that an order is inserted once or that only an unannounced order is deleted. `PlaceInv`
adds where a call must stand: no order before its insert, an order while it is read,
published or cleaned up, and an event only for a call that is over with "ok". `IInv` is
the conjunction; `OneConfirmation` (one "ok" per request, however often it is repeated)
follows from it. `BooksAlwaysBalance` uses `BooksInv`: a call that has taken a coupon is
past the redemption, so its second take cannot be confused with the first, and only
finitely many have. `OutagesLeaveNoOrphan` follows from `PlaceInv` and from the charges
(`cancelled`, `dbErrors`) never being dropped. `Refinement` is that of `OrderLifecycle`;
`DeleteFails` and `Crash` are `Abandon`, a cut-off insert is `StoreUnseen`.

- *Conditional on no failing command and no caller giving up*: `OnlyStoreOrCancelOrphans`
  (the deferred delete deletes) and `ErrorsMeanNoOrder` (no failed call has an order).
  Neither a crash nor a lost publish is excluded. With `placement_orphan` this says
  exactly which faults leave an order behind an error.
- *Composition*: `CouponServiceRuns`. Seen from the coupon variables, the composed system
  only takes steps of `Coupon!Next`; the proof needs `BooksInv`, because a call redeems
  only a code it carries. Theorems of `CouponProofs` cannot be cited through the named
  instance `CouponService` (the prover does not carry lemmas through one), so what
  follows for the composed system is not stated as theorems of its own.
- `CallsMoveOn`: `Stage` grows with each of a call's own steps, and is at most 7.

### DeliveryProofs

`EventsAreBacked`, `SilenceIsExplained`, `ClaimedStaysClaimed` and `RegressNeedsARace`.
The first and the third need to
know that a message in the queue is about an order Redis does not have yet (`QueueInv`:
an order is announced once, each queued order once) and that a report about to write
read a status its target goes beyond (`WriteInv`).

- *Conditional on no fault*: `OnlyTheExchangeSilences`. The event of a rider Redis knows
  of is then on its way, or missing because `my_exchange` is durable, as every Go service declares it.
- *Conditional on the bodies OrderService really sends* (no `OrderPlacedEvent`):
  `NobodyIsNotified`. No rider is looked for, and an order unknown to Redis stays
  unknown, so that nobody can report on it either. `Deaf` is the invariant: a message
  that is taken ends the task.

### OrderStatusEventsProofs

`RegressNeedsARace` is the hard one: that a handler never writes an older event of an
order over a newer one of its own depends on everything in its way. `LineInv` says that
buffers and queues are in order of publication, a buffer in front of its queue;
`LateInv` that an update the store is late with is ahead of what its handler has in line;
`WriterInv` that a document holds what its last writer's message announced, and that
this message is before all that writer has in line. Nothing is assumed of the
publishers: it is their order that is kept, whichever it is.

- *Conditional on an order's events having been published in the order of the happy path*,
  in the formula itself: `HappyPathRegressNeedsARace`. Its status then goes back only
  through a race or a late update. No publisher waits for another, so without the
  condition a single handler may take a status back as well. `status_regress` shows that
  the race is real even under the condition.
- *Conditional on nobody else sending an id*: `PublishersAreUnreadable`. With the bodies of
  the merchant and the delivery service alone, no order ever changes its status.
- `KeepsTheBoard` is the refinement of `StatusBoard`. Increasing buffers and queues
  (`LineInv`) make a message that is taken disappear from everything that is open.
  `NoOrderAppears` is then derived from `Board!Spec` alone: `UpdateOne` is no upsert.
- `BuffersMoveUp`: a turn of the handler brings every message of its buffer forward by
  one, the unreadable ones too.

### DeliveryRpcProofs

`StreamInv` says where the locations are: while a caller waits and the server streams,
what it has got and what is in the channel make up what was sent, and a task that is
over has sent all of them. `EndsInv` ties the two ends of a call to its handler (a
caller with an "ok" has a server that is done, and so on); without it, "refused" could
be followed by a late dispatch. With both every step is a step of `CallContract` or a
stutter (`KeepsContract`), and `AnswersAreTrue` says what an answer tells its caller.

- `UnroutedIsNeverServed`: a method without an arm never runs; `get_delivery_estimate` is
  one.
- `TrackersMoveOn`: `Work` counts what is left of the sleeps, sends and pulls; no other call,
  no caller and no crash adds to it. `DialingIsBounded`: `Turns` counts those of
  the two dialing loops.

### DeliveryFeeProofs

`PricedHasAddresses` and `MisquoteNeedsUpdate` rest on `WayInv`: an issued id never gets
another owner, so an address that is there at the second reading was there at the
first, with this content unless the order is in `moved`. `LimitIsNearlyKept` rests on
`RoomInv`: the addresses of a customer and the inserts that have passed the check are
together at most the limit, less one, plus the number of concurrent calls.
`ClampIsIdle`: `clamp(10, 50)` never changes a fee within 25 km.

- *Conditional on one call at a time*: `LimitKeptAlone`, the limit itself.

### RegistrationProofs

`ClaimInv` (an email belongs to at most one account or open transaction), `ValidInv`
(only valid emails are announced) and `TellInv` (a customer's account is committed only
after its announcement went somewhere) with `OrphansHaveAReason` are inductive together.
`Hears` abstracts the listening services: whatever they do, nothing appears that was not
announced, and nothing is lost without a trace; so the proof treats them in one case.

- `OnceInv` says that what is told of a customer is in one place: in the queue, once, or
  among the profiles, or gone, and nowhere before it is announced. `DeletedStayDeleted`
  is a part of it, and `Replicates`, the refinement of `Replication`, needs all of it.
- *Conditional on no failing statement and no restart*: `AuthIsTheSource`. Every profile
  and every announcement has its account, or one about to be committed, and nobody
  shares an email; the broker may lose what it likes.
- `QueueMovesUp`: places in the queue only get better.

### Only model-checked

`ExhaustedIsCleared`, `CallsFinish`, `ReceivedIsTaken`, `TrackersEnd`, `StartupSettles` and
`QueuedIsHandled` are liveness under fairness, which needs `ENABLED` and is out of the
prover's reach; for the last five the bounded and irrevocable progress they rest on is
proved, as above. So are all the violations: each is one behaviour of one instance.

## 5. Where code and text disagree

Five are runs (section 3, *violated*; `findings` quotes the lines). Others met while
modelling, which no run repeats:

- A coupon taken by a call that fails later is not given back, although
  `couponservice.proto:38` says it is redeemed after payment. `BooksBalance` only
  says that such coupons are accounted for.
- Every report is announced as `rider.assigned.event` (`delivery_impl.rs:281`);
  `events.proto:23,25` give pickups and deliveries their own events.
- `publish` of the Rust service returns an error even if the broker took the message
  (no confirm mode), so a report that took effect is answered with an error.
- OrderService publishes a bare `PlaceOrder` (`order.go:134`); DeliveryService decodes an
  `OrderPlacedEvent` (`event_impl.rs:183`) and MerchantService decodes JSON. Neither
  understands it, so the happy path in `events.proto:10-27` stops at its first arrow. No
  run repeats it because `NobodyIsNotified` proves it of every instance;
  `delivery_notify` starts from the form `events.proto` declares, to show what stops the
  task once the body is right.
- The payment handler waits for `customer.paid.event` on a queue bound to
  `order.paid.event`.
- `DELIVERED` is 6 on the wire and 4 in the documents; the handler stores 6 and
  `UpdateOrderStatus` compares with 4, so `completeTime` is never written.
- `ListPlaceOrders` filters on a field no document has.
- `create_rider` builds an insert and never awaits it: no rider is ever stored.
- The clean-up of coupons compares the expiration date with an integer
  (`couponservice/main.go:112,124`), so expired coupons with stock left stay for good;
  `ExhaustedIsCleared` is what is left of its job.
- `RedeemCoupon` answers OK when its filter matched nothing (`storage.go:112`), so an
  order may carry a discount that used up no coupon.
- `fake_geocode` says that its points are "safely below 25km" apart
  (`delivery_impl.rs:365`); the diagonal of its square is 31 km (`Distances`), so a few
  legal orders get no fee.
- The fee of two calls for one order differs, because the points are drawn anew.
- The total of an order leaves out its delivery fee.
- The default username is "customer" and four hexadecimal digits of the uuid, under a
  unique index: two customers with the same four digits, and the later has no profile.
- `UpdateCustomerInfo` passes two arguments for three placeholders and always fails.
- `get_delivery_estimate` is in the generated trait and not in the implementation.

## 6. What is left out, and why

The plan is done but for what follows. Each of these could only be modelled by
saying less than the code does, or has nothing that several steps could get wrong.

- *The happy path as a whole* (`OrderFlow` in the first plan). Its first arrow is
  broken: no service can read what OrderService publishes. A composition of
  `OrderPlacement`, a merchant, `Delivery` and `OrderStatusEvents` would consist of
  steps that cannot happen. What comes after is modelled from the events on. The status
  events that are sent cannot be read either (section 4, `PublishersAreUnreadable`); so
  the readable bodies of `delivery_notify` and `status_regress` have no publisher in
  this repository, and those runs say what waits behind the wrong bodies.
- *Sums and prices*: `calcFoodCost`, the total, `expire_in_hour`, the 32-bit stock. Each is
  one expression; no text of the repository bounds the numbers, and where they wrap is a
  hazard without a property (`hazards`).
- *MerchantService*: menus and store status are single-document commands; its
  consumer drops every message. Other services need only its `GetMerchant`, which
  may answer or fail.
- *Login, ListCustomers, ListOrderHistory, GetCoupon's list*: they only read. Token
  signing and password hashing are library code.
- *UpdateCustomerSocial*: writes three fields that nobody else reads.
- *The gateway* keeps no state; *the web client* appears as the callers of the services.
- *`google.protobuf.rs`, `google.api.rs`, the OpenAPI options*: `main.rs` includes
  `ihavefood.rs` only, so they are not part of the program. In `ihavefood.rs`, the
  builder methods for compression, message sizes, origins and interceptors are left
  out: nobody calls them.
- *The SQL store* is commented out; *the delivery service in Go* is superseded and not
  deployed.
- *`init_redis_pool`, `init_amqp_conn`, `init_mongo_db`*: when one fails `main` ends
  before it dials; in `DeliveryRpc` this is a `Start` that does not happen.
