# BookyWooks online store: TLA+ models, checks and proofs

BookyWooks is a .NET book store built from services that talk over RabbitMQ with
MassTransit. A customer's order is accepted by the Order API, announced by a
hand-written outbox, turned into a saga instance, checked against the stock of the
Catalogue and finally paid for. This directory models that path: the code whose
correctness depends on the order of commits, sends and crashes and not on any single
method.

Paths below are relative to `src/`. `ORDER/` is `BookWooks.OrderApi/src/`.

## 1. Inventory

### 1.1 The parts and how they interact

```
 customer ──HTTP──> Order API ──OrderCreatedMessage──> SagaOrchestration
                    (orders,     create-order-message-   (state machine,
                     outbox)      queue                   inbox, outbox)
                        ^                                   │        ^
                        │                 CheckBookStock    │        │ StockConfirmed,
                        │                                   v        │ StockReservationFailed
                        │                                 Catalogue API
                        │                                 (Products table)
                        └──CompletePayment── SagaOrchestration
                           complete-payment-command-queue
```

| Component | State it keeps | Operations | Correct when |
|---|---|---|---|
| **Order outbox** (`ORDER/…UseCases/Orders/Create`, `…Infrastructure/Data/BookyWooksOrderDbContext.cs`, `…Common/Processing/Outbox`) | `Orders` and `OutboxMessages` tables; the batch a Quartz job holds in memory | `CreateOrderCommandHandler`, `SaveEntitiesAsync`, `ProcessOutboxJob`/`ProcessOutboxCommandHandler` every ten seconds | an order that is stored is announced, nothing else is, a row is retired only after its send, the number of duplicates has a cause |
| **Catalogue stock reservation** (`BookyWooks.Catalogue.Api/Consumers`, `Data/DatabaseExtensions.cs`) | `Products.Quantity`; entities tracked in one consume scope | `CheckBookStockCommandConsumer`, seeding at start | a basket is taken whole or not at all, quantities never go below zero, the saga hears only of what was saved |
| **Order saga** (`SagaOrchestration/`) | saga instances, MassTransit inbox and outbox tables | `OrderCreated`, `StockConfirmed`, `StockReservationFailed`; commits, delivery, duplicate detection | one instance and one outcome for an order, redelivery has no second effect, an instance has its command sent |
| **Payment inbox** (`BookyWooks.Messaging/MassTransit/InboxConsumer.cs`, `…Consumers/CompletePaymentCommandConsumer.cs`, `CommandScheduler.cs`) | `InboxMessages`, `InternalCommands` tables | consume one copy of `CompletePayment` | a payment command is never lost; a redelivery is harmless |
| **Internal commands and order handlers** (`…InternalCommands`, `…UseCases/Orders/*`, `RepositoryBase.cs`, `Order.cs`) | `InternalCommands`, `Orders`, the change tracker of a scope | process a batch with retries, approve, fulfil, cancel | a paid order is approved, an unpaid or cancelled one never, a passing error is not final, every command gets an outcome |
| **Read cache** (`BookyWooks.SharedKernel/CacheServiceExtensions.cs`, `ReadRepositoryDecorator.cs`, `…Infrastructure/Caching`) | Redis entries | get-or-set around the repository reads of two queries; commands write the table past it | orders are shown only as the table held them while the query ran, and reported missing only when they were; an entry is the result of its own query, an order that exists is shown |
| **Client validation** (`ORDER/…Web/wwwroot/lib`: `jquery.validate.unobtrusive.js`, `jquery.validate.js`) | rules and messages of inputs; one validator for each form with its pending requests | parse an input, edit, check, submit, reset, answer of a remote rule | no declared limit is dropped silently, a value is accepted only after every rule, an empty required input is refused as missing, a form is sent only with values every rule accepts, a submit that waits for answers is not forgotten |
| Order validation (`ORDER/…Core/OrderAggregate`) | none | construction of orders, items and value objects | only valid orders reach the table |
| Product vector synchronisation (`ORDER/…Infrastructure/AiServices`) | a vector collection | a daily loop over products | one product's failure does not stop the others |
| MediatR pipeline, result pattern, message contracts, logging | none | wrap handlers, carry data | — |
| AI search, MCP server, Identity server, API gateway, web endpoints, redirect scripts | none of their own | HTTP, templates, routing | — |

`PROJECT.json` lists every component with its sources and status.

### 1.2 What is hard here

* **Two writes that are not one.** The outbox job sends and then saves; the Catalogue
  saves and then publishes; the saga commits its instance and its outbox in two
  transactions; the payment consumer writes its inbox row and its command in two
  DbContexts. Each pair can be cut in the middle.
* **At-least-once everywhere.** A batch that is cut short repeats its sends; the broker
  redelivers what was not acknowledged; the Catalogue has no inbox at all.
* **Read, decide, write later, without a token.** No table has a concurrency token, so a
  later write wins over what was committed since its read: in the Catalogue, in the saga
  instance and in the order handlers.
* **In-memory state that outlives a failure.** Tracked entities of a failed attempt stay in
  the DbContext of the retry.
* **Restart.** Quartz' store is in memory, Development starts clear and seed tables while
  messages of the previous life are still queued.
* **A cache nobody invalidates.** Fills overlap with writes and with each other, and what a
  hit returns went through a serializer.
* **Late answers in the browser.** A remote rule leaves its field pending while the user edits,
  submits and resets; answers come in any order, or not at all.

`PROJECT.json` `hazards` gives each at the line where it bites and the properties that watch it.

## 2. Plan

The order follows the path of an order, most important first.

| # | Modules | Abstract specification | State |
|---|---|---|---|
| 1 | `OrderOutbox`, `MCOrderOutbox`, `OrderOutboxProofs` | `OrderDelivery`: at-least-once delivery of accepted orders | done |
| 2 | `StockReservation`, `MCStockReservation`, `StockReservationProofs` | `StockLedger`: one atomic decision on a whole basket | done |
| 3 | `OrderSaga`, `MCOrderSaga`, `OrderSagaProofs` | none: its promises are the invariants | done |
| 4 | `PaymentInbox`, `MCPaymentInbox`, `PaymentInboxProofs` | `OrderDelivery` again: sent, scheduled, acknowledged | done |
| 5 | `InternalCommands`, `MCInternalCommands`, `InternalCommandsProofs` | none: a failed command may have approved part of its orders, so no atomic step stands for it | done |
| 6 | `ReadCache`, `MCReadCache`, `ReadCacheProofs` | none | done |
| 7 | `ValidationAdapters`, `MCValidationAdapters`, `ValidationAdaptersProofs` | none | done |
| 8 | `ClientForm`, `MCClientForm`, `ClientFormProofs` | none | done |

Left open: `OrderValidation` and `ProductSync`, since both are stateless or sequential and a unit
test reaches what they do; and a composition of 1 to 5, whose parts already meet at their
queues: each module lets its neighbours send, duplicate and answer at any time the code allows, so
a composition would only narrow what each of them does.

Every invariant that a run checks is also proved, and so is the safety half of every refinement
(section 4). What is left to TLC is liveness.

Modules declare their parameters as `CONSTANTS` with named assumptions and use no
`RECURSIVE` operator, so that each can be proved about. Every module also holds, next to a
definition, the variants of it that the properties are tried against; their comments begin
with *Mutation*. They are not part of any specification.

## 3. Module by module

### 3.1 `OrderOutbox`

| In the model | In the code |
|---|---|
| `request[o]`, `occurredOn[o]` | how far the handler of one HTTP request is; `DateOccurred` of the order's event |
| `outbox[o]` | the row of the order in `OutboxMessages`: absent, `ProcessedDate` null, or set |
| `relay[r]` | the job of one process: rows still to send, rows attached as modified |
| `sends[r][o]`, `faults[r]` | history: what reached the broker, how often a batch was cut short |
| `CreateOrder`, `SaveOrder`, `RequestFails` | `Order.CreateOrder`; the one `SaveChanges` of order and row; an error or crash before it |
| `ReadBatch`, `SendNext`, `SaveMarks` | the query, one turn of the loop, the save at its end |
| `SendFails`, `SaveMarksFails`, `CrashRelay` | exceptions (with and without the effect having happened) and the death of the process |

Clocks may tie and go back: `occurredOn` is any member of `Times`. A relay is one process;
the job is `[DisallowConcurrentExecution]` in a RAM job store, so one relay runs one batch
at a time, but two processes know nothing of each other. The deployed configuration has one
(docker-compose gives the service a fixed container name).

Run. `outbox`: two processes, two orders, two clock values, two failures for each process. Two
processes read the same rows and overlap in every way, and a batch can be cut short twice, so
that a row is sent again by the process that lost its mark and by the other one. Two orders are
enough for a sent and a waiting row in a batch that is cut short, and for two rows whose times
invert the order of their requests or tie; no property relates three rows. The run checks the invariants together with
liveness, every stored order is eventually marked, and with the refinement: the whole
implements `OrderDelivery` with its own fairness.

Fairness: weak fairness of a relay's steps. The trigger repeats forever and a failed run does
not unschedule the job; requests and faults have none. `MaxFaults` bounds failures, so
liveness says that the outbox recovers once failures stop.

### 3.2 `StockReservation`

| In the model | In the code |
|---|---|
| `stock[p]` | column `Quantity` |
| `work[k]` | one consume scope: its line, the entities it tracks (`tracked`, `left`), what it took |
| `sent`, `waiting` | copies of a command the queue received and holds |
| `granted`, `saves`, `confirmed`, `rejected`, `faulted` | history of the committed saves and of the answers |
| `CheckLine`, `MissingProduct` | one turn of the loop: `Find`, the comparison, the subtraction; `Find` returned null |
| `Save`, `PublishConfirmed`, `PublishFailed` | the rest of `Consume` |
| `SaveIsRetried`, `SaveFails`, `PublishThrows` | `EnableRetryOnFailure` after a commit that happened; a save or publish that throws, with or without its effect |
| `Restart` | the process dies: unacknowledged commands are queued again; in Development the table is seeded |

`Find` returns the tracked entity on a second line of the same product, and the save writes
absolute quantities: `Quantity` and `Write` are exactly that, and the model's lost updates
are the code's. Product has no concurrency token and the endpoint neither inbox nor retry.

Runs. `stock_concurrent`: two consumers, one basket with a repeated product and one with two
products, stock for less than both, every command sent up to twice, one failure, Development:
quantities stay non-negative, what was written and not granted is covered, grants are whole
baskets, no command is lost. `stock_serial`: one consumer, four baskets (also one unit of the scarce product and one with a
missing product), tables that survive: stock and grants add up, the loop implements the atomic decision of
`StockLedger`, and every command is settled. Two properties hold only `Undisturbed`, that is with one
message at a time and no seeding: with two consumers the later write gives back what the
earlier took, and customers can be promised more than there was. The hazard list records this;
no document of the repository claims otherwise. What remains true with two consumers is
checked by `stock_concurrent` and proved for any number of them.

`Demand`, what a basket asks for of a product, sums over the lines of that product (`LinesOf`) with the folds
of the community modules, and so does `GrantedIsDemand` over the commands.

Fairness: weak fairness of a consumer's steps, as the endpoint takes what waits and every
call returns or throws. A retry after failure is bounded by `MaxFaults`.

### 3.3 `OrderSaga`

| In the model | In the code |
|---|---|
| `state[i]`, `creator[i]` | `CurrentState` of an instance; its `OrderId`, with the message that made it as history |
| `inbox[m]`, `outbox[m]` | the `InboxState` row and the `OutboxMessage` rows of a message |
| `broker[m]`, `work[w]` | where a message is; what a worker holds in memory |
| `Handle`, `RejectEvent`, `Resume` | the inbox lookup and the state machine in memory; an event its state does not handle; a message whose inbox row exists |
| `StoreInstance`, `CommitOutbox` | the two commits |
| `SendOutbox`, `MarkDelivered`, `Acknowledge`, `ForgetDelivered` | delivery from the outbox, its mark, the acknowledgement, duplicate detection window |
| `CommitFails`, `Restart` | a commit, a send or the mark that fails, after which the message is in the error queue with what is already stored; the death of the process |

The handlers, their states and their outputs are the repository's; the inbox, the outbox and
the saga repository are MassTransit's and are modelled from the way `SagaOrchestration/Program.cs`
configures them (`UseEntityFrameworkOutbox`, the `AddDbContext` of the repository) and from what
`SagaOrchestration/log20250626.txt` shows they do.

Runs. `saga_concurrent`: two workers, an order sent twice under two message identifiers, both
kinds of answer, one failure anywhere. `saga_serial`: one worker, two answers of each kind, one
failure: one instance for an order, one outcome for an instance, and every message is handled to
its end or reaches the error queue. `saga_atomicity` shows a disagreement of code and
comment, see 3.9.

One instance for an order and one outcome for an instance hold for one worker only. With two,
both copies of `OrderCreatedMessage` can find no instance (the log shows such a pair), and two
opposite answers can overwrite each other.

Fairness: weak fairness of a worker's steps, for the same reason as the Catalogue's.

### 3.4 `PaymentInbox`

| In the model | In the code |
|---|---|
| `sent`, `waiting` | copies of a `CompletePayment` message the queue received and holds |
| `work[k]` | how far the copy a consumer handles is in `InboxConsumer.Consume` |
| `inbox`, `scheduled[m]` | rows of `InboxMessages`; rows of `InternalCommands` a message led to |
| `acked`, `faulted` | history: copies acknowledged, copies in the error queue |
| `LookUp`, `InsertRow`, `InsertRefused` | `AnyAsync`; the insert with its save; the primary key that refuses a second row |
| `Schedule`, `Finish` | `HandleInboxMessage` with `CommandScheduler.EnqueueAsync`; the `finally` block and the acknowledgement |
| `CallFails`, `Restart` | a database call that throws, committed or not; the death of the process |

An existing row stops nothing, the processed date is set on a copy that no context tracks, and the
command is committed by another DbContext than the transaction around it. What this leaves is an
at-least-once relay: `ImplementsDelivery` maps messages sent, commands stored and copies acknowledged
to the accepted, delivered and retired orders of `OrderDelivery`. Duplicates are possible, one command for each delivery; what they lead to is idempotent, see 3.5.

Run. `inbox`: two consumers, two messages sent up to three times, two failures: two copies of a
message race for its row while a third comes before, between or after them, and the second message
shows that the rows do not mix. `EveryCopyEnds` counts copies: of *n* sent, *n* are acknowledged or in the error
queue in the end, so that a loser of the race that hangs is noticed although other copies end.
Fairness: weak fairness of a consumer's steps, as in the Catalogue.

### 3.5 `InternalCommands`

| In the model | In the code |
|---|---|
| `status[o]` | column `Status`; *Pending* stands for every status that no guard distinguishes from it |
| `command[c]`, `payer[c]`, `due[c]` | the row: unprocessed, processed, processed with an error; its customer; the customer's orders when it was stored (history) |
| `job[j]` | the run of `ProcessInternalCommandHandler` and the change tracker of its DbContext: `modified` and `unchanged` copies, outcomes set but not saved |
| `ReadBatch`, `TakeNext`, `AttemptFails` | the query, the loop, the retry policy with its three delays |
| `Approve`, `ApproveRefused`, `SaveAttempt` | `CompletePaymentInternalCommandHandler`: attach approved copies; a cancelled order throws with some attached; `SaveEntitiesAsync` |
| `SaveBatch` | the save after the loop |
| `ReadForFulfilment`, `MailFulfilment`, `SaveFulfilment` | `OrderFulfillmentHandler`: the read, the mail sent while events are dispatched, the write of the whole row |
| `AttemptThrows`, `SaveBatchFails`, `FulfilmentFails`, `Crash` | calls that throw with or without their effect; the death of the process |

All attempts of a batch share a DbContext. A copy that a failed attempt attached stays modified and
is stored by whatever saves next, and a retry cannot attach a second copy of the same order: the
exception of `Attach` ends in a task that `Handle` does not await. So a command that is recorded as failed can have
approved part of its customer's orders. `ApprovedWasPaid` and `PaidOrdersApproved` say what
nevertheless holds, and `OutcomeIsFinal` and `EveryCommandProcessed` that a
command gets one outcome. `OutcomeIsFinal` supposes one process: a second one may hold the
same command in its batch and overwrite the outcome. An approval and a fulfilment can overwrite each
other; no property forbids it, since nothing in the repository does.

Run. `commands`: two commands, two customers, one of them with a cancelled order, an
order that may be placed during a batch, a fulfilment, and four failures, the number that exhausts the
retries of a command. The cancelled order belongs to a customer with another order, so an attempt can fail after an order was
attached. Fairness: weak fairness of a job's
steps; the trigger repeats every ten seconds forever. A fulfilment is a request and has none.

### 3.6 `ReadCache`

| In the model | In the code |
|---|---|
| `db[o]`, `past` | the order's row as a version number, 0 when there is none; history of the table |
| `cache[k]` | the Redis entry under key `k`, a set of one result or empty |
| `reader[r]` | one query: which, how far, what it loaded, its answer; `during` is history, the states of the table while it ran |
| `Hit`, `Miss`, `Load`, `Store` | `GetOrSetAsync`: the read of Redis, a missing or unreadable entry, `getItemCallback`, the write of a value that is not null |
| `LoadFails` | the database throws and `ErrorHandlingBehavior` answers with an error |
| `Write`, `Expire` | a save of a command handler, which removes no entry; the sliding expiration |
| `Key`, `Storable`, `Decode` | `EnableCache` with name and arguments; null is not stored; what Newtonsoft makes of an `Order` whose setters are private |

`IReadRepository` is the decorator, `IRepository` the plain repository: commands never see the
cache and never clear it. What keeps old orders from being shown is not the design but `Decode`:
a deserialized order has no status, and mapping it fails. So `AnswerWasCurrent` is about what a hit does not show and
what a failing Redis must not turn into: an order that was there all along is never reported missing.
Two things the code does and no property forbids: a cached empty list tells a customer that there are no orders
after the first one was placed, and of two fills of one key the older may be stored last.

Runs. `cache_safety`: two overlapping queries, two orders of one customer, each written twice, so
that a fill can be overtaken by another fill and by two writes; both kinds of query meet on one
order. `cache_hit` shows a disagreement of code and test, see 3.9. There is no liveness here: a query
ends by itself or is cut off with its request.

### 3.7 `ValidationAdapters`

| In the model | In the code |
|---|---|
| `element` | an input: its `data-val-*` attributes, whether it is a checkbox, and the rules of its tag (classes and HTML attributes) |
| `Adapters`, `extension` | the adapters of `jquery.validate.unobtrusive.js` in the order it adds them: `TypeAdapters`, with and without `additional-methods.js`, then `OtherAdapters` |
| `Declarable`, `AlwaysGiven` | the parameters that the annotations of ASP.NET write into `data-val-*` attributes, and those they never leave out |
| `AdapterSets`, `AdapterSkips`, `AddDummy` | one turn of the loop of `parseElement`, and the end of it |
| `Adapt`, `Setting`, `MinMaxSets`, `SetValidationValues` | the functions `addBool`, `addMinMax`, `addSingleVal` and the adapters of their own make, `setValidationValues` |
| `order`, `rules`, `RunOrder` | the object that `$.validator` `rules()` merges, and the order of its keys: those of the tag, then those of the adapters; required moved to the front, remote to the back |
| `BeginCheck`, `RuleAccepts`, `RuleRefuses`, `RemoteAsks`, `MethodIsMissing`, `EndCheck` | the loop of `check` over these rules on an empty or a filled value: a turn that goes on, an error, a request, an exception, the end |

Run. `adapters`: every input with up to two adapters, whose tag has no rule or the two rules that
adapters set as well (`required` and `maxlength`), and every input with up to three of the adapters
that limit a value, with the parameters the annotations of ASP.NET give them. Adapters interact only by
setting the same rule; no rule has more than three adapters that set it, and those that share one
are all limits. `Overrides` lists the pairs of adapters that may set one rule, and `SetAnew` says that on this input they
do, so that a limit is excused only where it is really replaced; everything else that a page declares ends up in a rule with its own
message (`LimitsEnforced`). `AcceptedMeetsLimits` is about the check: it stops at the first rule that refuses, asks the server or has no
method, and yet a value is accepted or sent to the server only after every other rule accepted it once. `EmptyIsMissing` says
what a user sees of an empty required input: its own message, neither that of `nonalphamin` or `equalTo`, which refuse empty values too,
nor an exception. It depends on the place of required in the order, `AcceptedMeetsLimits` on that of remote.

Without `additional-methods.js` three rules have no method: `accept`, which the extension adapter sets then, `extension`, which the
fileextensions adapter sets, and `creditcard`. A check that meets one throws; what a browser does with a submit whose handler threw
is not modelled. Left out of the tag is `step`, whose method throws by itself for some types of input.

### 3.8 `ClientForm`

| In the model | In the code |
|---|---|
| `value`, `parsed` | the inputs; the rules that `parse` put in the options of the form |
| `form` | the validator: `previousValue`, `pending`, `pendingRequest`, `formSubmitted`, `errorMap`, `submitted`, `invalid`; the messages next to the fields and in the summary |
| `request[f]` | the Ajax request of the port of `f` |
| `sent`, `clicked` | the values of the last form sent; history: a submit waits for its outcome |
| `Type`, `Revalidate`, `Submit`, `Reset` | an edit; `onfocusout` and `onkeyup`; the submit handler with `Validator.form`; `onReset` |
| `ParseElement` | `parseElement` and `attachValidation` for an input inserted after the validator was made |
| `Answer`, `RequestFails` | the success function with `stopRequest`, which may submit the form; a request that ends without calling it |
| `Check` | `check` of each field with its rules, `startRequest`, `showErrors` |

JavaScript runs a handler to its end, so each is one action; what interleaves is handlers, answers and the
user. What rules and server say of a value is a constant, any relation at all.

Run. `form`: two fields with remote rules, one of which sends both values, a third parsed late; four
values: accepted, refused by the server, refused by a rule, empty; three edits or resets; one failed
request. Two remote fields are the least with which answers overtake each other; an answer can come after an edit
of its own field, of the field it sends along, after a reset and after a newer request of the same field.
Fairness: weak fairness of `Answer`: the server answers a request that does not fail. The user owes
nothing. `SubmitIsAnswered` supposes that nothing is edited after the submit and that no request failed,
since both really leave a submit waiting.

The library is vendored and no page of the repository links it; it is modelled because it is the
only code on the client that keeps state.

### 3.9 Findings

`saga_atomicity` checks `StateChangeIsPublished`, what `SagaOrchestration/Program.cs:12` says of the
outbox: *"Configure the outbox to ensure atomic message publishing and state changes"*. The saga
repository gets a `DbContext` registration of its own at line 21, apart from the one the outbox
uses, so the instance is committed before the outbox is. TLC shows the shortest failure: the
second commit fails, the message goes to the error queue, the instance stays in `StockCheck` and
no `CheckBookStock` is ever sent. If the process dies instead, the redelivered message finds an
instance and is rejected by its state. `LostCheckIsTraceable`, which holds, says what is left:
the message that made the instance is then still in the broker or its error queue.

`cache_hit` checks `FoundOrderIsShown`, what the test `GetOrderDetailsTests.cs:29`,
*"HandleAsync_ReturnsOk_WhenOrderFound"*, says of a found order, with a mediator that is a mock. The
first query for an order stores it in Redis; the second is answered from there with an order whose
`Status` is null, and `OrderMappingExtensions.cs:4` dereferences it. The customer of an existing order
gets an error until the entry expires.

## 4. Proofs

TLAPS checks the following for every value of the constants, from the assumptions named in
the modules.

**`OrderOutboxProofs`** — for any orders, processes and faults.
`TypeCorrect`; `OutboxSafe` (`ProcessedWasSent`, `SendsBounded`, `BatchInOrder`, and `SentWasStored`,
which TLC sees through `ImplementsDelivery`) with `DuplicatesBounded` and `BatchKeepsOrder` for its parts;
`SingleRelaySendsPendingOnly` (`NoSendOfProcessed`); `OutboxImplementsDelivery`, the safety half of
`ImplementsDelivery`. None of the four safety properties is inductive: a relay could hold a marked
row it never sent. `IInv` adds `RowsMatchOrders` (rows are the saved orders), `BatchIsStored` (a
batch consists of stored rows and what it marked it sent) and `SendsPaidFor` (a send of a relay
that left no mark was paid for by one of its faults). The single-relay theorem adds that a batch
of the only relay holds pending rows.

**`StockReservationProofs`** — for any products, baskets, stock, number of concurrent consumers,
copies and failures. `TypeCorrect`; `QuantitiesSafe` (`StockNeverNegative` and
`StockCoversUngranted`, the latter also as `StockCovers`). The strengthening says of every scope that what it holds in `left` is not
negative, and that `left` plus `taken` of a product covered the seeded stock minus what was
granted when it was read; grants only grow, so this survives the writes of others.
`StockIsConserved` (`StockConserved`): with one consumer a scope knows the table, and `Matches` says how:
a tracked row holds `left`, plus what was taken until that is saved. `CommandsAccounted` (`NoCommandLost`): `QueueInv` adds
that who is past its answer has answered; a restart puts the commands in work back in the queue.
`GrantsAreBaskets` (`GrantedIsDemand`), with any number of consumers: `GrantInv` says of every scope that came up short on no line
that it took what the lines it passed ask for (`Tallied`), so a save takes the demand of the whole basket.
`StockRefinesLedger` (`ImplementsLedger`): the loop over the lines, with failed and repeated saves, publishes that throw, crashes
and duplicates, implements the atomic decision of `StockLedger`. Its hypothesis is `Undisturbed`, one consumer and tables that survive
a restart, which `stock_serial` satisfies and without which the ledger is not implemented (3.2). `UndisturbedInv` joins
the invariants above with `LedgerInv`: a scope that came up short knows that the basket is not in stock, and a
reservation that was saved has its confirmation still to come. The first save is then the ledger's reservation, and a repeated one a stutter.

Both need facts about sums. The section *Sums over finite sets* derives them from the definition of the library's
folds: a fold chooses the element it takes last, so a sum over a set is first shown to exist and then not to depend
on the choice, to grow with a new element by its value, and to agree for functions that agree on the set. The induction is over
finite sets, in the form that a non-empty family of subsets of a finite set has a minimal member (`MinimalSubset`), since the library's
induction theorems take an operator as parameter.

**`OrderSagaProofs`** — for any orders, instances, workers, duplicates, answers and failures.
`TypeCorrect`; `CommandsFound`, `OutcomesFollow`, `OneEffect` and `LostChecksTraceable`, with any number of
workers; `SerialOrders` and `SerialOutcomes`, with one. All follow from one `IInv`: `Exclusive` (a message in work is with one worker),
`CreatorOK` (an instance was made by one message, a message made at most one), `HandlingOK` (what a worker between the inbox
lookup and the second commit knows: its inbox row is new, its new identifier is nobody else's), `RowsOK` (what is in the outbox or
published is the output of the message it answers, for its instance), `DeliveryOK` (once the inbox says
delivered or the message is settled, the stock check of its instance is published) and `SerialOK` (with one worker,
an instance waits in `StockCheck` until its only answer is decided). `CreatorOK` is what carries redelivery after
`ForgetDelivered`: the inbox has forgotten the message, the instance has not.

**`PaymentInboxProofs`** — for any messages, copies, consumers and failures. `TypeCorrect`;
`CommandsTraceable` (a stored command has its inbox row, an acknowledged message its command); `RaceHasWinner`
(`RefusedHasTwin`); `InboxImplementsDelivery`, the refinement of `OrderDelivery`. `IInv` adds what a
consumer past the insert and past the scheduling knows of the tables (`RowBeforeCommand`,
`CommandBeforeAck`). The race needs `RowHasOwner`: while nothing failed, every row belongs to a copy that
goes on or has finished; and `RefusedMetRow`: who was refused met a row.

**`InternalCommandsProofs`** — for any orders, customers, commands, processes, requests and
failures. `TypeCorrect`; `ApprovalsSafe` (`PaidOrdersApproved` and `ApprovedWasPaid`, the latter also as `ApprovalsPaid`). `IInv` has a part for the tables (`TableOK`) and one for each batch in
memory (`BatchOK`): modified copies belong to customers who paid, unchanged ones were saved, an attempt about to
save tracks every order its command is due for, an outcome not stored yet is already true. `StoreGrows`,
proved of every step, lets the facts of the batches that do not move survive the writes of others.
`OutcomesFinal` (`OutcomeIsFinal`): with one process, what its batch holds `Agrees` with the table: a command it has not tried is
pending, and an outcome it set is not contradicted there.

**`ReadCacheProofs`** — for any orders, customers, overlapping queries, writes and expirations. `TypeCorrect`;
`AnswerIsCurrent` (`AnswerWasCurrent`); `CachedIsStored` (`CachedWasStored`). The strengthening `QueryInv` says that a running query
has seen the table as it is now and that what it loaded is its result in one of the states it saw. That a hit never
reports an order missing needs `CachedWasStored`: a missing order is not stored.

**`ClientFormProofs`** — for any finite form, any values, rules and server, any number of edits, resets and
failed requests. `TypeCorrect`; `SentAccepted` (`SentWereAccepted`); `CountCorrect` (`PendingIsCounted`). Each handler is an
operator on the validator's state, and a lemma for each shows that it keeps `Good`: the count is the number of pending fields, and the
verdict kept for a field is the server's on the data it is kept for, unless the field still waits for it. Without
that last clause the claim is false in mid-flight: while a request is pending, a check of the same data repeats the verdict of the one
before, and only the count of pending requests keeps the form from being sent.

**`ValidationAdaptersProofs`** — for any inputs, any adapters and tag rules on them and any of the parameters the annotations give, with and
without `additional-methods.js`. `LimitsHold` (`LimitsEnforced`); `AcceptedMet` (`AcceptedMeetsLimits`); `EmptyRefused`
(`EmptyIsMissing`). Three facts about the list of adapters come
first: `AllTabled`, every adapter sets the rules that a table (`Setters`) gives it; `LaterOverrides`, of two adapters with a common rule
the later one is in `Overrides`, so that the list the property allows is exactly what the code makes necessary; and
`EveryLimitIsHeard`, every parameter that can be declared is extracted and read by its adapter. `LimitInv` says of
every adapter that had its turn that what it set is still there with its message, or an adapter on the same input sets its rule anew.
`OrderInv` says that the order of the rules names each rule once (`Keys`); adding, removing and putting a name in front keep that
(`AddKey`, `DeleteKey`, `FirstKey`), so the reordering of `rules()` gives every rule exactly one turn, required the first and remote
the last (`RulesRunOnce`). `CheckInv` adds how far a check is and that an empty value of a required input gets no further than its first rule.

Assumptions: `Times` are positive numbers (outbox); commands are finite, baskets are sequences
of positive lines, the seeded stock is not negative, consumers are finite (stock, inbox); identifiers are finite (saga);
cancelled orders are in the table, commands and requests are finite (internal commands); an order has a customer (cache);
the fields are finite, a remote rule sends its own field and belongs to a field that was parsed with the form (client form); an input
declares parameters that annotations give (`Declarable`) with those they always give (`AlwaysGiven`), and its tag names a rule once (adapters); every bound
is a number. TLC evaluates them in every run.

Only model-checked: all liveness properties (`EventuallyProcessed`, `EveryCommandSettles`, `EveryMessageSettles`,
`EveryCopyEnds`, `EveryCommandProcessed`, `SubmitIsAnswered`, and the liveness half of the refinements), since temporal properties under fairness are out of
the prover's reach. Only proved, with no run of their own:
`NoSendOfProcessed`, `SentWasStored`, `OutcomeWasAnswered` and the two parts of `CommandsTraceable`.

## 5. Limits of the models

* The outbox carries `OrderCreatedMessage` rows only. Other outbox rows are written by no handler
  that runs.
* A message's content is its order, its instance or its basket; serialization, addresses and
  customer data are left out, except what deserialization loses in 3.6.
* The duplicate detection window of the saga's inbox is abstracted: `ForgetDelivered` may come
  at any time after a delivery. Lock contention on an inbox row is not modelled: one copy of a
  message is in work at a time, and the broker redelivers only what a dead process did not
  acknowledge.
* Orders are not cancelled while the model runs: `CancelOrderCommandHandler` looks the order up by a
  `Guid` where the key is an `OrderId`, so its request fails and changes nothing. Cancelled orders
  are in the table from the start. `ConfirmBookStock`, `UpdateMessage` and `UpdateOrderItemQuantity` have no callers.
* The commands of a batch come in any order: `EnqueueDate` is a clock read before the row was committed.
* A publish or send that throws may or may not have reached the broker; both are explored.
* The cached queries are modelled from the mediator on: the endpoints in front of them carry
  `ValidationFilter<CancelOrderRequest>` and answer 400 to every request. Of the other cached calls,
  `FindAsync` without a key shares the entry `CacheKey`, `FindAllAsync` without one is not cached, and nothing
  calls `Count`; the `TimeSpan` given to `EnableCache` only becomes part of the key.
* The client form leaves out wording, focus, highlighting, groups, buttons that cancel validation, the `validate` function for
  unobtrusive Ajax, and a submit before the page was parsed. Things the model shows that no property forbids: rules parsed
  after the validator exists are never used; a failed request leaves its field pending; a waiting submit is
  dropped when a value changes before the answer, and `formSubmitted` lingers after a refusal. What a rule says depends on
  the value of its own field: `equalTo`, which compares with another field and is checked again when that one is left, is not expressed.
* The fulfilment mail is sent before the save that may fail. The model keeps the order; nothing in the code takes a mail back, and no
  property forbids a mail about a completion that was not stored.
* An input's adapters have the parameters that annotations always give (`AlwaysGiven`): one written by hand
  without them would make `equalto` throw or a rule vanish from the merge.
* Bounds, all named constants: `MaxFaults`, `MaxCopies`, `MaxVersion`, `MaxEdits`, and the sizes of the sets.

### Not modelled

| Part | Why |
|---|---|
| Order validation, result pattern, specifications | construction and composition of values, without state; the models keep whether a request is valid |
| MediatR pipeline, logging and tracing | wraps handlers; an exception is a failed request in the models of the handlers |
| Product vector synchronisation | one sequential loop a day that upserts each product and goes on after a failure; it keeps nothing between products or days |
| AI search, MCP server, API gateway, Identity server | calls to language models, routing and templates of libraries; no state of the repository's own |
| Web endpoints | HTTP mapping in front of the handlers above |
| Order database set-up | generated migrations and seeding before the host starts |
| `site.js`, redirect scripts | comments only; one assignment of `window.location` when the page loads |
| Composition of all services | each module already lets its neighbours send, duplicate and answer at any time the code allows; the product of the state spaces is out of TLC's reach |
