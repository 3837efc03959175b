# The promotion service in TLA+

The repository is a FastAPI service that owns an online shop's promotions:
coupons, bonuses, happy hours, delivery fees and gifts.  The order service and
the customers' applications call it over HTTP, it reads order events from
Kafka, and it keeps everything in one Postgres database that several worker
processes share.  This directory holds a model of its core, the checks TLC
makes on small instances, and the proofs TLAPS checks for every instance.

## 1. The system

| component | state it keeps | operations | talks to |
|---|---|---|---|
| Coupon usage, `services/coupon/` | tables `coupons` (`quantity`), `users_coupons` | `add_coupon`, `delete_coupon`, `process_paid`, `process_cancelled` | antifraud, pricing, events |
| Antifraud, `services/antifraud/` | `customer_fingerprints`, two whitelists | `antifraud_check`, registration of a device | called by coupon usage |
| Discount arithmetic, `utils/discounting.py`, `coupon_manager.py` | none | discount of an order, its distribution among the items, the caps on alcohol and by `max_discount` | `add_coupon`, `recalculate_coupon_discount` |
| Order events, `infrastructure/kafka/`, `events/` | the group's committed positions (in the broker), each loop's own | one loop per worker over the topics paid and canceled, a client that commits by a timer | `process_paid`, `process_cancelled` |
| Bulk upload, `services/bulk/` | `coupons`, the permit tables of users, warehouses and categories, `coupons_value_orders_number` | upload of coupons, upload of values | overwrites what coupon usage reads; validates ids with three other services |
| Referral coupons, `coupon_service.py` | `coupons` (`user_id`, `referral_active`) | `create_referral_coupon` | shares table, index and row locks with the uploads |
| Order conditions, `services/conditions/` | none (reads fees, bonuses, happy hours, gifts) | `get_order_conditions`: fee, bonus, progress bars and conditions | warehouse service |
| Gifts and banners, `services/gift/` | none (reads gifts) | gifts of an order, promo banner | catalog service |
| Caches, `services/cache.py`, `infrastructure/pricing/` | prices for ten minutes, warehouses for an hour | read through, expire | pricing and warehouse services |
| Clients of other services | none | one remote call each | |
| API layer, settings, logging, metrics, traces, migrations | none | | |

### What is hard about it

* Every worker runs its own HTTP handlers and its own consumer; nothing but the
  database joins them, at READ COMMITTED.  A handler reads a coupon, makes up
  to ten further round trips, and decides on what it read first.
* `add_coupon` commits twice: it gives back the old coupon of the order, and
  later stores the new one.  Whatever fails in between, or after, stays.
* An order's messages come from two topics in any order, can come twice, and
  are skipped when their handler raises.
* `users_coupons` has no unique constraint: that an order holds one coupon is
  the handlers' doing.
* Discounts are divided among items in whole cents, capped per item, limited as
  a whole and divided again.
* The broker's client commits positions by a timer, whether or not the handler
  of the last message is done; workers die, lose their session, and join again.
* Three writers of the table of coupons lock its rows one by one, in the order
  of their own lists, while `add_coupon` reads the table statement by statement.
* Purchase prices go through a cache that every request reads and fills.
* The conditions of an order are sold to the customer as texts beside a
  progress bar, computed by five classes from nullable columns.

### What makes each part correct

* Coupon usage: no coupon is given out more often than its quantity; an order
  holds at most one coupon; units are neither lost nor created; a paid order's
  usage is marked; a customer gets beyond a coupon's limit by a bounded number
  of usages.
* Antifraud: a device serves a bounded number of customers.
* Discount arithmetic: the smallest order amount is left to pay, `max_discount`
  is kept, no cent is lost, shares are fair, alcohol is not sold below its
  purchase price, tobacco gets no discount, the answer can be given at all.
* Events: no message is passed over, what faults repeat and lose is bounded,
  the rest is handled in the end; a message that is delivered twice, late or
  after a replacement leaves the tables right.
* Bulk upload: all or nothing, uploads never mix, a check that overlaps one
  never passes through the gap between its statements, every request ends.
* Referral coupons: a bounded number per customer, a name once given is kept.
* Price cache: a price outlives its change by a bounded time, a known price is
  never lost on the way.
* Order conditions: adding items never takes the bar back, the bar and its
  texts agree with the fee and the bonus, there is always an answer.

PROJECT.json lists every hazard with its line.

## 2. The modules

| module | what it is |
|---|---|
| `CouponUsage` | coupon usage, antifraud, the message handlers and the uploads of `quantity`, one action per database round trip |
| `CouponLedger` | the abstract specification: an order holds at most one unit, taken only while one is left |
| `CouponUsageRefinement` | the refinement mapping from the tables to the ledger |
| `CouponUsageMC` | instances for TLC |
| `CouponUsageProofs` | theorems and proofs about these: types and rows, the refinement, the antifraud bound, handlers that do not overlap |
| `OrderEvents` | the consumer group: loops, positions, commits, faults |
| `OrderEventsMC`, `OrderEventsProofs` | an instance for TLC; theorems and proofs |
| `BulkUpload` | the uploads of coupons and of values, and the checks of `add_coupon` that read their tables |
| `ReferralCoupon` | `create_referral_coupon` on the same table; extends `BulkUpload` and states the composition of the three writers and the reader |
| `CouponTableMC`, `CouponTableProofs` | an instance for TLC; theorems about the writers, the checks and the order of locks |
| `PriceCache` | the cache of purchase prices |
| `PriceCacheMC`, `PriceCacheProofs` | an instance for TLC; theorems and proofs |
| `Discounting`, `DiscountingProofs` | the distribution of a discount, as operators; lemmas about sums and about them |
| `CouponDiscount` | the computing part of `add_coupon` and `recalculate_coupon_discount`, step by step |
| `CouponDiscountMC`, `CouponDiscountProofs` | carts and coupons for TLC; theorems and proofs |
| `OrderBonus` | the bonus of an order, as operators over `Discounting` |
| `OrderConditions` | `get_order_conditions`: fee, bonus, both versions of the progress bars, while the cart is filled |
| `OrderConditionsMC`, `OrderConditionsProofs` | products, fees, bonuses and gifts for TLC; theorems and proofs |
| `HappyHours` | which instants of a week are happy hours |
| `HappyHoursMC`, `HappyHoursProofs` | pairs of windows for TLC; theorem and proof |

`CouponUsage` and `OrderEvents` meet in what a message does: `OrderEvents` says
which messages reach a handler, how often and in which order over the
partitions, and `CouponUsage` lets consumers receive any paid or cancel message
at any time, repeatedly or never, so it covers whatever `OrderEvents` delivers.
`CouponUsage` and `BulkUpload` share the table `coupons`: the first keeps its
`quantity`, which an upload overwrites in one step there, the second `active`,
owner and permits, with the steps of the upload in between.

### CouponUsage

`quantity` is the column `coupons.quantity` (`Null` is unlimited), `usages` the
rows of `users_coupons`, `registered` the customers `customer_fingerprints`
holds for each device, `now` the clock behind `created_at` and `updated_at`.
`pc`, `request`, `snapshot` and `oldCoupon` are the program counter and the
local variables of the `add_coupon` handlers in flight, `task` those of the
consumers.  `snapshot` is the one that matters: the copy of the quantity that
`get_active_coupon_by_name` returned, which is tested long after.

| action | code |
|---|---|
| `BeginAdd` | the request and `antifraud_check` |
| `ReadCoupon` | `get_active_coupon_by_name` |
| `RejectNotValid` | the `raise`s up to line 157 |
| `ReadOldCoupon`, `RevertOldCoupon` | `get_current_order_coupon`; the first `uow.begin()` |
| `AcceptCoupon`, `RejectRedeemed`, `RejectOrdersCount` | lines 167 to 187, in that order |
| `StoreUsage` | `store_coupon_usage`: row, decrement and fingerprint in one transaction |
| `ReturnDiscount`, `FailAdd` | the rest of the handler; an exception, a cancelled request or a dead worker at any point |
| `DeleteCoupon` | `delete_coupon`; with `StrayDelete` also for a coupon the order does not hold |
| `ReceiveMessage`, `ProcessMessage`, `FailMessage` | the loop of a consumer: lookup, transaction, exception |
| `BulkUpsert` | the effect of an upload on `quantity` |

What is abstracted.  The handlers of one table row are serialised by the row
lock that the first UPDATE of a transaction takes, so a transaction is one
action.  The checks of `add_coupon` that read only the request and tables no
action writes (validity, permits, warehouse, categories, smallest amount) are
one rejection that may or may not happen.  `unique_identifier` is a member of
`Device` or `Null`; the empty string, which the code treats alike, is `Null`.
The whitelists are constants: nothing in the service writes them.  Of the time
stamps only the order matters.

### OrderEvents

`log` is what the topics hold, `committed` the group's positions, `owner` the
assignment of partitions, `position` how far the owner's loop has got, `loop`
and `inflight` the state of each worker's `_loop` task and the message whose
handler it awaits.  A partition of either topic is a `Partition`.

| action | code |
|---|---|
| `Produce`, `ProduceMalformed` | the order service; a value that is no JSON or a header that is no UTF-8 |
| `Start`, `StartFails` | `KafkaConsumer.start` and the first line of `_loop`; the task is not awaited |
| `Assign`, `Rebalance`, `LoseSession` | the broker's group, from the client's configuration |
| `AutoCommit` | the client's timer (`enable_auto_commit`) |
| `Begin`, `HandlerReturns`, `HandlerRaises` | an iteration of `_loop`: message, awaited handler, logged exception |
| `LoopDies` | the deserializer or the extraction of the trace context, outside the `try` |
| `Stop`, `Crash` | `stop` at shutdown; the worker's process dies |

Broker and client library are not in the repository: they are modelled from
the options `KafkaConsumer` passes and its use of `start`, `stop` and
iteration, and marked external where nothing in the source names them.

### BulkUpload and ReferralCoupon

`coupons`, `permits` and `values` are committed rows; a transaction's own
writes are in no variable until its commit.  `lock` says which transaction holds
the row of a name, or the name in the unique index before there is a row;
`todo` the names a statement has still to lock, `deleted` the rows its DELETE
statements saw.  `versions` and `published` are ghosts of the properties.

| action | code |
|---|---|
| `BeginUpload` | `save_coupons` up to the transaction: duplicates, validation |
| `Lock` | one row of `INSERT .. ON CONFLICT DO UPDATE`, or of `SELECT .. FOR UPDATE` |
| `Overwrite`, `Commit` | `overwrite_warehouses`, `_users`, `_categories`; the end of `uow.begin()` |
| `BeginValueUpload`, `OverwriteValues`, `CommitValues` | `save_coupon_values`, likewise |
| `FailUpload`, `AbortUpload` | an exception, a cancelled request, a dead worker; Postgres breaking a deadlock |
| `BeginCheck`, `ReadCoupon`, `ReadAny`, `ReadMine` | `add_coupon` lines 116 to 148: the coupon, then two statements for users and warehouses, one for categories |
| `Ask`, `FindReferral`, `FindNoReferral` | `get_active_referral_coupon` |
| `DrawName`, `Insert`, `InsertFails`, `CommitReferral`, `FailReferral` | the loop over random names, the INSERT on the unique index, the commit |

The column compares names without case, so a `Key` is a name and a spelling is
kept beside it.  Of a coupon's columns only `active`, the owner and the three
lists are kept.

### PriceCache

Time passes in ticks.  `cache` holds a price and the ticks it has left, `mapper`
and `answer` are local variables of `get_product_prices_mapper`, `age` remembers
how long ago a product last had a price.  `Begin`, `MultiGet`, `PricingAnswers`,
`MultiSet` and `End` are its calls; `ChangePrice` and `Tick` what happens around
them.  The cache server and the pricing service are external.

### Discounting and CouponDiscount

A request reads no table that matters here, so one request is modelled, for
every cart and coupon in a set.  `pc` walks through filter, discount,
distribute, limit; `RejectTerms` stands for the checks of
`recalculate_coupon_discount` that read only the coupon and the request and
may end it first.  Amounts are in cents; the code divides `Decimal`s of 28
digits, the model divides exactly and leaves the order of equal remainders
open, which covers both outcomes of a rounding in the last digit.
`price * 0.35` is a float in the code and lands a cent low for some multiples
of 20, the first of them 180; the instances use smaller prices.  A line's
subtotal is price times quantity.

### OrderBonus and OrderConditions

The service stores nothing; what has a history is the customer, who asks again
after each item.  `offer` holds the rows a request reads, `cart` and `coupon`
its arguments, `happy` the happy hours' bonus at that moment, `answer` the
response, and `status` says whether there is one.  `Ask` is the whole handler:
charge, bonus and its distribution, then either the two legacy bars and their
conditions (`CatalogBar`, `CartBar`, `LegacyConditions`) or the chains of the
new version (`Chains`, `Titled`, `ComposedBar`).

The legacy managers hold the same decision four times, differing in their
texts, so `FeeAndBonusBar` and `BonusBar` are parameterised by what the text
says.  A text is what it is about (fee, bonus, gift), the amount it names, and
whether it says to add something (`"add"`), that it is got (`"got"`), that
there are happy hours (`"happy"`), or nothing (`"blank"`); `chained` marks a
title that `title_chain` has joined to those before it.  Of the fees only the
one small order fee matters to the bars.  The scaled value of the bar is an
`int()` of a float product: when it should be whole it may be a cent less,
which is the choice of `low`.  Alcohol may have been bought above its price:
its cap is then negative, and so is the bonus it gets.

### HappyHours

The clock goes round the week of a warehouse's local time; there are no jumps
for daylight saving.  `HappyHoursBonus` is what `calculate_order_bonus` takes,
from the rows of the schedule, the forced periods and the delivery mode.

## 3. The runs

Fairness is assumed in two specifications and only where something outside the
model's faults guarantees it.  `OrderEvents`: the broker assigns a free
partition, gunicorn starts a worker that is down again, the event loop goes on
with a loop that has a message and with a handler until it returns or raises.
Nothing makes a message come, the timer commit, or a fault happen; faults are
bounded by `MaxFaults`, without which a worker could die for ever.
`ReferralCoupon`: every statement of a transaction that does not wait for a lock
is answered, and Postgres breaks a deadlock (`deadlock_timeout`); nothing makes
a request come or fail.  The other specifications have no liveness property and
no fairness: requests there end when their computation does.

`CHECK_DEADLOCK` is off where a run's requests or messages are used up
(`MaxCalls`, `MaxMessages`) or a computation is over: a service without
requests stands still.  A customer may always ask again and a clock goes on, so
`conditions`, `happy_hours` and `prices` do check for deadlock.

| run | instance | what it shows |
|---|---|---|
| `one_adder` | 2 coupons with one unit, 2 orders, 1 add handler, 2 consumers, 5 calls, uploads of one of the coupons, stray deletes | with add requests one at a time nothing that deletes, messages and uploads do leads to an oversold coupon or an order with two usages; no unit is lost, wherever a handler dies; every step is a step of the ledger |
| `sequential` | one handler at a time, a limit of one, one customer with 3 orders | units are conserved exactly; a paid order is marked; the strict ledger is implemented |
| `overlap` | 2 add handlers and a consumer, 1 device with 1 customer allowed, 4 customers of whom the one let through has 3 orders, a limit of one, 5 calls | overlapping requests exceed the customers of a device by one and no more; usages stored after a customer has reached the limit are no more than the requests that can be between check and store |
| `oversell` | 2 add handlers, 1 unit | **violated**: both see the last unit, `quantity` is -1, and `== 0` never refuses again |
| `double_revert` | 1 add handler, 1 consumer | **violated**: a delete between a consumer's lookup and its revert makes one usage give back two units |
| `discount` | carts of 3 lines out of 9 kinds, 20 coupons, both handlers | the arithmetic keeps its limits, loses no cent and is fair; only alcohol sold below its purchase price leaves a request without an answer |
| `tobacco` | the same | **violated**: `add_coupon` gives a discount on tobacco in a permitted category |
| `conditions` | 240 offers, both versions, up to two each of four products, coupon and happy hours on and off | the bar never goes back and is not full before the bonus is reached; its texts say what is charged and given, and the conditions explain them; happy hours make no order worse off, but for the surcharge on alcohol bought above its price |
| `happy_hours` | days of 4 instants, every pair of windows on Saturday, Sunday and Monday, one forced period | happy hours inside the windows and nowhere else, across midnight and the end of the week |
| `events` | 2 workers, 2 partitions with 2 and 1 messages, any 2 faults | no message is passed over, redeliveries and losses are bounded by the faults, all other messages are handled in the end |
| `coupon_table` | 2 uploads of coupons, 2 of values, 1 check, 2 referral requests, any 3 of them over 4 names; 4 upload lists, 2 value lists | uploads never mix, a check never slips through them, names are kept, deadlocks need contradictory orders, every request ends |
| `prices` | 2 requests, 2 products, a time to live of 2 ticks, a latency of 1 | no price is used longer than `Staleness` after its change, no known price is lost |

The properties of the `sequential` run are those that overlapping handlers
break.  `double_revert` shows it for one of them; the same stale lookup of a
consumer also loses a payment (`PaidMessageMarksUsage`) when an add request
replaces the coupon before the consumer's update.

Why the bounds are enough.  Every hazard of coupon usage needs at most two
handlers at two round trips of the same order or coupon, plus one call to put
the tables into an interesting state and one to observe the result: 5 calls
cover add, replace, pay, cancel and a repeat of any of them.  One unit makes
every quantity a boundary.  Two coupons make replacement possible, two orders
competition for a unit.  For the limit, one order of the customer is paid between
the checks and the stores of two others.  That bound is tight: with one late
usage less TLC finds two requests that are past the check when the mark arrives.
Four customers are one more than the bound, one overlap and one whitelisted.  For the arithmetic, three items are
the fewest that have two remainders to order and a cent left that one of them
does not get; the kinds include a free item, one too small for a share, and
alcohol with a large, small, unknown and missing margin; the coupons discount
nothing, something, and everything, with and without a limit that binds.

For the events, two workers and two partitions are what a rebalance needs to
move a partition from one worker to another while the other keeps working; two
messages in one partition are the one that is committed and the one in flight;
two faults make a second one hit the recovery from the first.  For the table of
coupons, three calls are the two that disturb each other and one that observes,
two names in opposite orders are a deadlock, two spellings of a name a
duplicate, and of four names two are free for referral requests to draw.  For
the prices, two ticks are the first and the last of a life, and the bound is
tight: with `Staleness` less by one TLC finds a request that stores a price it
read a latency ago, and another that uses it at the end of its life.

For the conditions, four products (regular, alcohol with a margin and without,
tobacco) are the kinds the code tells apart; their prices put the subtotals below, between, on
and above the borders of fee (30 or 60), bonus (50 or 35) and gift (40 or 90),
in either order of fee and bonus and of bonus and gift.  Four instants a day
make every pair of borders equal, adjacent or apart; a window over midnight
excludes its first instant (`start_time < now`), so `HappyExactlyInside` asks
for happy hours strictly inside and for none strictly outside.

Some properties have preconditions, and each marks a place where the code stops
being right.  `ProgressNeverGoesBack` and `FullOnlyWhenEarned` need the fee to
be waived before the bonus begins (`FreeFirst`): with the borders the other way
round the scaling makes no sense.  `TitlesTellTruth` excludes carts with
tobacco, where a bonus without a value shifts the values against the titles
(`conditions_collector.py:352`).  `TextsTrue` excludes fees whose
`free_after_subtotal` is NULL or 0, which `fee_manager.py:40` takes for never
waived and `fee_bar_manager.py:41` and `conditions_collector.py:87` announce as
always waived.  Its part about the bonus expects 0 beside "add", but for carts with
alcohol bought above its price: `discounting.py:92` warns about the negative cap
and applies it, also to a bonus of nothing, so that a surcharge stands beside a
bonus that is not reached; the property says that it is never above 0.  For the
same reason `HappyHoursNeverLower` excludes such alcohol when the bonus exists
only in happy hours.  `CompleteRowsAnswered` speaks of rows without nulls: a bonus
without an amount (`bonus_manager.py:111`), a gift without a banner or a lone fee
that is never waived (`conditions_collector.py:206`, `349`, `356`) make the
request fail.  `AnswerableWithMargin` excludes alcohol sold below its purchase
price, where the cap of `discounting.py:99` is negative and the answer's
`discount_amount: NonNegativeInt` cannot hold the sum.  `EventuallyHandled`
excepts malformed messages and the case that no worker's client ever started:
either silently ends a loop for good.  `RequestsEnd` excepts tables in which
every name is taken, where the draw of a referral name goes on for ever.

Every property has a mutant in its module: a definition changed the way a bug
would change it, under which TLC finds the property violated.

## 4. The proofs

| theorem | for every |
|---|---|
| `TypeCorrect` | number of handlers, consumers, orders, coupons, calls |
| `NoOversellOneAdder`, `OneUsagePerOrderOneAdder` | instance with one add handler |
| `NothingLostOneAdder` | instance with one add handler, for the coupons that are not uploaded again |
| `OneAdderImplementsLedger` | instance with one add handler |
| `SequentialPaidIsMarked` | number of handlers that do not overlap |
| `SequentialConserves` | the same, without stray deletes and uploads |
| `SequentialImplementsStrictLedger` | the same, without stray deletes |
| `AntifraudBounded`, `LimitOvershotByRequests` | number of add handlers |
| `EventsTypeCorrect`, `NoMessagePassedOver`, `RedeliveriesAreBounded`, `LossIsBounded` | number of workers, partitions, messages and faults |
| `TableTypeCorrect`, `UploadsNeverMix`, `ValuesNeverMix` | number of uploads, checks and referral requests, coupons, ids and upload lists |
| `NamesAreKept`, `ReferralsAreBounded` | the same |
| `AcceptedByVersions`, `QuietChecksAreExact` | the same |
| `SortedUploadsNeverDeadlock` | the same |
| `SmallestAmountIsPaid`, `MaxDiscountIsKept`, `EveryCentIsDistributed`, `DistributionIsFair` | finite cart and every coupon, in either handler |
| `AlcoholMarginIsKept`, `AnswerFailsOnlyWithoutMargin` | the same |
| `HappyHoursAreExact` | length of a day, schedule and set of forced periods |
| `WhatIsSaidIsDone`, `BarsAreExplained`, `FullBarsAreEarned`, `TitlesAreTrue`, `CompleteRowsGetAnAnswer` | finite set of products, every offer and cart |
| `HappyHoursDoNotHurt`, `ProgressIsKept` | the same, step by step |
| `PricesAreFresh`, `KnownPricesAreReturned` | number of requests and products, every time to live and latency |

`NoOversell` is not inductive: the store step decrements unconditionally, and is
right only because between the read and the store nobody but the one handler
takes a unit.  `StockInv` says so: as long as the handler is beyond its read,
the quantity is at least its snapshot or null, and beyond its check at least
one.  Uploads keep it because the API admits positive quantities only.
`UsageInv` says that beyond the lookup of the old coupon the order has no
usage but the one to be reverted, that two rows of one order are one, and that
rows are stamped before `now`.  `KeptInv` adds the count of units: what is left
plus what is held is at least what there was, which needs that a pair has one
row when `Revert` deletes all of them and gives back one unit.  The refinement
theorem maps each step to a step of the ledger or a stutter under these
invariants.  `AntifraudInv` counts: the customers of a device, together with
the handlers that have passed its check, never exceed the bound by more than
the other handlers.  `LateInv` counts for the limit: the late usages of a
customer and the handlers between check and store are together never more than
the handlers.  A handler passes the check only while no usage is late, since a
late one has as many paid before it as the limit allows and they are still
counted; a store turns a handler into a usage; a mark stamps its rows later than
every row was created, so it takes them out of `PaidBefore` and adds none.

The assumption `OneAdder` is not what the service guarantees; it is what the
results of these names need, and the `oversell` run shows that it cannot be dropped.

Handlers that do not overlap.  `RequestAlone`, `ConsumerAlone` and `OtherAlone`
turn `Alone` and `Calm` into what a step may count on: nobody else is at work.
So the invariants above hold without `OneAdder`, and what a handler looked up is
still there when it acts: `Known` says that a usage about to be reverted or
marked exists.
A revert that finds its row balances the tables exactly, which is
`SequentialConserves`, and is a release of the strict ledger.  The two
violations that overlaps cause (`double_revert`, and the lost payment) are
exactly failures of `Known`.

Order events.  That what is committed was begun is not inductive, as the timer
commits a position: `TakenWasBegun` says it of all that an owner has taken too,
and survives because a partition changes its owner only by way of the committed
position.  `RerunsInv` says that a message nobody has committed or taken was
begun once less often than it may be, since it will be begun again; only a
crash and a lost session move a position back, and both are counted.  `LossInv`
counts the messages that were begun, are not handled and not in flight, committed
or not: a loop has one message in flight, so each fault adds one.

Table of coupons.  `UploadInv` is the discipline of two-phase locking: a
transaction holds the row of every name it is past, and from its DELETE
statements to its commit what they saw is what there is to delete, as nobody
else writes a row it has locked.  `Holding` draws the consequence that
transactions about to commit write disjoint rows, from which coherence, the
values and the owners follow; `ReferralInv` puts the INSERT of a referral coupon
under the same discipline.  `CountInv` counts requests that have found no coupon
like the coupons they are about to create.  For the checks, `CheckOf` says that
the version in the table is the last in `versions`, and that each permission the
check is past was granted, and each refusal given, by one of them.

Prices.  `AgeInv` bounds the age of a price by where it is: in an answer by the
time its request has been running, in the cache by the latency and the time it
has lived, in the mapper by both.

Deadlocks.  `OrderInv` says that what an upload has locked comes before all it
still waits for, in its own list.  In a circle of waiting transactions take one
whose next name has the greatest rank: whoever holds that name waits for a name
of a greater rank still.  A transaction that holds one name and wants none
cannot be in the circle.

Sums.  The subtotal of a cart and the total of a distribution are folds over the
items.  What such a sum is for every cart takes an induction over finite sets,
and the library's theorem for it has an operator as a parameter, which the
provers cannot instantiate.  `DiscountingProofs` proves the instances it needs
with a set in the operator's place: of the subsets for which a claim fails one
of least size is taken, and the claim holds for it without one of its members.
So it gets that a sum of integers is an integer, does not depend on the order,
grows with its terms, adds up over parts and scales with a factor.  From there
on the largest remainders are arithmetic: rounded down the shares miss the
discount by fewer cents than there are remainders, and so many items get one
more.

Coupon discount.  `DiscountInv` follows the program counter: which items are
left, that `discount` is what `CouponDiscountOf` made of their subtotal, that
the distribution is one of the distributions of that discount or of
`max_discount`.  Each property is then a lemma about distributions.  That
alcohol keeps its margin was false as first stated: in a cart that costs
nothing nothing is distributed, and free alcohol with a purchase price is below
it with or without a coupon.  The property says so now.

Happy hours.  An instant strictly inside a window is found either by today's
lookup or, after midnight, by yesterday's; the proof follows the instant through
the week's arithmetic and the wrap from Sunday to Monday.

Order conditions.  `ConditionsInv` says that every answer is one of the answers
(`Possible`), and every failure one of the failures (`Refused`), of the last
request, whose bonus and subtotals are those of `cart`.  The properties of an
answer are lemmas about bars: `SoundBar` for what a bar may say, `GoodChains`
for the chains of the new version, whose values and titles are zipped by
position.  Most of the proof is `ProgressNeverGoesBack`.  It relates two
answers, so it needs the number a bar shows as a function of the two subtotals,
which is `Stand`, the same for the legacy bars and the composed one; the
subtotals of the larger cart are at least those of the smaller, which is a fact
about sums; and `Stand` falls by no more than the cent of the float product,
also where the scale of the bar changes, at the end of the fee.
`HappyHoursNeverLower` compares two distributions of the same order: a larger
discount gives no item less than the rounded shares differ by.

Some properties were stronger than the code before they were proved.
A bonus that rounds to nothing, one percent of a cart of less than a hundred
cents or a bonus required from a subtotal of 0 on, is announced as got and not
given: `BonusTextTrue` speaks of bonuses of a cent at least (`ACentAtLeast`).
`AlcoholNotBelowPurchasePrice` is another.  `TextsTrue` and
`HappyHoursNeverLower` once assumed that no alcohol is bought above its price,
which the code does not.  `WithMargin` and `DistributedBonus` are what is true
without the assumption: a cap takes away, and below zero only where it is
negative itself.

Assumptions of the proofs.  Carts and sets of products are finite; `Null` is no
number and no bonus; amounts are naturals (`CartAssumption`,
`ProductAssumption`, `OfferAssumption`, `BonusAssumption`).

Only model-checked: the liveness properties `EventuallyHandled` and
`RequestsEnd`.  The prover does no liveness under fairness and no `ENABLED`.
Every other property of a passing run is a theorem.

## 5. What is left

1. The theorems with `OneAdder` for no two overlapping handlers of one order
   and one coupon, which is weaker.
2. An abstract delivery (at least once but for the faults, at most once but for
   the redeliveries) that `OrderEvents` implements and `CouponUsage` consumes.
3. Gifts and banners, if they come to write something.

## 6. Not modelled

* Gifts and banners (`services/gift/`) are two read-only lookups; that a gift's
  banner may be missing is part of `OrderConditions`.
* The cache of warehouses is the get, ask and set of `PriceCache` with a single
  key.
* An upload that changes a coupon's kind leaves its rows in
  `coupons_value_orders_number`: nothing reads them for the new kind.
* Jumps of the clock for daylight saving, fees other than the small order fee
  and the promise of delivery in the conditions.
* Routing, serialisation, settings, logging, metrics, traces and migrations have
  no behaviour the properties could tell apart.  The clients of other services
  are one call each; that the call can fail is in `FailAdd` and `FailUpload`.
