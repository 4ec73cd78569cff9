# Verification of the food delivery system

TLA+ models of the backend under `services/` and `shared/`, TLC configurations
that check them on small instances, and TLAPS proofs that every safety property of
the passing runs holds for any number of orders, requests, customers and crashes. `PROJECT.json` lists every component, run,
mutant, source line, hazard and theorem.

## 1. The system

Seven FastAPI services, each with a Postgres database of its own, and a shared
library. A service never reads another's database. They interact in three ways:

* **events**: a handler adds an outbox row to its own transaction
  (`shared/outbox.py`); a relay publishes it to Kafka or Pub/Sub; the consumers of
  the other services (`shared/messaging.py`) each open a session and run one
  handler per message. Delivery is meant to be at least once, and messages with one key
  to keep their order (Kafka partition, Pub/Sub ordering key). The code gives less: on
  Kafka a failed message is passed over, a failed send or a second relay changes the
  order of a key, and a handler that outlives its time-out runs on beside the next.
* **synchronous calls** with the caller's token (`shared/http_client.py`): orders
  asks restaurants to validate an order and reserve its stock, and to release it.
* **copies**: each service keeps read-model tables ("snapshots") of what it needs of
  the others, written from events.

Redis holds carts, checkout locks, tokens, rate limits and seen webhook events.
Several replicas of a service run at once.

| component | state | operations | what is hard | what makes it correct |
|---|---|---|---|---|
| orders: lifecycle (`service.py`, `state_machine.py`, `consumer.py`) | order rows, audit trail, outbox | checkout, mark_paid, accept, reject, advance, driver updates, customer cancel, two admin sweeps | transactions overlap, some with `FOR UPDATE` and some without; stock is released over HTTP before the commit; crashes | legal walks, row and events agree, money asked for at most once, stock back once |
| orders: cart, checkout, reorder | cart and lock in Redis, stock elsewhere | add, update, remove, clear, reorder, check out | read-modify-write in Redis, lock expiry, reservation in another service before the commit, time-outs | an order is what its page showed, once; stock accounted for |
| payments (`service.py`, `consumer.py`, `webhook.py`) | payment rows, order copy, outbox, seen events | create, capture, refund, resume, retry, confirm, webhook | no row locks; provider called between read and commit; two commits; reordered webhooks and commands | collected means charged, told means charged, one refund |
| delivery | deliveries, drivers, order copy | assign, accept, reject, pickup, deliver, reassign | picks drivers from unlocked reads; redelivered events | one delivery per order, one active order per driver |
| restaurants: stock | menu items | validate_order, release_stock | stock read with a plain SELECT and written as an absolute number | nothing oversold, no portion lost |
| restaurants: registration, approval | restaurants, outbox | register, create, approve, reject, edit, publish | two services decide from each other's events; repeated registrations | an approved owner gets in, one venue each, the account mirrors the decision |
| restaurants: reviews | reviews, copy of orders, of owners | create, edit, reply, delete | the copy lags and goes back | only delivered orders are reviewed |
| restaurants: hours, discovery | weekly rows, the owner's switch | status, next opening, filters, price bands | one rule written in Python, in SQL and in TypeScript; midnight | browse, card and checkout agree |
| users: sessions | users, Redis blocklist and links | login, refresh, logout, reset, change | check-then-act; overlapping changes of a password | a new password ends the old sessions |
| users: addresses | address rows, outbox | add, edit, delete | the geocoder is asked between read and commit | the point is that of the address as spelt |
| notifications | feed, audit rows, preferences, devices, contacts | one handler per topic, preference and device calls | messages go out before the commit; defaults in two places | the audit tells no lies, nobody gets unasked SMS |
| admin and the other copies | read models | one handler per topic | repeated, reordered, null columns | a copy catches up |
| shared: outbox, messaging | outbox rows, offsets | drain, publish, consume, acknowledge | several relays, crash between publish and commit, failed messages, handler time-out | everything goes out, nothing but a failure on Kafka is passed over |
| shared: http client | breaker | request | time-outs, cooldown | open after failures, closed after a success |

Not modelled: the location of drivers and the ETA, favourites, dashboards, images,
rate limiting, deployment, and the browser apart from `lib/hours.ts`; section 6 and
`PROJECT.json` (`components`) say why.

## 2. The modules

| module | what it is |
|---|---|
| `OrderStateMachine` | the pure operators of `state_machine.py` and the enumerations of `models.py` |
| `OrderLifecycle` | the abstract specification: what the service promises of one order |
| `Orders` | the lifecycle functions as overlapping transactions |
| `MCOrders` | the sets of calls the runs use |
| `OrdersProofs` | theorems about `Orders` |
| `Payments` | the payments service and its environment |
| `MCPayments` | the sets of customer calls the runs use |
| `PaymentsProofs` | theorems about `Payments` |
| `Delivery` | the delivery service, the kitchen before it and the order events behind it |
| `MCDelivery` | the module its runs name |
| `DeliveryProofs` | theorems about `Delivery` |
| `CircuitBreaker` | the pure operators of the breaker in `http_client.py` |
| `Checkout` | carts, checkout, reservation and cancellation over two services; extends `CircuitBreaker` |
| `MCCheckout` | menus, carts at the start and calls of its run |
| `CheckoutProofs` | theorems about `Checkout` |
| `Accounts` | accounts, sessions and passwords of the users service |
| `Onboarding` | composes `Accounts` with the restaurants service's venues and decisions |
| `OnboardingProofs` | theorems about `Onboarding`, and so about `Accounts` |
| `Messaging` | outbox, relays, broker and one consumer; leaves open what a handler does |
| `Addresses` | the users service's addresses, as a publisher; extends `Messaging` |
| `Notifications` | what the notifications service sends and records |
| `ReadModels` | composes `Messaging`, `Addresses` and `Notifications` with every service's copies, and the reviews that rest on them |
| `MCReadModels` | the statuses its run goes through |
| `ReadModelsProofs` | theorems about `ReadModels`, and so about `Messaging`, `Addresses` and `Notifications` |
| `Catalogue` | opening hours, the search filters and the words on the card |
| `MCCatalogue` | the price bands of its run |
| `CatalogueProofs` | theorems about `Catalogue` |

### Orders

A *request slot* runs one transaction. The variables are the tables (`row`,
`audit`), the outbox by topic (`published` on order-events, `requested` on
payment-commands, `notified` for the owner's "order.new"), the row locks, what
each running transaction has read and written, and what the restaurants service
did with the release calls (`released`).

| action | code |
|---|---|
| `CreateOrder` | `create_order_from_checkout`, one step: nobody sees the row before its commit |
| `LockOrder` | `_locked_order`, used by mark_paid, accept, reject, advance, driver_advance |
| `ReadOrder` | the plain read of `cancel_by_customer` |
| `ReadStale`, `TakeNext` | the SELECT and the loop of the two sweeps; for the others a loop of one |
| `Refuse` | 403/404, the function's own check, the state machine, mark_paid's early return |
| `Flush` | the UPDATE, which SQLAlchemy flushes before the next SELECT or at the commit |
| `ReleaseStock` | `_restore_stock`, made before the commit; refused without a token |
| `Commit` | columns that changed, audit entries, order events, payment commands |
| `Abort`, `BreakDeadlock` | crash or exception; Postgres resolving a lock cycle |
| `GrowOld` | time passing the window of a sweep |

`Written` is the point that decides most of the races: an UPDATE carries the
columns whose value differs from the one *read*, so a stale writer overwrites the
status and leaves what it did not touch.

### Payments

A *slot* runs one handler: `Consumers` those of the event consumer, `Callers` HTTP
requests and webhook calls. Every handler reads the row, may call the provider,
and commits later what it decided (`update` in its record); webhook and confirm
then publish in a second transaction (`after = "tell"`). Two commands of one order may
be at work at once: Pub/Sub's callbacks run in a pool, and a handler given up on after
its time-out goes on beside its own redelivery. `forced`, `skipped` and `overlaps`
record what the properties except.

| action | code |
|---|---|
| `ApplyOrderEvent`, `CreatePayment`, `InsertPayment` | `_apply_order_event`: the commit of the copy, `create_payment_for_order`, its insert and the IntegrityError path |
| `CapturePayment`, `RefundPayment`, `CallRefund` | `_apply_payment_command` with `capture_payment` and `refund_payment` |
| `ResumePayment`, `RetryPayment`, `ConfirmPayment`, `Verify` | the three customer routes |
| `ReceiveWebhook` | `handle_event` up to its first commit, with the seen-key of Redis |
| `CommitPayment`, `TellOrders` | the first and the second commit |
| `Crash` | an exception or a lost process |
| `SkipOrderEvent` | `_run_kafka` committing past a message whose handler failed |
| `PlaceOrder`, `OrderMovesOn`, `Pay` | environment: the orders service, the customer and Stripe |
| `OrderPaid` | environment: `mark_paid`, or PAYMENT_SUCCESS posted by hand through `/status`, paid or not (`forced`) |

A message that was published may be handled at any later time and any number of
times, which covers delay, duplication and reordering. The environment is written
from its use in `src/`: settle and refund commands are only published for an order
that came to PAYMENT_SUCCESS, by payment or by hand; Stripe answers one idempotency key with one
session; only `resume` returns a URL to the customer (`PaymentRead.checkout_url`),
so only that session can be paid. The `Ref` of a row says which of those ids it
holds, since a webhook finds its row by that id. Amounts, signatures and ids are
abstracted. The adapter is Stripe's; the deterministic `CardProvider` is a stand-in
for tests.

### Delivery

A *slot* runs one transaction, of a driver, of the consumer or of a restaurant.
`delivery` is the table, `lock` its row locks, `roster` the copy of the drivers;
`announced` is the last delivery event by commit and `events` those the orders
service has yet to handle; `order` and `ready` stand for the orders service, and
`astray` records the events that went astray on the way.

| action | code |
|---|---|
| `CallDriver` | `accept_assignment`, `reject_assignment`, `pickup`, `deliver` up to the commit: `_owned_active` with `FOR UPDATE`, the status check, what becomes of the row |
| `Assign`, `InsertDelivery` | `_apply_order_event` and `assign_for_order`: the unlocked reads, then the insert or the IntegrityError path; its event is recorded before the flush, so without a driver its status is null (`Unflushed`) |
| `Reassign` | `reassign_delivery_for_order`: an unlocked read of any delivery |
| `CommitDelivery` | the UPDATE of the changed columns, the outbox row, the commit |
| `Crash` | an exception or a lost process |
| `RosterChange` | `_apply_user_event` |
| `MoveOrder` | environment: any move of the order the state machine allows |
| `HandleDeliveryEvent` | `_apply_delivery_event` with `driver_advance`; a refused move is acknowledged |
| `LoseDeliveryEvent`, `LoseReadyEvent` | its `except Exception`; on Kafka, any message whose handler failed |

Which of the free drivers is picked (distance, list order) is left open. Delivery
events of one order come in any order, may repeat and may be lost (`events` is a set);
the order row moves in single steps here, its overlapping transactions are `Orders`. A
READY_FOR_PICKUP event may be handled at any later time and any number of times.

### Checkout

`req[q]` is the call in slot q of the orders service and `remote[q]` its handler in
the restaurants service, which goes on when the caller has timed out. Every await of
the code separates two actions.

| action | code |
|---|---|
| `StartAdd`, `Lookup`, `AddLine`, `StartUpdate`, `Load`, `SetLine`, `Save`, `clear_cart` | `cart.py`: the JSON value is read, changed and written back whole |
| `StartReorder`, `LookUpAll`, `ClearForReorder` | `reorder.py`, which then adds line by line |
| `StartCheckout`, `Unlock`, `LockExpires` | `create_order_from_checkout`: SET NX with a time to live, and the DELETE that does not look whose key it is |
| `ReadCart`, `Receive`, `Timeout` | `checkout.py` and the client with its breaker |
| `HandlerReads`, `HandlerWrites` | `validate_order` and `release-stock`: plain reads, then absolute UPDATEs |
| `InsertOrder`, `InsertFails`, `EmptyTheCart` | the order's transaction, and the cart cleared after it |
| `CancelRead`, `CancelFlushes`, `CancelCommits` | the customer's cancel with its release |
| `SetPrice`, `SwitchItem`, `SetStock`, `SwitchKitchen` | the owner's edits |
| `Crash`, `CooldownElapses` | the process, and with it the breaker, starts afresh; time |

### Accounts and Onboarding

A session is a pair of signed tokens, good while its id is not blocked and its
generation is the account's. `epoch` and `crossed` are history: the password a pair was
got with, and whether two changes overlapped. `change_password` commits, refreshes and
only then issues its pair (`PasswordCommits`, `ChangeAnswers`): the pair belongs to the
password the call set and carries whatever generation the row has by then.

| action | code |
|---|---|
| `register_user`, `login`, `logout`, `request_password_reset` | the functions of these names |
| `RefreshChecked`, `RefreshIssues` | `refresh_tokens` before and after it blocks the token |
| `ChangeRead`, `ResetRead`, `PasswordCommits`, `ChangeAnswers` | `change_password`, `reset_password`: generation read, then written |
| `Register`, `NewVenueRead`, `NewVenueCommits`, `SignupAcknowledged` | the registration's event, `register_from_signup` and `create_restaurant` |
| `DecisionRead`, `EditRead`, `WorkCommits` | `set_approval`, `update_restaurant`, each with `publish_restaurant` |
| `apply_restaurant_decision`, `Redelivered`, `Skipped`, `LateDecision` | the users service's consumer: a restart repeats, Kafka passes over a failed event, a handler past its time-out commits late |
| `Reordered` | `drain`: a failed row left behind, or a second relay |

### Messaging and ReadModels

A behaviour of `ReadModels` follows one subscription, chosen at the start (`sub`):
the events of one row and one group that consumes them. Subscriptions share no
state, so this loses nothing of what is asked. `outbox`, `relay` and `log` are the
publisher's side, `pos`, `committed` and `late` the consumer's; `failed`, `applied`
and `overtaken` are history.

| action | code |
|---|---|
| `TakeBatch`, `SendSucceeds`, `SendFails`, `BatchCommits`, `BatchLost` | `drain` and `OutboxRelay.run` |
| `Handled`, `HandlerFails`, `Restarts`, `RestartsAfterCommit` | `_run_kafka`, `_run_pubsub`: a failed message is passed on Kafka and repeated on Pub/Sub |
| `HandlerTimesOut`, `LateCommit` | `_handle`: `result(timeout)` gives up, the coroutine goes on with what it read |
| `OrderMoves`, `UserChanges`, `RestaurantChanges`, `MessageAsked` | the publishers: `_emit_status`, `publish_user`, `publish_restaurant`, `_notify` |
| `add_address`, `UpdateRead`, `UpdateCommits`, `delete_address` | `profile.py`; `Moved` decides whether the geocoder is asked |
| `Apply` (in the consumer's steps) | the handlers of orders, restaurants, delivery and admin; `Merged` is what their transaction writes |
| `Inform` (in the consumer's steps) | the handlers of notifications: sends, then the commit, which may not come |
| `PeopleStep` | preferences, devices, the contact's arrival |
| `create_review`, `update_review`, `reply_to_review`, `delete_review` | `reviews.py` |

A copy's columns are two: one every event carries, and one that may be null or
missing. The services differ in what they do then, which is what the properties
look at. A device's row keeps its place in the table when it is deleted (`there`), so
that a row number stays the id the code orders devices by.

### Catalogue

`schedule_status`, `next_open` and `within_schedule_clause` are the Python and the
SQL of `hours.py`, `Found` and the bands `discovery.py`, `Accepted` the check of
`validate_order`, `closedReason` and `DaysAhead` the browser's `lib/hours.ts`. The
week and the day are shorter than in the code (the constants), so that every
schedule can be tried at every minute; `CatalogueProofs` covers the code's lengths.

## 3. What the runs check

| run | instance | what it shows |
|---|---|---|
| `orders_all` | 1 order, 2 slots, all calls, 1 crash; 398 000 states | `TypeOK`; the last event and the last audit entry always carry the row's status (`OutboxMirrorsRow`); a FULL refund is booked exactly when it was asked for (`RefundBooked`); one settle, after a real delivery (`SettledOnce`); the kitchen is told once (`KitchenToldOnce`) |
| `orders_locked` | 1 order, 2 slots, the calls that lock, 2 crashes; 24 600 states | the audit trail is a legal walk (`AuditIsAWalk`), one refund and never refund with settle (`RefundedOnce`), stock back once plus once per crash (`StockReleasedOnce`), and `Orders` implements `OrderLifecycle` (`ImplementsLifecycle`) |
| `orders_sweeps` | 2 orders, 2 slots, sweeps and confirmations, 1 crash, fairness; 117 000 states | every transaction ends although sweeps lock rows in any order (`RequestsFinish`) |
| `orders_double_refund` | 1 order, 2 cancels | a violation: two refund commands |
| `payments` | 1 order (card or cash), 2 slots for messages, requests and webhook calls alike, all customer calls, no Redis, provider may fail, 1 crash and 2 overlaps of commands, messages passed over, fairness; 221 000 states | `TypeOK`; collected means charged, or forced by hand (`NothingCollectedUnpaid`); told means charged (`ToldOnlyIfPaid`); a cash refund is carried out once, plus once per crash and per overlapping command (`CashRefundedOnce`), and is final unless commands overlapped (`CashRefundFinal`); every order gets a payment row unless its messages were passed over (`EveryOrderGetsAPayment`) |
| `payments_lost_event` | 1 order, Redis, 1 crash, Stripe repeats | a violation: a paid order nobody hears of |
| `delivery` | 1 order, 2 drivers, 2 slots, 1 reassignment, transactions and events lost at any time, fairness; 285 000 states | `TypeOK`; an accepted delivery carries the driver who accepted it (`AcceptedByItsDriver`); the last event is the row, but for the null status of an unassigned first event (`LastEventIsRow`); picked up food stays with its driver (`HandedOverStays`); a delivered delivery becomes a delivered order (`DeliveredReachesOrder`) and a ready order gets a delivery (`EveryReadyOrderGetsADelivery`), unless the event went astray |
| `delivery_two_orders` | 2 orders, 2 drivers, no reassignment | a violation: one driver, two active deliveries |
| `checkout` | 2 customers, 2 slots, 3 items of 2 kitchens, one portion of the tracked one, 3 calls, 1 edit, time-out, failure or crash; 322 000 states | up to stale stock writes, shelf and orders never hold more than was put up (`NothingOversold`), and nothing goes missing unless something failed (`PortionsAccounted`); an order has the lines and prices of the page it was sent from, and one kitchen (`PaidWhatWasShown`); one filling of a cart is ordered once, unless the lock expired (`OrderedOnce`) |
| `accounts` | 1 applicant, 2 calls and 2 restaurant transactions at a time, 4 moves (calls, repeated, skipped, reordered and late events), fairness; 378 000 states | a new password ends older sessions unless two changes overlapped (`PasswordChangeEvicts`); no session before an approval (`NoSessionBeforeApproval`); one venue per owner unless two inserts overlapped (`OneVenuePerOwner`); the account has its venue's status once the events are handled, unless some were passed over or reordered (`MirrorsDecision`); an approved owner gets in (`ApprovedGetsIn`) |
| `messaging` | each of the 16 subscriptions that keep a copy or send, both transports, 2 relays, 2 events (3 of an address), 2 of: failures, restarts, calls and edits (1 failure or restart), fairness; 477 000 states | a message passed for good was handled, or failed on Kafka (`PassedIsHandled`); a copy has the last values sent (`CopyIsCurrent`); an address's point is of its line and city, at home and in the copy (`PointMatchesAddress`); reviews are of delivered orders (`ReviewsAreEarned`); the audit trail claims no more than went out (`AuditIsTrue`); no SMS that was not asked for (`SmsOnlyIfAsked`); the cap on devices (`DevicesCapped`); what is in the outbox gets to the broker (`EverythingGoesOut`) |
| `catalogue` | every week of 3 days of 4 minutes, every minute, 1 new schedule, 3 price bands; 280 000 states | the open-now filter finds exactly what checkout accepts, the bands of filter and card agree, the opening the card announces is one, on the day it says, and is the first but for two cases the property names (`CardIsTrue`) |

**Bounds.** Two transactions per order are enough for a check made by one and
invalidated by another; a third repeats one of the two roles, and the proofs cover
any number. Orders interact only through the transactions that hold several row
locks, which are the sweeps: hence two orders there and one elsewhere. `MaxCrashes`
bounds crashes (the properties that count them name it; in `payments` only lost
commands of cash orders are counted, all other handlers may be lost at any time),
`MaxOverlaps` the commands of a cash order begun beside another, and `RefundCap` the
counter of refund calls, above what the property allows. In `payments` both slots take
messages as well as requests, so any two handlers overlap; two overlaps one after the
other let a refund be repeated twice without a crash. No Redis means
every webhook delivery counts, the larger behaviour; the Redis path is
`payments_lost_event`.
In `delivery` orders meet only in the choice of a driver, and the roster already
makes every driver unavailable at every moment; `delivery_two_orders` has the two
orders its question needs.
In `checkout` two slots let any two calls overlap; the two customers compete for one
portion, and a customer's two tabs for one cart. `accounts` needs one account: accounts
meet only in the venue list, which the restaurants service keys by owner. In
`messaging` two relays and two rows can change the order of a key, and a third row
lets two edits of an address overlap; failures and calls share a budget (`MaxAtOnce`),
so two calls, or one call and one failure, are combined. An edit of an address
changes its line or its city, not both. In `catalogue` four minutes are enough for an
opening before, at and after a closing, and three days for yesterday, today and a
day that is neither.
No state constraint and no symmetry is used. Deadlock is checked except in `checkout`,
`accounts` and `messaging`, whose calls and events are bounded: when they are used up
and handled the system has stopped, as it should.

**Fairness.** A running handler or transaction goes on (weak fairness of its
steps): the event loop schedules it and every await has a timeout. A lock waiter is
served although others come and go (strong fairness of `Flush`), since Postgres
queues waiters. An order event is delivered until it is handled or the consumer has
gone past it (strong fairness of `ApplyOrderEvent` while the event is not in
`skipped`), and the handler it starts is not lost every time; only `RepeatingSpec`
also lets Stripe repeat its webhook. In `delivery` the commit of a transaction is
strongly fair (a row's waiters are queued), an assignment is tried until the event is
acknowledged or lost, and a delivery event is handled until it is acknowledged or
lost. No redelivery is assumed of a message Kafka has passed. In `accounts` the
users service's consumer goes on with what is published; in `messaging` each relay's
loop does (`OutboxRelay.run` goes round until it is cancelled, and swallows a failed
batch). Sends are not obliged to succeed: failures are bounded, so one succeeds in
the end. Clients, customers, drivers, owners, time and crashes are never obliged to
act.

## 4. Disagreements between the code and what the repository says

1. **Two cancels, two refund commands** (`OneRefundCommand`). `cancel_by_customer`
   reads the order without a lock (`orders/app/service.py:449`).
2. **A webhook that fails once is lost** (`PaidIsTold`). The event is marked seen
   before it is applied (`payments/app/webhook.py:110`).
3. **One driver, two active orders** (`OneActivePerDriver`). Busy drivers are read
   without a lock (`delivery/app/service.py:126`).

Where a property above has an exception, the code really takes it, and many of these
contradict a comment. Each is a step or two away from the model's variable that names
it, so no run is spent on it:

* **Stock goes back before the cancellation commits** (`StockReleasedOnce`, its
  `crashes`). `_restore_stock` says "Deliberately after the cancellation commits"
  (`orders/app/service.py:109`) and `release_stock` "The order is already cancelled and
  committed" (`orders/app/checkout.py:121`); `cancel_by_customer` and
  `reject_by_restaurant` call it before their commit (`orders/app/service.py:458`, `:487`),
  as does `advance_status` (`:505`, without a token, so it is refused). A crash
  in between puts back the stock of an order that is still on, and the retry puts it
  back again.
* **A card order nobody paid is booked as collected** (`forced`). Owner or admin may
  post PAYMENT_SUCCESS through `/status` (`orders/app/service.py:495`); the order goes on to
  DELIVERED, is settled, and `capture_payment` books SUCCEEDED with nothing charged.
* **Overlapping commands move money twice** (`overlaps`). `refund_payment` and
  `capture_payment` read without a lock. Two deliveries of one refund at once, in
  Pub/Sub's pool or beside a handler past its time-out, both refund, where
  `payments/app/consumer.py:82-83` says "a redelivered command is a no-op rather than
  a second movement of money"; and a settle that read its row before the refund
  committed books the refunded payment as collected, the reordering that
  `payments/app/service.py:126-129` calls "an expected delivery, not a fault".
* **Kafka passes over a failed message** (`failed`, `skipped`, `astray`). The consumer goes on
  to the next message and commits past the failed one (`shared/messaging.py:226-233`),
  while the module says "the delivery semantics are the same everywhere", at least once,
  and "a handler that raises leaves the message unacknowledged for redelivery"
  (`shared/messaging.py:17-21`). An order may so never get its payment row or its
  delivery, an owner never their access, and a copy keeps its old value.
* **Events of one key change their order** (`overtaken`, `astray`): two relays, or a failed send
  (`shared/messaging.py:97` counts on their order). A DELIVERED that comes before its
  PICKED_UP is refused, acknowledged and gone; an older decision can be the last one
  an account is told of.
* **An unassigned delivery is announced with status null** (`LastEventIsRow`).
  `assign_for_order` records the event before the flush that applies the column's
  default (`delivery/app/service.py:211`, `models.py:59`).
* **A session outlives a reset** (`crossed`): of two changes of a password that overlap, one's
  sessions survive; and a reset that commits between `change_password`'s commit and
  its refresh gives the caller, who knew only the older password, a pair of the newest
  generation (`users/app/service.py:83-85`). `reset_password` says "Every existing
  session is evicted" (`users/app/service.py:56`).
* **The announced opening is not the next** (`OpensWhenAnnounced`). `_next_open` says
  "Next scheduled opening within one week" (`restaurants/app/hours.py:148`). A day open
  all day (equal ends) opens at midnight, but is announced for the time in its row, say
  10:00. And a venue open on Mondays only announces nothing on a Monday evening,
  although it opens again within the week.
* **Stock is sold twice** (`stale`): stock is read and written back without a lock, so two
  checkouts can sell one portion (`restaurants/app/internal.py:178-179` says "nobody
  can take the last portion").
* **An address has another's point** (`overlapped`): two edits that overlap.
* **A slow checkout** (`expired`) deletes the lock of the next one.
* A swept order keeps its stock: the sweep's release call carries no token and is
  refused (`orders/app/service.py:554`).
* A late webhook undoes a card's refund: `handle_event` assigns SUCCEEDED whatever the
  row says (`payments/app/webhook.py:146`). `Payments` models it; no property is about it.
* After its cooldown the breaker lets every call through, where
  `shared/http_client.py:64` says "so a burst does not all probe at once".

## 5. What is proved

Every invariant and every action property of the passing runs, and the refinement of
`OrderLifecycle`, is a theorem: the run shows it on a small instance, the theorem for
every value of the constants under the assumptions the modules name. Those say which
calls there are, that `None` and `Absent` are none of the other values, that bounds
are natural numbers, and that there is at least one user, customer and item.

| module | inductive invariant | theorems on properties of a run |
|---|---|---|
| `OrdersProofs` | `IInv`, then `SettleInv`, `KitchenInv`; `AsRead`; under locked calls `OneOrderInv`, `PlaceInv`, `StockInv` | `TypeOK`, `OutboxMirrorsRow`, `RefundBooked`, `SettledOnce`, `KitchenToldOnce`; for locked calls `ImplementsLifecycle`, `RefundedOnce`, `AuditIsAWalk`, `StockReleasedOnce`; for one transaction at a time `RefundedOnce`, `AuditIsAWalk` |
| `PaymentsProofs` | `IInv`, then `CashInv` | `TypeOK`, `NothingCollectedUnpaid`, `ToldOnlyIfPaid`, `CashRefundedOnce`, `CashRefundFinal` |
| `DeliveryProofs` | `IInv`; for one transaction at a time `ActiveInv` | `TypeOK`, `AcceptedByItsDriver`, `LastEventIsRow`, `HandedOverStays` |
| `CheckoutProofs` | `IInv`; for one call at a time `ReadAsIs` | `NothingOversold`, `PortionsAccounted`, `PaidWhatWasShown`, `OrderedOnce` |
| `OnboardingProofs` | `IInv` | `PasswordChangeEvicts`, `NoSessionBeforeApproval`, `OneVenuePerOwner`, `MirrorsDecision` |
| `ReadModelsProofs` | `IInv` | `PassedIsHandled`, `CopyIsCurrent`, `PointMatchesAddress`, `ReviewsAreEarned`, `AuditIsTrue`, `SmsOnlyIfAsked`, `DevicesCapped` |
| `CatalogueProofs` | `TypeInv` | `CardIsTrue` |

**`OrdersProofs`.** `IInv` says, beyond types: a row books a refund in both columns
or neither, and only once ended (`RowInv`); a transaction has read orders that
exist, has only taken those its checks permit, holds the lock of what it flushed,
and, if it read with `FOR UPDATE`, what it read is what the table still says
(`ReqInv`). Without the last two the commit of a stale writer could not be related
to the row it overwrites. `SettleInv`: a settle command means the status is
DELIVERED or COMPLETED and nobody unlocked can leave it. `KitchenInv`: an order the
kitchen has heard of has left the statuses mark_paid takes, and none of them is
entered again. The other results assume that only locked calls are made
(`Calls \subseteq LockedCalls`), and are false without: each step is then a lifecycle
step or a stutter; a transaction works on one order (`OneOrderInv`), so its audit
entry continues the last (`WalkAppend`); and stock has gone back once more than
requests crashed only if the order ended or the transaction that ends it is past its
release (`StockInv`).

**`PaymentsProofs`.** `IInv` says of an order: told means charged; announced as paid,
or booked as collected on a card, means charged or forced by hand (`Due`); commands
exist only for an order that came to PAYMENT_SUCCESS (`OrderInv`). Of a handler: it
works on a placed order, a publication to come is about a charge Stripe has already
taken, and an UPDATE to SUCCEEDED about such a charge or a forced order (`HandlerInv`).
The handler part is what makes it inductive: a row read before an await may be stale
when the commit comes, but a charge is never taken back, so what was true at the
decision is true at the commit. This is for any number of overlapping handlers, and so
are the cash results. `CashInv`: a cash row names no session and is never FAILED, so no
webhook finds it and no retry takes it (`CashRow`). What may still give money back is
counted before it does (`Owing`): a refund on its way to the provider, and a settle
begun beside another command, which may write over REFUNDED. Refunds and owing slots
together never exceed crashes and overlaps by more than one, and not even by that while
the row can still be refunded (`CashCount`); without overlaps one command at a time
works on a row not yet refunded (`CashSolo`).

**`DeliveryProofs`.** `RequestInv`: a driver's call that is running holds the lock of
its row, the row is still what it read, and what it will write is an outcome of its
call from a status it may be made in. Commits of others wait for the lock, an insert
cannot hit an existing row, so this survives every step; it is what turns the
UPDATE of changed columns into the value the call decided (`DriverCommit`). An insert
writes the offer it announced, whose status the event leaves null when nobody carries
it (`OrderInv`). The theorems cover any number of orders, drivers, slots, reassignments and failures.

**`CheckoutProofs`.** Three arguments. *Carts*: every cart is sound (`SoundCart`: a
price for each line, one kitchen), so is what a call is about to save, and a checkout
past its comparison has the very cart its page showed, not empty (`InHand`); the
handler it called has the same lines (`HandlerInv`). *The lock*: while no lock of a
customer expired, one checkout of theirs runs and holds it, and a filling that was
ordered is still in the cart only while that checkout is about to clear it or has
died (`LockInv`). *Portions*: `Ordered`, `Reserved` and `PutBack` are the sets of
single portions, so that every step moves a set of portions and the count follows
from cardinalities of finite sets, for any menu (`PortionInv`); a step that neither
writes stale stock nor fails keeps the sum exactly.

**`OnboardingProofs`.** `GenerationInv`: unless two changes overlapped, an account's
generation is the number of its password, in the row, in every token and in every
refresh about to issue one; `change_password` reads it anew, and `crossed` is what it
may have missed; so a token of an older password has an older generation.
`KnownInv` and `ApprovedInv`: whatever says "approved" in a row, an event or a
running transaction's memory is of a venue that was approved, and whoever holds a
token, a link or a call is cleared. `LastEventInv` and `MirrorInv`: a transaction no
commit has overtaken holds the row as it is, so the last event is the row, and the
account has the last event handled unless one was passed over or came out of order.

**`ReadModelsProofs`.** For every subscription, both transports and any number of
relays: batches never share a row (`RelayInv`), and every message before the one at
hand was handled or failed on Kafka (`ConsumerInv`, more than `PassedIsHandled`, which
looks at acknowledged ones). `CopyInv` follows a copy through the log: each detail is
that of some message no later carrier of which was passed unfailed (`DetailFrom`).
`AddressInv` needs the edits in progress: one no event has overtaken was read from the
row as it is. `NoticeInv`: SMS is not even enabled until asked for, and a registration
that makes room leaves a place free.

**`CatalogueProofs`.** The state invariant is types alone; the work is arithmetic. A
quotient is determined by its product and remainder (`Quotient`), which gives the
weekday and minute of any instant from the days and minutes until it (`Instant`), and
the schedule's word on it from two rows (`StatusAhead`). Before the first opening
ahead nothing is open, across midnights too, but for a day that is open all day
(`Quiet`); at it the venue opens (`OpensThen`), and the weekdays count the days to it
(`CountsTheDays`). It covers any
length of day, and of week from two days on: 7 and 1440 among them. The bands rest on
the bounds rising (`BoundsRise`).

Where a proof needs the least element of a set of numbers or an induction, it takes
the least counterexample (`LeastElement`), from the well-foundedness of strict subset
on finite sets.

*Where the overlap is.* Three promises of the repository are broken, or have an
exception, only because two calls overlap. Theorems say so: with one slot
(`OneSlot`) and everything else allowed, crashes, failures, timeouts and retries
included, every unlocked read is still true when it is used. `AsRead`: a
transaction holds its orders as the table has them, so `OneAtATimeRefundsOnce` gives
what locked calls give, for cancels and sweeps too. `ActiveInv`: the driver about to
be written is on no other active delivery (`OneAtATimeOneActive`, without
reassignment, which does not ask whether its driver is free). `ReadAsIs`: the stock
about to be written is computed from the stock there is, so nothing is ever stale and
nothing oversold (`OneAtATimeNothingOversold`, where nobody sets a tracked stock by
hand). In `Checkout` a call holds its slot until its handler in the restaurants
service has ended, past the caller's time-out.

Only model-checked: the liveness properties `RequestsFinish`, `EveryOrderGetsAPayment`,
`DeliveredReachesOrder`, `EveryReadyOrderGetsADelivery`, `ApprovedGetsIn` and
`EverythingGoesOut`, since liveness under fairness and ENABLED are out of TLAPS's
reach. The three violations are TLC's counterexamples.

## 6. Notes on what the models leave out

* `expire_unpaid_orders` racing `mark_paid` leaves a paid order CANCELLED with no
  refund: both models allow it, no statement in the repository excludes it.
* REJECTED posted through `/status` gives no refund and releases no stock.
* `reassign_delivery_for_order` reads without a lock: beside an accept it leaves a row
  ACCEPTED in the name of a driver who accepted nothing, and it takes delivered
  deliveries back. `Delivery` models it and its properties name it as their exception;
  the repository states nothing it would violate.
* `_apply_delivery_event` acknowledges every exception, a failing database too.
  `Delivery` models that as a lost event (`astray`).
* A delivery that found no driver stays UNASSIGNED until a restaurant reassigns it.
* A refund Stripe refuses still marks the row REFUNDED; `Payments` counts the call,
  not its answer.
* The price fingerprint of a cart leaves out quantities; `PaidWhatWasShown` compares
  what it covers. `reorder` clears the cart before it adds, and leaves it partial when
  an add fails. Clearing the cart after an order also drops lines added meanwhile.
* `validate_order` does not look at the venue's approval, and an owner can reopen a
  rejected one; `Catalogue` models both.
* `update_profile` tells no other service, nor does `delete_address`; their copies keep
  the old values. The default flag, label and second line of an address are left out.
* A geocode that fails on an edit clears the orders service's point; the delivery
  service keeps the destination it has, since it overwrites only what is carried.
  `CopyIsCurrent` says so.
* Every edit of an approved venue publishes its status again, and so mails the
  owner "approved" again; `Notifications` sends it, nothing forbids it.
* Registration of an admin, the admin gate and the admin's forced reset are left out:
  one-time set-up behind a secret. Favourites are rows nobody else reads.
* Driver locations and the ETA are geo arithmetic and a cache; a route read before a
  driver's move can be cached after it, for its time to live.
* The average of a restaurant's ratings, text search, sorting, delivery zones and
  image storage are queries and I/O.
* Read routes, formatting, authorisation details and amounts are not modelled; a
  refusal for authorisation is one of the outcomes of `Refuse`, or no step at all.

## 7. Plan

1. The one-at-a-time theorems with a history variable in place of `OneSlot`, which
   would allow calls about different orders to overlap.
2. `OrderPayments`: `Orders` and `Payments` composed over the two topics, replacing
   their environments. Properties: a requested refund is carried out, a paid order
   reaches the kitchen or is refunded.
