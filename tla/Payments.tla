----------------------------- MODULE Payments -----------------------------
(***************************************************************************)
(* The payments service: services/payments/app (service.py, consumer.py,   *)
(* webhook.py and the Stripe adapter of providers.py).                     *)
(*                                                                         *)
(* Handlers run in slots, which bound how many run at once: order events   *)
(* and payment commands in the Consumers, requests of the customer and     *)
(* webhook calls of Stripe in the Callers (a slot may serve both).  Two    *)
(* messages of one order may be at work at once: Pub/Sub's callbacks run   *)
(* in a pool, and a handler that outlives its time-out goes on beside its  *)
(* own redelivery.  No handler locks the payment row: each reads it, may   *)
(* call the provider, and commits later what it decided from the row it    *)
(* read.  Messages and webhook calls may come late, in any order and more  *)
(* than once, and a message that failed may never come again; a crash may  *)
(* end any handler.                                                        *)
(*                                                                         *)
(* External and modelled from its use here: the orders service (what it    *)
(* publishes, and when), Stripe and the customer on Stripe's page.         *)
(***************************************************************************)
EXTENDS Naturals, FiniteSets

CONSTANTS
    Orders,           \* order ids
    Consumers,        \* slots a message of the event consumer may run in
    Callers,          \* slots an HTTP request may run in
    CustomerCalls,    \* what customers call, a subset of {"resume", "retry", "confirm"}
    Absent,           \* no row yet
    RedisUp,          \* is Redis there to tell a redelivered webhook event?
    ProviderCanFail,  \* may a call to Stripe fail (providers.py degrades it to ok=False)?
    MaxCrashes,       \* bound on commands of COD orders lost to a crash or an exception
    MaxOverlaps       \* bound on the commands of an order begun beside another

ASSUME CallsAssumption == CustomerCalls \subseteq {"resume", "retry", "confirm"}
ASSUME FlagsAssumption == RedisUp \in BOOLEAN /\ ProviderCanFail \in BOOLEAN
ASSUME BoundsAssumption == MaxCrashes \in Nat /\ MaxOverlaps \in Nat
ASSUME SlotsAssumption == IsFiniteSet(Consumers) /\ IsFiniteSet(Callers)

PaymentTxStatus == {"PENDING", "AUTHORIZED", "SUCCEEDED", "FAILED", "REFUNDED"}
ASSUME AbsentAssumption == Absent \notin PaymentTxStatus /\ Absent \notin Orders

\* What the orders service says of an order; every later status is "LATER".
OrderEvent == {"PAYMENT_PENDING", "PAYMENT_SUCCESS", "LATER"}
FirstEvents == OrderEvent \ {"LATER"}
Command == {"settle", "refund"}

\* The reference a payment row holds: nothing, the Checkout Session opened at
\* creation or by a retry (their URLs reach no customer), the session whose URL
\* resume hands to the customer, or that session's PaymentIntent.
Ref == {"none", "first", "retry", "session", "intent"}

\* Stripe's side of the session resume opens: not handed out, open, paid,
\* completed with the money still on its way, and how that ended.
Stripe == {"none", "open", "paid", "waiting", "late_paid", "late_failed"}
Charged == {"paid", "late_paid"}

SettlesIntent == {"payment_intent.succeeded"}
SettlesSession == {"checkout.completed", "checkout.completed_unpaid", "checkout.async_succeeded"}
FailsIntent == {"payment_intent.payment_failed"}
FailsSession == {"checkout.async_failed"}
WebhookEvent == SettlesIntent \cup SettlesSession \cup FailsIntent \cup FailsSession

VARIABLES
    emitted,   \* emitted[o]: the order events published for o
    commands,  \* commands[o]: the payment commands published for o
    snapshot,  \* snapshot[o]: status in this service's copy of the order
    payment,   \* payment[o]: the row of table payments
    told,      \* told[o]: is a SUCCEEDED payment event of o in the outbox?
    seen,      \* webhook events Redis remembers, as <<order, event>>
    refunds,   \* refunds[o]: calls of provider.refund for a COD order, up to RefundCap
    stripe,    \* stripe[o]: the customer's session at Stripe
    handler,   \* handler[h]: what slot h is doing
    crashes,   \* commands of COD orders lost so far
    forced,    \* history: orders put to PAYMENT_SUCCESS by hand, unpaid
    skipped,   \* <<order, event>>: messages the consumer went past, of orders that
               \* have no payment yet
    overlaps   \* history, overlaps[o]: commands of a COD order begun beside another

vars == <<emitted, commands, snapshot, payment, told, seen, refunds, stripe, handler, crashes,
          forced, skipped, overlaps>>
outside == <<emitted, commands, stripe, forced>>
history == <<skipped, overlaps>>

RefundCap == MaxCrashes + MaxOverlaps + 2

Slots == Consumers \cup Callers
Payment == [status : PaymentTxStatus \cup {Absent}, ref : Ref]
NoPayment == [status |-> Absent, ref |-> "none"]

\* The columns an UPDATE sets; "same" for those it leaves out.
Update == [status : PaymentTxStatus \cup {"same"}, ref : Ref \cup {"same"}]
NoUpdate == [status |-> "same", ref |-> "same"]

Handler == [pc : {"idle", "create", "insert", "provider", "verify", "commit", "tell"},
            order : Orders \cup {Absent},
            began : {"none", "alone", "beside"},  \* a COD order's command: did another run?
            row : Payment,      \* the row it read (verify) or is to insert
            update : Update,    \* the UPDATE it is to commit
            after : {"end", "url", "tell"}]  \* what follows the commit

Idle == [pc |-> "idle", order |-> Absent, began |-> "none",
         row |-> NoPayment, update |-> NoUpdate, after |-> "end"]

TypeOK ==
    /\ emitted \in [Orders -> SUBSET OrderEvent]
    /\ commands \in [Orders -> SUBSET Command]
    /\ snapshot \in [Orders -> OrderEvent \cup {Absent}]
    /\ payment \in [Orders -> Payment]
    /\ told \in [Orders -> BOOLEAN]
    /\ seen \subseteq Orders \X WebhookEvent
    /\ refunds \in [Orders -> 0..RefundCap]
    /\ stripe \in [Orders -> Stripe]
    /\ handler \in [Slots -> Handler]
    /\ crashes \in 0..MaxCrashes
    /\ forced \subseteq Orders
    /\ skipped \subseteq Orders \X OrderEvent
    /\ overlaps \in [Orders -> 0..MaxOverlaps]

Init ==
    /\ emitted = [o \in Orders |-> {}]
    /\ commands = [o \in Orders |-> {}]
    /\ snapshot = [o \in Orders |-> Absent]
    /\ payment = [o \in Orders |-> NoPayment]
    /\ told = [o \in Orders |-> FALSE]
    /\ seen = {}
    /\ refunds = [o \in Orders |-> 0]
    /\ stripe = [o \in Orders |-> "none"]
    /\ handler = [h \in Slots |-> Idle]
    /\ crashes = 0
    /\ forced = {}
    /\ skipped = {}
    /\ overlaps = [o \in Orders |-> 0]

\* A card order is announced while it waits for the money, a COD order is not.
IsCard(o) == "PAYMENT_PENDING" \in emitted[o]

-----------------------------------------------------------------------------
(* Outside: the orders service, the customer and Stripe.                   *)

PlaceOrder(o) ==
    /\ emitted[o] = {}
    /\ \E first \in {"PAYMENT_PENDING", "PAYMENT_SUCCESS"} :
         emitted' = [emitted EXCEPT ![o] = {first}]
    /\ UNCHANGED <<commands, snapshot, payment, told, seen, refunds, stripe, handler, crashes, forced, history>>

\* PAYMENT_SUCCESS: mark_paid, when the payment event reaches the orders service
\* in time; or advance_status, when the owner or an admin posts it, paid or not.
OrderPaid(o) ==
    /\ emitted[o] = {"PAYMENT_PENDING"}
    /\ emitted' = [emitted EXCEPT ![o] = @ \cup {"PAYMENT_SUCCESS"}]
    /\ forced' = IF told[o] THEN forced ELSE forced \cup {o}
    /\ UNCHANGED <<commands, snapshot, payment, told, seen, refunds, stripe, handler, crashes, history>>

\* The order goes on or ends.  Only an order that came to PAYMENT_SUCCESS is
\* settled or refunded; a stale cancel even asks for both.  A command may never
\* be handled, so asking for both covers asking for either.
OrderMovesOn(o) ==
    /\ emitted[o] # {} /\ "LATER" \notin emitted[o]
    /\ emitted' = [emitted EXCEPT ![o] = @ \cup {"LATER"}]
    /\ commands' = IF "PAYMENT_SUCCESS" \in emitted[o]
                   THEN [commands EXCEPT ![o] = Command] ELSE commands
    /\ UNCHANGED <<snapshot, payment, told, seen, refunds, stripe, handler, crashes, forced, history>>

\* The customer completes the open session: paid at once, or by a delayed
\* method whose outcome comes later.
Pay(o) ==
    /\ \/ stripe[o] = "open" /\ stripe' \in {[stripe EXCEPT ![o] = s] : s \in {"paid", "waiting"}}
       \/ stripe[o] = "waiting" /\ stripe' \in {[stripe EXCEPT ![o] = s] : s \in {"late_paid", "late_failed"}}
    /\ UNCHANGED <<emitted, commands, snapshot, payment, told, seen, refunds, handler, crashes, forced, history>>

\* The events Stripe has sent about a session in that state.  A declined card
\* fails the intent and leaves the session open for another try.
Sent(s) ==
    CASE s = "none" -> {}
      [] s = "open" -> FailsIntent
      [] s = "paid" -> FailsIntent \cup {"checkout.completed", "payment_intent.succeeded"}
      [] s = "waiting" -> FailsIntent \cup {"checkout.completed_unpaid"}
      [] s = "late_paid" -> {"checkout.completed_unpaid", "checkout.async_succeeded",
                             "payment_intent.succeeded"} \cup FailsIntent
      [] s = "late_failed" -> {"checkout.completed_unpaid", "checkout.async_failed"} \cup FailsIntent

-----------------------------------------------------------------------------
(* The row and the handler's view of it.                                   *)

Enter(h, o, pc, row) ==
    handler' = [handler EXCEPT ![h] = [Idle EXCEPT !.pc = pc, !.order = o, !.row = row]]

\* The UPDATE names the columns whose value differs from the one read.
Changes(read, new) ==
    [status |-> IF new.status # read.status THEN new.status ELSE "same",
     ref |-> IF new.ref # read.ref THEN new.ref ELSE "same"]

\* The handler read the row, and is to commit what it decided from it.
Decide(h, o, pc, new, after) ==
    handler' = [handler EXCEPT ![h] =
        [Idle EXCEPT !.pc = pc, !.order = o, !.update = Changes(payment[o], new), !.after = after]]

\* Is a command of the COD order at work?
AtWork(o) == \E h \in Slots : handler[h].began # "none" /\ handler[h].order = o

\* The handler of a command, likewise; it may begin while another is at work.
Carry(h, o, pc, new) ==
    LET began == IF IsCard(o) THEN "none" ELSE IF AtWork(o) THEN "beside" ELSE "alone" IN
    /\ AtWork(o) => overlaps[o] < MaxOverlaps
    /\ overlaps' = IF AtWork(o) THEN [overlaps EXCEPT ![o] = @ + 1] ELSE overlaps
    /\ handler' = [handler EXCEPT ![h] =
        [Idle EXCEPT !.pc = pc, !.order = o, !.began = began, !.update = Changes(payment[o], new)]]

Leave(h) == handler' = [handler EXCEPT ![h] = Idle]

\* Mutant: the orders service's word for paid.
CollectedAsOrder == [status |-> "SUCCESS", ref |-> "intent"]

\* A row whose session was paid: the session gives way to its intent.
Collected == [status |-> "SUCCEEDED", ref |-> "intent"]

With(o, status) == [payment[o] EXCEPT !.status = status]

\* authorize: a Checkout Session under the call's own idempotency key, or an
\* error; COD has nothing to open.
Authorized(o, key) ==
    IF IsCard(o)
    THEN {[status |-> "AUTHORIZED", ref |-> key]}
            \cup (IF ProviderCanFail THEN {[status |-> "FAILED", ref |-> "none"]} ELSE {})
    ELSE {[status |-> "AUTHORIZED", ref |-> "none"]}

Written(cur, update) ==
    [status |-> IF update.status # "same" THEN update.status ELSE cur.status,
     ref |-> IF update.ref # "same" THEN update.ref ELSE cur.ref]

-----------------------------------------------------------------------------
(* The consumer.                                                           *)

\* Mutant: only an order still waiting for its payment gets one.
PayablePendingOnly == {"PAYMENT_PENDING"}

PAYABLE_STATUSES == {"PAYMENT_PENDING", "PAYMENT_SUCCESS"}

\* _apply_order_event, first commit: the copy takes the event's status, be it
\* older than the one it holds.
ApplyOrderEvent(h, o, status) ==
    /\ h \in Consumers /\ handler[h].pc = "idle"
    /\ status \in emitted[o]
    /\ snapshot' = [snapshot EXCEPT ![o] = status]
    /\ IF status \in PAYABLE_STATUSES
       THEN Enter(h, o, "create", NoPayment)
       ELSE UNCHANGED handler
    /\ UNCHANGED <<outside, payment, told, seen, refunds, crashes, history>>

\* create_payment_for_order: nothing to do when the row exists, otherwise
\* authorize before inserting.
CreatePayment(h) ==
    LET o == handler[h].order IN
    /\ handler[h].pc = "create"
    /\ IF payment[o] # NoPayment
       THEN Leave(h)
       ELSE \E new \in Authorized(o, "first") : Enter(h, o, "insert", new)
    /\ UNCHANGED <<outside, snapshot, payment, told, seen, refunds, crashes, history>>

\* The unique order_id lets one insert win; the loser keeps the winner's row.
InsertPayment(h) ==
    LET o == handler[h].order IN
    /\ handler[h].pc = "insert"
    /\ payment' = IF payment[o] = NoPayment THEN [payment EXCEPT ![o] = handler[h].row] ELSE payment
    /\ skipped' = {m \in skipped : m[1] # o}
    /\ Leave(h)
    /\ UNCHANGED <<outside, snapshot, told, seen, refunds, crashes, overlaps>>

CAPTURABLE == {"PENDING", "AUTHORIZED"}

\* Mutant: SUCCEEDED whatever the row says.
CaptureAnything(h, o) ==
    /\ h \in Consumers /\ handler[h].pc = "idle"
    /\ "settle" \in commands[o]
    /\ snapshot[o] # Absent
    /\ payment[o] # NoPayment
    /\ Carry(h, o, "commit", With(o, "SUCCEEDED"))
    /\ UNCHANGED <<outside, snapshot, payment, told, seen, refunds, crashes, skipped>>

\* _apply_payment_command, settle (capture_payment).  Without a copy of the
\* order the command is left for redelivery; without a capturable row it is
\* done and nothing changes.
CapturePayment(h, o) ==
    /\ h \in Consumers /\ handler[h].pc = "idle"
    /\ "settle" \in commands[o]
    /\ snapshot[o] # Absent
    /\ payment[o].status \in CAPTURABLE
    /\ Carry(h, o, "commit", With(o, "SUCCEEDED"))
    /\ UNCHANGED <<outside, snapshot, payment, told, seen, refunds, crashes, skipped>>

\* Mutant: every delivery of the command refunds.
RefundEveryTime(h, o) ==
    /\ h \in Consumers /\ handler[h].pc = "idle"
    /\ "refund" \in commands[o]
    /\ snapshot[o] # Absent
    /\ payment[o].status \in {"AUTHORIZED", "SUCCEEDED", "REFUNDED"}
    /\ Carry(h, o, "provider", With(o, "REFUNDED"))
    /\ UNCHANGED <<outside, snapshot, payment, told, seen, refunds, crashes, skipped>>

\* _apply_payment_command, refund (refund_payment).
RefundPayment(h, o) ==
    /\ h \in Consumers /\ handler[h].pc = "idle"
    /\ "refund" \in commands[o]
    /\ snapshot[o] # Absent
    /\ payment[o].status \in {"AUTHORIZED", "SUCCEEDED"}
    /\ Carry(h, o, "provider", With(o, "REFUNDED"))
    /\ UNCHANGED <<outside, snapshot, payment, told, seen, refunds, crashes, skipped>>

\* provider.refund: its answer is not looked at.
CallRefund(h) ==
    LET o == handler[h].order IN
    /\ handler[h].pc = "provider"
    /\ refunds' = IF IsCard(o) \/ refunds[o] = RefundCap
                  THEN refunds ELSE [refunds EXCEPT ![o] = @ + 1]
    /\ handler' = [handler EXCEPT ![h].pc = "commit"]
    /\ UNCHANGED <<outside, snapshot, payment, told, seen, crashes, history>>

-----------------------------------------------------------------------------
(* The customer's calls.  They see the order through the copy.             *)

\* resume_card_payment, up to its commit; Stripe is asked under one key, so it
\* answers with one session however often the customer comes back.
ResumePayment(h, o) ==
    /\ h \in Callers /\ handler[h].pc = "idle"
    /\ "resume" \in CustomerCalls
    /\ IsCard(o) /\ snapshot[o] = "PAYMENT_PENDING" /\ payment[o] # NoPayment
    /\ \E new \in Authorized(o, "session") : Decide(h, o, "commit", new, IF new.ref = "session" THEN "url" ELSE "end")
    /\ UNCHANGED <<outside, snapshot, payment, told, seen, refunds, crashes, history>>

\* retry_payment: only a FAILED payment, whatever became of the order.
RetryPayment(h, o) ==
    /\ h \in Callers /\ handler[h].pc = "idle"
    /\ "retry" \in CustomerCalls
    /\ snapshot[o] # Absent /\ payment[o].status = "FAILED"
    /\ \E new \in Authorized(o, "retry") : Decide(h, o, "commit", new, "end")
    /\ UNCHANGED <<outside, snapshot, payment, told, seen, refunds, crashes, history>>

\* confirm_card_payment: the customer is back from the hosted page ...
ConfirmPayment(h, o) ==
    /\ h \in Callers /\ handler[h].pc = "idle"
    /\ "confirm" \in CustomerCalls
    /\ IsCard(o) /\ snapshot[o] = "PAYMENT_PENDING" /\ payment[o] # NoPayment
    /\ Enter(h, o, "verify", payment[o])
    /\ UNCHANGED <<outside, snapshot, payment, told, seen, refunds, crashes, history>>

\* Mutant: coming back from the hosted page is taken for having paid.
VerifyRedirect(h) ==
    /\ handler[h].pc = "verify"
    /\ handler' = [handler EXCEPT ![h].pc = "commit", ![h].row = NoPayment, ![h].after = "tell",
                                  ![h].update = Changes(handler[h].row, Collected)]
    /\ UNCHANGED <<outside, snapshot, payment, told, seen, refunds, crashes, history>>

\* ... and Stripe says whether the reference that was read is paid, or fails
\* to answer, which counts as not paid.
Verify(h) ==
    LET o == handler[h].order
        paid == handler[h].row.ref \in {"session", "intent"} /\ stripe[o] \in Charged
    IN /\ handler[h].pc = "verify"
       /\ \/ /\ paid
             /\ handler' = [handler EXCEPT ![h].pc = "commit", ![h].row = NoPayment, ![h].after = "tell",
                                           ![h].update = Changes(handler[h].row, Collected)]
          \/ /\ ~paid \/ ProviderCanFail
             /\ Leave(h)
       /\ UNCHANGED <<outside, snapshot, payment, told, seen, refunds, crashes, history>>

-----------------------------------------------------------------------------
(* The webhook: handle_event.                                              *)

\* Does the row hold the id the event is about?
Matches(o, e) ==
    payment[o].ref = IF e \in SettlesSession \cup FailsSession THEN "session" ELSE "intent"

\* The row the event leads to: a settled session is replaced by its intent, and
\* one completed by a delayed method only changes the reference.
EventWrites(o, e) ==
    CASE e \in FailsIntent \cup FailsSession -> With(o, "FAILED")
      [] e = "checkout.completed_unpaid" -> [payment[o] EXCEPT !.ref = "intent"]
      [] e \in SettlesSession \ {"checkout.completed_unpaid"} -> Collected
      [] e \in SettlesIntent -> With(o, "SUCCEEDED")

\* Mutant: a completed session is reported as a paid one.
EventTellsCompleted(e) == IF e \in FailsIntent \cup FailsSession THEN "end" ELSE "tell"

\* Only an event that settles goes on to publish.
EventTells(e) ==
    IF e \in FailsIntent \cup FailsSession \cup {"checkout.completed_unpaid"}
    THEN "end" ELSE "tell"

\* With Redis the event is marked as seen before anything is done about it, and
\* its redelivery is answered "duplicate"; without Redis every delivery counts.
ReceiveWebhook(h, o, e) ==
    /\ h \in Callers /\ handler[h].pc = "idle"
    /\ e \in Sent(stripe[o])
    /\ <<o, e>> \notin seen
    /\ seen' = IF RedisUp THEN seen \cup {<<o, e>>} ELSE seen
    /\ IF Matches(o, e) THEN Decide(h, o, "commit", EventWrites(o, e), EventTells(e))
                        ELSE UNCHANGED handler
    /\ UNCHANGED <<outside, snapshot, payment, told, refunds, crashes, history>>

-----------------------------------------------------------------------------
(* The ends of a handler.                                                  *)

\* The handler's commit.  Settling through webhook or confirm is published in a
\* second transaction; a resumed session's URL goes to the customer.
CommitPayment(h) ==
    LET o == handler[h].order IN
    /\ handler[h].pc = "commit"
    /\ payment' = [payment EXCEPT ![o] = Written(@, handler[h].update)]
    /\ stripe' = IF handler[h].after = "url" /\ stripe[o] = "none"
                 THEN [stripe EXCEPT ![o] = "open"] ELSE stripe
    /\ IF handler[h].after = "tell" THEN Enter(h, o, "tell", NoPayment) ELSE Leave(h)
    /\ UNCHANGED <<emitted, commands, forced, snapshot, told, seen, refunds, crashes, history>>

\* The second commit: the outbox row that tells the orders service.
TellOrders(h) ==
    /\ handler[h].pc = "tell"
    /\ told' = [told EXCEPT ![handler[h].order] = TRUE]
    /\ Leave(h)
    /\ UNCHANGED <<outside, snapshot, payment, seen, refunds, crashes, history>>

\* A crash or an exception: what was not committed is undone; the provider and
\* Redis keep what they were told.  Only lost commands of COD orders are counted.
Crash(h) ==
    /\ handler[h].pc # "idle"
    /\ IF handler[h].began = "none"
       THEN UNCHANGED crashes
       ELSE crashes < MaxCrashes /\ crashes' = crashes + 1
    /\ Leave(h)
    /\ UNCHANGED <<outside, snapshot, payment, told, seen, refunds, history>>

\* On Kafka the consumer goes past a message it failed to handle.
SkipOrderEvent(o, status) ==
    /\ status \in emitted[o] \cap FirstEvents /\ payment[o] = NoPayment
    /\ skipped' = skipped \cup {<<o, status>>}
    /\ UNCHANGED <<outside, snapshot, payment, told, seen, refunds, handler, crashes, overlaps>>

Proceed(h) == CreatePayment(h) \/ InsertPayment(h) \/ CallRefund(h) \/ Verify(h)
                \/ CommitPayment(h) \/ TellOrders(h)

Consume(h, o) ==
    (\E s \in OrderEvent : ApplyOrderEvent(h, o, s)) \/ CapturePayment(h, o) \/ RefundPayment(h, o)

Serve(h, o) ==
    ResumePayment(h, o) \/ RetryPayment(h, o) \/ ConfirmPayment(h, o)
      \/ \E e \in WebhookEvent : ReceiveWebhook(h, o, e)

Next ==
    \/ \E o \in Orders : PlaceOrder(o) \/ OrderPaid(o) \/ OrderMovesOn(o) \/ Pay(o)
    \/ \E h \in Slots, o \in Orders : Consume(h, o) \/ Serve(h, o)
    \/ \E h \in Slots : Proceed(h) \/ Crash(h)
    \/ \E o \in Orders, s \in OrderEvent : SkipOrderEvent(o, s)

Spec == Init /\ [][Next]_vars

\* A running handler goes on; a message is delivered until a handler has dealt
\* with it or the consumer has gone past it, and its handler is not lost every
\* time.  Customers, and Stripe, owe nothing.
Fairness ==
    /\ \A h \in Slots : WF_vars(Proceed(h))
    /\ SF_vars(\E h \in Slots : CreatePayment(h)) /\ SF_vars(\E h \in Slots : InsertPayment(h))
    /\ \A o \in Orders, s \in FirstEvents :
          SF_vars(<<o, s>> \notin skipped /\ \E h \in Consumers : ApplyOrderEvent(h, o, s))

FairSpec == Spec /\ Fairness

\* Stripe repeats an event until it is answered.
RepeatingSpec ==
    /\ FairSpec
    /\ \A o \in Orders, e \in WebhookEvent :
          SF_vars(\E h \in Callers : ReceiveWebhook(h, o, e))

-----------------------------------------------------------------------------
(* Properties.                                                             *)

\* Nothing is booked as collected from a card that Stripe did not charge: not by
\* a redirect, an unpaid session, a late event or a settle command.  Only an
\* order put to PAYMENT_SUCCESS by hand before the orders service was told may
\* be: nothing in advance_status or capture_payment asks whether it was paid.
NothingCollectedUnpaid ==
    \A o \in Orders :
        IsCard(o) /\ payment[o].status = "SUCCEEDED" => stripe[o] \in Charged \/ o \in forced

\* The orders service is never told that an order is paid before Stripe has the
\* money, whatever webhook calls, confirmations and crashes overlap.
ToldOnlyIfPaid == \A o \in Orders : told[o] => stripe[o] \in Charged

\* refund_payment takes no lock over the row it looked at: the money of a COD
\* order goes back once, and at most once more for each handler lost on the way
\* and for each command begun while another of the order was at work.
CashRefundedOnce == \A o \in Orders : ~IsCard(o) => refunds[o] <= 1 + crashes + overlaps[o]

\* ... and a settle command that comes late, or again, never books a refunded
\* COD order as collected, as long as no two commands of it were at work at once.
CashRefundFinal ==
    [][\A o \in Orders : ~IsCard(o) /\ payment[o].status = "REFUNDED" /\ overlaps[o] = 0
                            => payment'[o].status = "REFUNDED"]_vars

\* Every order that is placed gets its payment row, card or cash, although the
\* copy of the order and the row are written by different transactions; unless
\* the consumer went past every message that asks for one.
EveryOrderGetsAPayment ==
    \A o \in Orders :
        emitted[o] # {} ~>
            \/ payment[o] # NoPayment
            \/ \A s \in emitted[o] \cap FirstEvents : <<o, s>> \in skipped

-----------------------------------------------------------------------------
(* What the repository says of the program, and the code does not keep.    *)

\* "a dropped one loses a customer's payment" (webhook.py): a payment Stripe has
\* taken reaches the orders service.
PaidIsTold == \A o \in Orders : stripe[o] \in Charged ~> told[o]

=============================================================================
