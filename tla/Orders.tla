------------------------------ MODULE Orders ------------------------------
(***************************************************************************)
(* The orders service's lifecycle functions (services/orders/app/service.py*)
(* and the consumer handlers that call them) running against one Postgres  *)
(* database at READ COMMITTED.                                             *)
(*                                                                         *)
(* Each request (an HTTP call, a consumed payment or delivery event, an    *)
(* admin sweep) is one database transaction, taken here in the steps at    *)
(* which another transaction can interleave:                               *)
(*                                                                         *)
(*    read      SELECT ... FOR UPDATE (_locked_order), or a plain SELECT   *)
(*              (cancel_by_customer and the two sweeps);                   *)
(*    next      take the next order read and run the state machine on the  *)
(*              values read, or refuse the request;                        *)
(*    flush     the UPDATE reaches the database and takes the row lock;    *)
(*    release   the HTTP call that puts the stock back, if the function    *)
(*              makes one (it is made before the commit);                  *)
(*    commit    the row, the audit trail and the outbox rows, at once.     *)
(*                                                                         *)
(* A crash or an exception between any two steps rolls the transaction     *)
(* back; a stock release already made stays made.                          *)
(***************************************************************************)
EXTENDS OrderStateMachine, Naturals, Sequences

CONSTANTS
    Orders,        \* order ids
    Requests,      \* slots for transactions in flight
    Calls,         \* the calls clients make, a subset of AllCalls
    Absent,        \* status of an order that is not in the table yet
    None,          \* no actor, no order, no lock holder
    MaxCrashes,    \* bound on transactions lost to a crash or an error
    ReleaseCanFail \* may a release-stock call fail in transport?

\* The lifecycle functions that read with FOR UPDATE ...
LockedCalls ==
    [kind : {"mark_paid"}, to : {"PAYMENT_SUCCESS"}]
      \cup [kind : {"accept"}, to : {"RESTAURANT_ACCEPTED"}]
      \cup [kind : {"reject"}, to : {"REJECTED"}]
      \cup [kind : {"advance"}, to : OrderStatus]
      \cup [kind : {"driver"}, to : {"OUT_FOR_DELIVERY", "DELIVERED"}]

\* ... and those that read without a lock: one order, or every stale one.
CancelCalls == [kind : {"cancel"}, to : {"CANCELLED"}]
SweepCalls == [kind : {"expire_unpaid", "expire_acceptance"}, to : {"CANCELLED"}]

AllCalls == LockedCalls \cup CancelCalls \cup SweepCalls

ASSUME CallsAssumption == Calls \subseteq AllCalls
ASSUME NoneAssumption ==
    /\ None \notin Requests /\ None \notin Orders
    /\ None \notin Actor /\ None \notin OrderStatus
    /\ Absent \notin OrderStatus
ASSUME BoundsAssumption == MaxCrashes \in Nat /\ ReleaseCanFail \in BOOLEAN

VARIABLES
    row,       \* row[o]: the committed row of table orders
    lock,      \* lock[o]: the request holding the row lock, or None
    req,       \* req[q]: the transaction in slot q
    aged,      \* aged[o]: updated_at is older than the status's time window
    audit,     \* audit[o]: committed order_status_events of o
    published, \* published[o]: statuses written to the outbox on order-events
    requested, \* requested[o]: actions written to the outbox on payment-commands
    notified,  \* notified[o]: "order.new" notifications queued for the owner
    released,  \* released[o]: release-stock calls the restaurants service applied
    crashes    \* transactions lost so far

vars == <<row, lock, req, aged, audit, published, requested, notified, released, crashes>>
outbox == <<published, requested, notified>>

Row == [status : OrderStatus \cup {Absent}, payment_status : PaymentStatus,
        refund_status : RefundStatus, cancelled_by : Actor \cup {None}]

NoRow == [status |-> Absent, payment_status |-> "PENDING",
          refund_status |-> "NONE", cancelled_by |-> None]

AuditEntry == [from : OrderStatus \cup {None}, to : OrderStatus, actor : Actor]

Request == [pc : {"idle", "next", "flush", "release"},
            call : AllCalls \cup {None},
            cur  : Orders \cup {None},   \* the order being written
            todo : SUBSET Orders,        \* read, not yet taken
            held : SUBSET Orders,        \* flushed, waiting for the commit
            seen : [Orders -> Row]]      \* the rows as they were read

IdleRequest == [pc |-> "idle", call |-> None, cur |-> None, todo |-> {}, held |-> {},
                seen |-> [o \in Orders |-> NoRow]]

TypeOK ==
    /\ row \in [Orders -> Row]
    /\ lock \in [Orders -> Requests \cup {None}]
    /\ req \in [Requests -> Request]
    /\ aged \in [Orders -> BOOLEAN]
    /\ audit \in [Orders -> Seq(AuditEntry)]
    /\ published \in [Orders -> Seq(OrderStatus)]
    /\ requested \in [Orders -> Seq({"refund", "settle"})]
    /\ notified \in [Orders -> Nat]
    /\ released \in [Orders -> Nat]
    /\ crashes \in 0..MaxCrashes

Init ==
    /\ row = [o \in Orders |-> NoRow]
    /\ lock = [o \in Orders |-> None]
    /\ req = [q \in Requests |-> IdleRequest]
    /\ aged = [o \in Orders |-> FALSE]
    /\ audit = [o \in Orders |-> <<>>]
    /\ published = [o \in Orders |-> <<>>]
    /\ requested = [o \in Orders |-> <<>>]
    /\ notified = [o \in Orders |-> 0]
    /\ released = [o \in Orders |-> 0]
    /\ crashes = 0

-----------------------------------------------------------------------------
(* What each function decides from the row it read.                        *)

ActorOf(c) ==
    CASE c.kind \in {"mark_paid", "expire_unpaid", "expire_acceptance"} -> "SYSTEM"
      [] c.kind = "cancel" -> "CUSTOMER"
      [] c.kind = "driver" -> "DRIVER"
      [] c.kind \in {"accept", "reject", "advance"} -> "RESTAURANT"

\* Mutant: the status change is written without asking the state machine.
PermittedUnchecked(c, seen) ==
    /\ c.kind = "mark_paid" => seen.status = "PAYMENT_PENDING"
    /\ c.kind = "cancel" => customer_cancel_allowed(seen.status)

\* The function's own check, then the state machine's.
Permitted(c, seen) ==
    /\ c.kind = "mark_paid" => seen.status = "PAYMENT_PENDING"
    /\ c.kind = "cancel" => customer_cancel_allowed(seen.status)
    /\ TransitionAllowed(seen.status, c.to)

\* The paths that record a cancellation: cancelled_by, the refund, the stock.
Unwinds(c) ==
    \/ c.kind \in {"cancel", "reject", "expire_unpaid", "expire_acceptance"}
    \/ c.kind = "advance" /\ c.to = "CANCELLED"

\* Mutant: a rejection records the payment's word for refunded.
RefundOfWrongEnum(c, seen) ==
    CASE c.kind = "reject" -> "REFUNDED"
      [] c.kind = "expire_acceptance" -> "FULL"
      [] OTHER -> "NONE"

\* A kitchen rejection and an acceptance timeout always refund.
RefundOf(c, seen) ==
    CASE c.kind = "cancel" -> refund_on_cancel(seen.status, "CUSTOMER")
      [] c.kind = "advance" /\ c.to = "CANCELLED" ->
            refund_on_cancel(seen.status, "RESTAURANT")
      [] c.kind \in {"reject", "expire_acceptance"} -> "FULL"
      [] OTHER -> "NONE"

\* The order object at the end of the function, as the session holds it.
Decided(c, seen) ==
    [seen EXCEPT
        !.status = c.to,
        !.payment_status = CASE c.kind = "mark_paid" -> "SUCCESS"
                             [] RefundOf(c, seen) = "FULL" -> "REFUNDED"
                             [] OTHER -> @,
        !.refund_status = IF Unwinds(c) THEN RefundOf(c, seen) ELSE @,
        !.cancelled_by = IF Unwinds(c) THEN ActorOf(c) ELSE @]

\* Mutant: the whole row is written back.
WrittenWholeRow(cur, seen, new) == new

\* The UPDATE names only the columns whose value differs from the one read,
\* so a column the function did not change keeps what the row has now.
Written(cur, seen, new) ==
    [f \in DOMAIN cur |-> IF new[f] # seen[f] THEN new[f] ELSE cur[f]]

\* Mutant: completing a delivered order settles it again.
PaymentCommandTwice(c, seen) ==
    CASE c.to \in {"DELIVERED", "COMPLETED"} -> <<"settle">>
      [] RefundOf(c, seen) = "FULL" -> <<"refund">>
      [] OTHER -> <<>>

\* The payment-commands row: settle on delivery, otherwise refund if due.
PaymentCommand(c, seen) ==
    CASE c.kind \in {"advance", "driver"} /\ c.to = "DELIVERED" -> <<"settle">>
      [] RefundOf(c, seen) = "FULL" -> <<"refund">>
      [] OTHER -> <<>>

\* Mutant: the event is built before the transition is applied.
EmittedBefore(c, seen) == seen.status

\* The status on the order event: _emit_status reads the order object, after
\* the transition.
EmittedStatus(c, seen) == c.to

\* Only these two forward the caller's token to release-stock, which answers
\* 401 without one; the others' call changes nothing and the answer is ignored.
SendsToken(c) == c.kind \in {"cancel", "reject"}

-----------------------------------------------------------------------------
(* Steps of one transaction.                                               *)

\* A request whose read returned the orders in S.
Started(c, S) ==
    [pc |-> "next", call |-> c, cur |-> None, todo |-> S, held |-> {},
     seen |-> [o \in Orders |-> IF o \in S THEN row[o] ELSE NoRow]]

\* _notify_restaurant queues one notification, or none when the restaurant is
\* not in the local read-model.
Told == {0, 1}

\* create_order_from_checkout: CREATED, PAYMENT_PENDING and, for COD,
\* PAYMENT_SUCCESS in one transaction; one event carries the last of them.
\* Nobody else can see the row before the commit.
CreateOrder(o, method) ==
    LET Step(from, to) == [from |-> from, to |-> to, actor |-> "SYSTEM"]
        paid == method = "COD"
        final == IF paid THEN "PAYMENT_SUCCESS" ELSE "PAYMENT_PENDING"
    IN /\ row[o].status = Absent
       /\ row' = [row EXCEPT ![o].status = final,
                             ![o].payment_status = IF paid THEN "SUCCESS" ELSE "PENDING"]
       /\ audit' = [audit EXCEPT ![o] =
                      <<Step(None, "CREATED"), Step("CREATED", "PAYMENT_PENDING")>>
                         \o (IF paid THEN <<Step("PAYMENT_PENDING", "PAYMENT_SUCCESS")>>
                                     ELSE <<>>)]
       /\ published' = [published EXCEPT ![o] = Append(@, final)]
       /\ \E told \in Told :
            notified' = [notified EXCEPT ![o] = IF paid THEN @ + told ELSE @]
       /\ UNCHANGED <<lock, req, aged, requested, released, crashes>>

\* Mutant: the SELECT loses its FOR UPDATE.
LockOrderUnlocked(q, c, o) ==
    /\ req[q].pc = "idle"
    /\ c \in Calls \cap LockedCalls
    /\ row[o].status # Absent
    /\ req' = [req EXCEPT ![q] = Started(c, {o})]
    /\ UNCHANGED <<row, lock, aged, audit, outbox, released, crashes>>

\* _locked_order: waits for the row lock, takes it and reads the row.
LockOrder(q, c, o) ==
    /\ req[q].pc = "idle"
    /\ c \in Calls \cap LockedCalls
    /\ row[o].status # Absent
    /\ lock[o] = None
    /\ lock' = [lock EXCEPT ![o] = q]
    /\ req' = [req EXCEPT ![q] = Started(c, {o})]
    /\ UNCHANGED <<row, aged, audit, outbox, released, crashes>>

\* get_order_for_user, as cancel_by_customer calls it: reads the last
\* committed version, and does not wait for a lock.
ReadOrder(q, c, o) ==
    /\ req[q].pc = "idle"
    /\ c \in Calls \cap CancelCalls
    /\ row[o].status # Absent
    /\ req' = [req EXCEPT ![q] = Started(c, {o})]
    /\ UNCHANGED <<row, lock, aged, audit, outbox, released, crashes>>

\* The orders a sweep's SELECT returns.
Stale(c) ==
    LET waiting == IF c.kind = "expire_unpaid" THEN "PAYMENT_PENDING" ELSE "PAYMENT_SUCCESS"
    IN {o \in Orders : row[o].status = waiting /\ aged[o]}

ReadStale(q, c) ==
    /\ req[q].pc = "idle"
    /\ c \in Calls \cap SweepCalls
    /\ Stale(c) # {}
    /\ req' = [req EXCEPT ![q] = Started(c, Stale(c))]
    /\ UNCHANGED <<row, lock, aged, audit, outbox, released, crashes>>

\* The next order of the loop (the SELECT has no ORDER BY), or the only one.
TakeNext(q) ==
    /\ req[q].pc = "next"
    /\ \E o \in req[q].todo :
         /\ Permitted(req[q].call, req[q].seen[o])
         /\ req' = [req EXCEPT ![q].pc = "flush", ![q].cur = o,
                               ![q].todo = @ \ {o}]
    /\ UNCHANGED <<row, lock, aged, audit, outbox, released, crashes>>

\* The end of a transaction: its slot and its locks are free.
Finish(q) ==
    /\ req' = [req EXCEPT ![q] = IdleRequest]
    /\ lock' = [o \in Orders |-> IF lock[o] = q THEN None ELSE lock[o]]

\* Mutant: the early return leaves the session, and its lock, open.
RefuseLeaky(q) ==
    /\ req[q].pc = "next"
    /\ \E o \in req[q].todo : ~Permitted(req[q].call, req[q].seen[o])
    /\ req' = [req EXCEPT ![q] = IdleRequest]
    /\ UNCHANGED <<row, lock, aged, audit, outbox, released, crashes>>

\* The caller may not see or manage the order (404, 403), the state machine
\* or the function's own check says no, or mark_paid finds nothing to do:
\* nothing was written, and closing the session rolls back.
Refuse(q) ==
    /\ req[q].pc = "next"
    /\ \E o \in req[q].todo :
         \/ ~Permitted(req[q].call, req[q].seen[o])
         \/ req[q].call.kind \in {"cancel", "accept", "reject", "advance"}
    /\ Finish(q)
    /\ UNCHANGED <<row, aged, audit, outbox, released, crashes>>

\* The UPDATE: it waits for the row lock, and does not look at the row again.
Flush(q) ==
    LET o == req[q].cur IN
    /\ req[q].pc = "flush"
    /\ lock[o] \in {None, q}
    /\ lock' = [lock EXCEPT ![o] = q]
    /\ req' = [req EXCEPT ![q].pc = IF Unwinds(req[q].call) THEN "release" ELSE "next",
                          ![q].held = @ \cup {o}]
    /\ UNCHANGED <<row, aged, audit, outbox, released, crashes>>

\* Mutant: the client repeats a call it got no answer to.
ReleaseStockRetried(q) ==
    LET o == req[q].cur IN
    /\ req[q].pc = "release"
    /\ released' \in {released, [released EXCEPT ![o] = @ + 1], [released EXCEPT ![o] = @ + 2]}
    /\ req' = [req EXCEPT ![q].pc = "next"]
    /\ UNCHANGED <<row, lock, aged, audit, outbox, crashes>>

\* _restore_stock: best effort, whatever the answer the function goes on.
ReleaseStock(q) ==
    LET o == req[q].cur IN
    /\ req[q].pc = "release"
    /\ released' \in
         IF ~SendsToken(req[q].call) THEN {released}
         ELSE {[released EXCEPT ![o] = @ + 1]}
                \cup (IF ReleaseCanFail THEN {released} ELSE {})
    /\ req' = [req EXCEPT ![q].pc = "next"]
    /\ UNCHANGED <<row, lock, aged, audit, outbox, crashes>>

\* The commit: every order written by this transaction gets its new row, one
\* audit entry, one order event, its payment command if any and, when the
\* payment was confirmed, the owner's notification.
Commit(q) ==
    LET c == req[q].call
        held == req[q].held
        Seen(o) == req[q].seen[o]
    IN /\ req[q].pc = "next"
       /\ req[q].todo = {}
       /\ row' = [o \in Orders |->
                    IF o \in held THEN Written(row[o], Seen(o), Decided(c, Seen(o)))
                                  ELSE row[o]]
       /\ audit' = [o \in Orders |->
                      IF o \in held
                      THEN Append(audit[o], [from |-> Seen(o).status, to |-> c.to,
                                             actor |-> ActorOf(c)])
                      ELSE audit[o]]
       /\ published' = [o \in Orders |->
                          IF o \in held THEN Append(published[o], EmittedStatus(c, Seen(o)))
                                        ELSE published[o]]
       /\ requested' = [o \in Orders |->
                          IF o \in held THEN requested[o] \o PaymentCommand(c, Seen(o))
                                        ELSE requested[o]]
       /\ \E told \in Told :
            notified' = [o \in Orders |->
                           IF o \in held /\ c.kind = "mark_paid" THEN notified[o] + told
                                                                 ELSE notified[o]]
       /\ aged' = [o \in Orders |-> IF o \in held THEN FALSE ELSE aged[o]]
       /\ Finish(q)
       /\ UNCHANGED <<released, crashes>>

\* A crash, a lost connection or an exception: everything not committed is
\* undone, and the stock release is not.
Abort(q) ==
    /\ req[q].pc # "idle"
    /\ crashes < MaxCrashes
    /\ crashes' = crashes + 1
    /\ Finish(q)
    /\ UNCHANGED <<row, aged, audit, outbox, released>>

\* Postgres aborts a transaction that is part of a cycle of lock waits.
WaitsFor(q, h) == req[q].pc = "flush" /\ lock[req[q].cur] = h /\ h # q

InDeadlock(q) ==
    \E S \in SUBSET Requests :
        /\ q \in S
        /\ \A x \in S : \E y \in S : WaitsFor(x, y)
        /\ \A y \in S : \E x \in S : WaitsFor(x, y)

BreakDeadlock(q) ==
    /\ InDeadlock(q)
    /\ Finish(q)
    /\ UNCHANGED <<row, aged, audit, outbox, released, crashes>>

\* Time passes: the window of the order's current status runs out.
GrowOld(o) ==
    /\ row[o].status \in {"PAYMENT_PENDING", "PAYMENT_SUCCESS"}
    /\ ~aged[o]
    /\ aged' = [aged EXCEPT ![o] = TRUE]
    /\ UNCHANGED <<row, lock, req, audit, outbox, released, crashes>>

\* The steps a running transaction takes by itself.
Progress(q) == TakeNext(q) \/ Refuse(q) \/ ReleaseStock(q) \/ Commit(q) \/ BreakDeadlock(q)

Next ==
    \/ \E o \in Orders : GrowOld(o) \/ \E m \in PaymentMethod : CreateOrder(o, m)
    \/ \E q \in Requests :
         \/ \E c \in Calls : ReadStale(q, c) \/ \E o \in Orders : LockOrder(q, c, o) \/ ReadOrder(q, c, o)
         \/ Progress(q) \/ Flush(q) \/ Abort(q)

Spec == Init /\ [][Next]_vars

\* A running transaction keeps running; a lock waiter is served in turn
\* (Postgres queues them); clients, time and crashes owe nothing.
Fairness == \A q \in Requests : WF_vars(Progress(q)) /\ SF_vars(Flush(q))

FairSpec == Spec /\ Fairness

-----------------------------------------------------------------------------
(* Properties that hold whatever calls overlap.                            *)

Asked(o, action) == \E i \in DOMAIN requested[o] : requested[o][i] = action

AskedOnce(o, action) ==
    \A i, j \in DOMAIN requested[o] :
        requested[o][i] = action /\ requested[o][j] = action => i = j

\* Overlapping, refused, aborted or stale requests never separate the row from
\* what the other services are told: the last order event and the last audit
\* entry always carry the committed status (_emit_status commits with it).
OutboxMirrorsRow ==
    \A o \in Orders :
        row[o].status # Absent =>
            /\ published[o] # <<>> /\ published[o][Len(published[o])] = row[o].status
            /\ audit[o] # <<>> /\ audit[o][Len(audit[o])].to = row[o].status

\* An order's row says FULL refund exactly when a refund command is in the
\* outbox, and then its payment is REFUNDED: a late stale writer (a sweep or a
\* customer cancel that read the unpaid row) cannot take the record back.
RefundBooked ==
    \A o \in Orders :
        /\ (row[o].refund_status = "FULL") <=> Asked(o, "refund")
        /\ row[o].refund_status = "FULL" => row[o].payment_status = "REFUNDED"

\* The money of an order is captured once: restaurant and driver may both
\* report the delivery, the event may be redelivered, and still one settle
\* command goes out, for an order that was really out for delivery.
SettledOnce ==
    \A o \in Orders :
        /\ AskedOnce(o, "settle")
        /\ Asked(o, "settle") =>
              \E i \in DOMAIN audit[o] :
                 audit[o][i].from = "OUT_FOR_DELIVERY" /\ audit[o][i].to = "DELIVERED"

\* The kitchen is told of an order at most once, however often the payment
\* event is delivered, and never of one whose payment is still pending.
KitchenToldOnce ==
    \A o \in Orders :
        notified[o] <= 1 /\ (notified[o] = 1 => row[o].payment_status # "PENDING")

\* Every transaction ends: two sweeps that meet each other's rows in opposite
\* order do not wait for ever, and no path returns with a row locked.
RequestsFinish == \A q \in Requests : req[q].pc # "idle" ~> req[q].pc = "idle"

-----------------------------------------------------------------------------
(* Properties of the calls that read with FOR UPDATE.                      *)

\* The audit trail of an order is one legal walk through the state machine:
\* each entry leaves from where the previous one arrived.
AuditIsAWalk ==
    \A o \in Orders :
        \A i \in 1..(Len(audit[o]) - 1) :
            /\ audit[o][i + 1].from = audit[o][i].to
            /\ TransitionAllowed(audit[o][i].to, audit[o][i + 1].to)

\* One refund command per order, as the concurrency tests ask of a doubled
\* cancel, and never a refund for an order whose money is also to be captured.
RefundedOnce ==
    \A o \in Orders :
        AskedOnce(o, "refund") /\ ~(Asked(o, "refund") /\ Asked(o, "settle"))

\* Stock goes back once per ended order.  _restore_stock says it goes back
\* "deliberately after the cancellation commits" (service.py:109) and release_stock
\* that the order "is already cancelled and committed" (checkout.py:121); the code
\* releases first, so stock also goes back for an order that is not cancelled: each
\* crash can add one such release.  Nothing else can.
Ending(o) ==
    \/ row[o].status \in {"CANCELLED", "REJECTED"}
    \/ \E q \in Requests : o \in req[q].held /\ Unwinds(req[q].call)

StockReleasedOnce ==
    \A o \in Orders : released[o] <= crashes + (IF Ending(o) THEN 1 ELSE 0)

\* The service implements the lifecycle it promises.
Lifecycle == INSTANCE OrderLifecycle WITH
                 status <- [o \in Orders |-> row[o].status],
                 commands <- requested

ImplementsLifecycle == Lifecycle!LSpec

-----------------------------------------------------------------------------
(* What the repository says of the program, and the unlocked calls break.  *)

\* "the duplicate should never be emitted at all" (tests/test_concurrency.py).
OneRefundCommand == \A o \in Orders : AskedOnce(o, "refund")

=============================================================================
