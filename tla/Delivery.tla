----------------------------- MODULE Delivery -----------------------------
(***************************************************************************)
(* The delivery service (services/delivery/app/service.py, consumer.py)    *)
(* and the two ends it meets at the orders service: an order that becomes  *)
(* READY_FOR_PICKUP gets a delivery, and a driver's pickup and delivery    *)
(* move the order on (services/orders/app/consumer.py, driver_advance).    *)
(*                                                                         *)
(* Each handler is one transaction.  A driver's call reads the delivery    *)
(* with FOR UPDATE, an assignment reads whether there is one and inserts   *)
(* it, and a reassignment reads without a lock.  Which drivers are busy is *)
(* always read without a lock.  Calls that are refused change nothing and  *)
(* do not appear.                                                          *)
(*                                                                         *)
(* Events come in any order and more than once: the relay leaves a row     *)
(* that failed behind the later ones.  A consumer may lose one: the orders *)
(* service swallows what goes wrong, and on Kafka every service goes past  *)
(* a message it failed to handle.                                          *)
(***************************************************************************)
EXTENDS OrderStateMachine, Naturals

CONSTANTS
    Orders,        \* order ids
    Drivers,       \* driver ids
    Requests,      \* slots for transactions in flight
    NoDriver,      \* driver_id is NULL
    Absent,        \* no delivery row yet
    MaxReassigns   \* bound on the reassignments restaurants ask for, by order

ASSUME BoundsAssumption == MaxReassigns \in Nat

DeliveryStatus == {"UNASSIGNED", "ASSIGNED", "ACCEPTED", "PICKED_UP", "DELIVERED"}
ACTIVE_STATUSES == {"ASSIGNED", "ACCEPTED", "PICKED_UP"}

ASSUME NoneAssumption ==
    NoDriver \notin Drivers \cup Requests /\ Absent \notin DeliveryStatus \cup {"null"}

VARIABLES
    order,       \* order[o]: the order's status at the orders service
    ready,       \* ready[o]: a READY_FOR_PICKUP event of o was published
    roster,      \* roster[d]: is d active in this service's copy of the drivers?
    delivery,    \* delivery[o]: the row of table deliveries
    lock,        \* lock[o]: the transaction holding its row lock, or NoDriver
    req,         \* req[q]: the transaction in slot q
    announced,   \* announced[o]: the last delivery event of o, by commit
    events,      \* events[o]: delivery events the orders service may still get
    acceptor,    \* acceptor[o]: the driver last told that the delivery is theirs
    reassigned,  \* reassigned[o]: reassignments of o asked for
    astray       \* astray[o]: was the word that o is ready lost?  Was a delivery
                 \* event, or refused because an earlier one was still to come?

vars == <<order, ready, roster, delivery, lock, req, announced, events, acceptor, reassigned, astray>>
tables == <<delivery, announced, events, acceptor>>
outside == <<order, ready, roster, astray>>

Row == [status : DeliveryStatus \cup {Absent}, driver : Drivers \cup {NoDriver}]
NoRow == [status |-> Absent, driver |-> NoDriver]

DriverCalls == {"accept", "reject", "pickup", "deliver"}

Request == [pc : {"idle", "write"},
            call : DriverCalls \cup {"assign", "reassign"},
            order : Orders \cup {Absent},
            seen : Row,   \* the row as it was read
            new : Row]    \* the object as the session will flush it

Idle == [pc |-> "idle", call |-> "assign", order |-> Absent, seen |-> NoRow, new |-> NoRow]

\* The delivery events that mean something to the orders service.
Progress == {"PICKED_UP", "DELIVERED"}

\* What an event says of a row: its status, or null, and its driver.
Said == [status : DeliveryStatus \cup {Absent, "null"}, driver : Drivers \cup {NoDriver}]

TypeOK ==
    /\ order \in [Orders -> OrderStatus]
    /\ ready \in [Orders -> BOOLEAN]
    /\ roster \in [Drivers -> BOOLEAN]
    /\ delivery \in [Orders -> Row]
    /\ lock \in [Orders -> Requests \cup {NoDriver}]
    /\ req \in [Requests -> Request]
    /\ announced \in [Orders -> Said]
    /\ events \in [Orders -> SUBSET Progress]
    /\ acceptor \in [Orders -> Drivers \cup {NoDriver}]
    /\ reassigned \in [Orders -> 0..MaxReassigns]
    /\ astray \in [Orders -> SUBSET {"ready", "progress"}]

\* Orders are followed from the kitchen on.
Init ==
    /\ order = [o \in Orders |-> "PREPARING"]
    /\ ready = [o \in Orders |-> FALSE]
    /\ roster = [d \in Drivers |-> TRUE]
    /\ delivery = [o \in Orders |-> NoRow]
    /\ lock = [o \in Orders |-> NoDriver]
    /\ req = [q \in Requests |-> Idle]
    /\ announced = [o \in Orders |-> NoRow]
    /\ events = [o \in Orders |-> {}]
    /\ acceptor = [o \in Orders |-> NoDriver]
    /\ reassigned = [o \in Orders |-> 0]
    /\ astray = [o \in Orders |-> {}]

-----------------------------------------------------------------------------
(* Choosing a driver.                                                      *)

\* Drivers on an active delivery of another order, as committed now.
Busy(o) == {delivery[p].driver : p \in {x \in Orders \ {o} : delivery[x].status \in ACTIVE_STATUSES}}

\* _pick_driver: the nearest active driver with nothing on, or any; which one is
\* left open.
Pick(o, excluded) ==
    LET free == {d \in Drivers : roster[d]} \ (Busy(o) \cup excluded)
    IN IF free = {} THEN {NoDriver} ELSE free

Offer(d) == [status |-> IF d = NoDriver THEN "UNASSIGNED" ELSE "ASSIGNED", driver |-> d]

-----------------------------------------------------------------------------
(* The driver's calls.                                                     *)

\* Statuses a call is accepted from.
From(call) ==
    CASE call = "accept" -> {"ASSIGNED"}
      [] call \in {"reject", "pickup"} -> {"ASSIGNED", "ACCEPTED"}
      [] call = "deliver" -> {"PICKED_UP"}

\* Mutant: a rejected delivery is handed on as it is.
HandedOnAccepted(call, o, row) ==
    CASE call = "accept" -> {[row EXCEPT !.status = "ACCEPTED"]}
      [] call = "reject" -> {[row EXCEPT !.driver = d] : d \in Pick(o, {row.driver})}
      [] call = "pickup" -> {[row EXCEPT !.status = "PICKED_UP"]}
      [] call = "deliver" -> {[row EXCEPT !.status = "DELIVERED"]}

\* Mutant: the offer's own word for its status.
ResultsOffered(call, o, row) ==
    CASE call = "accept" -> {[row EXCEPT !.status = "ACCEPTED"]}
      [] call = "reject" -> {[status |-> "OFFERED", driver |-> d] : d \in Pick(o, {row.driver})}
      [] call = "pickup" -> {[row EXCEPT !.status = "PICKED_UP"]}
      [] call = "deliver" -> {[row EXCEPT !.status = "DELIVERED"]}

\* What a call makes of the row; a rejected delivery is offered to another
\* driver, or waits unassigned.
Results(call, o, row) ==
    CASE call = "accept" -> {[row EXCEPT !.status = "ACCEPTED"]}
      [] call = "reject" -> {Offer(d) : d \in Pick(o, {row.driver})}
      [] call = "pickup" -> {[row EXCEPT !.status = "PICKED_UP"]}
      [] call = "deliver" -> {[row EXCEPT !.status = "DELIVERED"]}

Run(q, call, o, seen, new) ==
    req' = [req EXCEPT ![q] = [pc |-> "write", call |-> call, order |-> o, seen |-> seen, new |-> new]]

\* Mutant: the SELECT loses its FOR UPDATE.
CallDriverUnlocked(q, call, o) ==
    /\ req[q].pc = "idle"
    /\ delivery[o].driver \in Drivers
    /\ delivery[o].status \in From(call)
    /\ \E new \in Results(call, o, delivery[o]) : Run(q, call, o, delivery[o], new)
    /\ UNCHANGED <<outside, tables, lock, reassigned>>

\* accept_assignment, reject_assignment, pickup, deliver up to their commit, as
\* the driver the row names calls them (anybody else is refused).
CallDriver(q, call, o) ==
    /\ req[q].pc = "idle"
    /\ lock[o] = NoDriver
    /\ delivery[o].driver \in Drivers
    /\ delivery[o].status \in From(call)
    /\ lock' = [lock EXCEPT ![o] = q]
    /\ \E new \in Results(call, o, delivery[o]) : Run(q, call, o, delivery[o], new)
    /\ UNCHANGED <<outside, tables, reassigned>>

-----------------------------------------------------------------------------
(* Assignment and reassignment.                                            *)

\* Mutant: without a free driver there is nothing to record.
AssignIfFree(q, o) ==
    /\ req[q].pc = "idle"
    /\ ready[o] /\ delivery[o] = NoRow
    /\ \E d \in Pick(o, {}) \ {NoDriver} : Run(q, "assign", o, NoRow, Offer(d))
    /\ UNCHANGED <<outside, tables, lock, reassigned>>

\* _apply_order_event and assign_for_order up to the insert, for a READY event
\* that is late or comes again too; an existing delivery is left alone.
Assign(q, o) ==
    /\ req[q].pc = "idle"
    /\ ready[o] /\ delivery[o] = NoRow
    /\ \E d \in Pick(o, {}) : Run(q, "assign", o, NoRow, Offer(d))
    /\ UNCHANGED <<outside, tables, lock, reassigned>>

\* reassign_delivery_for_order up to its commit: any delivery, whatever its
\* status, to any active driver, busy or not.
Reassign(q, o, d) ==
    /\ req[q].pc = "idle"
    /\ delivery[o] # NoRow /\ roster[d]
    /\ reassigned[o] < MaxReassigns
    /\ reassigned' = [reassigned EXCEPT ![o] = @ + 1]
    /\ Run(q, "reassign", o, delivery[o], Offer(d))
    /\ UNCHANGED <<outside, tables, lock>>

-----------------------------------------------------------------------------
(* The ends of a transaction.                                              *)

Finish(q) == req' = [req EXCEPT ![q] = Idle]

\* The UPDATE carries the columns that differ from what was read.
Written(seen, new, row) ==
    [status |-> IF new.status # seen.status THEN new.status ELSE row.status,
     driver |-> IF new.driver # seen.driver THEN new.driver ELSE row.driver]

\* _announce_status: the outbox row says what the object says.
Announce(o, new) ==
    /\ announced' = [announced EXCEPT ![o] = new]
    /\ events' = [events EXCEPT ![o] = @ \cup ({new.status} \cap Progress)]

\* What a new object says before the flush: the default of its status column,
\* UNASSIGNED, is not there yet.
Unflushed(new) == IF new.status = "UNASSIGNED" THEN [new EXCEPT !.status = "null"] ELSE new

\* The flush and the commit of a call on an existing row; the flush waits for
\* whoever holds the row.
CommitDelivery(q) ==
    LET r == req[q]
        o == r.order
    IN /\ r.pc = "write" /\ r.call # "assign"
       /\ lock[o] \in {NoDriver, q}
       /\ delivery' = [delivery EXCEPT ![o] = Written(r.seen, r.new, @)]
       /\ Announce(o, r.new)
       /\ acceptor' = IF r.call = "accept" THEN [acceptor EXCEPT ![o] = r.new.driver] ELSE acceptor
       /\ lock' = [lock EXCEPT ![o] = NoDriver]
       /\ Finish(q)
       /\ UNCHANGED <<outside, reassigned>>

\* Mutant: the event has a transaction of its own, the loser's goes out too.
InsertDeliveryAnnounced(q) ==
    LET r == req[q]
        o == r.order
    IN /\ r.pc = "write" /\ r.call = "assign"
       /\ delivery' = IF delivery[o] = NoRow THEN [delivery EXCEPT ![o] = r.new] ELSE delivery
       /\ Announce(o, Unflushed(r.new))
       /\ Finish(q)
       /\ UNCHANGED <<outside, lock, acceptor, reassigned>>

\* The insert of assign_for_order; when another was first, IntegrityError and the
\* rollback leave the winner's delivery and its event.
InsertDelivery(q) ==
    LET r == req[q]
        o == r.order
    IN /\ r.pc = "write" /\ r.call = "assign"
       /\ \/ /\ delivery[o] = NoRow
             /\ delivery' = [delivery EXCEPT ![o] = r.new]
             /\ Announce(o, Unflushed(r.new))
          \/ /\ delivery[o] # NoRow
             /\ UNCHANGED <<delivery, announced, events>>
       /\ Finish(q)
       /\ UNCHANGED <<outside, lock, acceptor, reassigned>>

\* An exception or a lost process before the commit.
Crash(q) ==
    /\ req[q].pc # "idle"
    /\ lock' = [o \in Orders |-> IF lock[o] = q THEN NoDriver ELSE lock[o]]
    /\ Finish(q)
    /\ UNCHANGED <<outside, tables, reassigned>>

-----------------------------------------------------------------------------
(* Around the service: user events, the kitchen, the orders service.       *)

\* _apply_user_event: a driver goes on or off duty.
RosterChange(d) ==
    /\ roster' = [roster EXCEPT ![d] = ~@]
    /\ UNCHANGED <<order, ready, astray, tables, lock, req, reassigned>>

\* The restaurant, an admin or a customer moves the order; every move is
\* announced, the one to READY_FOR_PICKUP is the one heard here.
MoveOrder(o, to) ==
    /\ TransitionAllowed(order[o], to)
    /\ order' = [order EXCEPT ![o] = to]
    /\ ready' = [ready EXCEPT ![o] = @ \/ to = "READY_FOR_PICKUP"]
    /\ UNCHANGED <<roster, astray, tables, lock, req, reassigned>>

\* Mutant: only the end of a delivery is passed on.
TargetDeliveredOnly(status, current) ==
    IF status = "DELIVERED" THEN "DELIVERED" ELSE current

\* The order status a delivery event stands for.
Target(status, current) ==
    IF status = "PICKED_UP" THEN "OUT_FOR_DELIVERY" ELSE "DELIVERED"

\* _apply_delivery_event with driver_advance: a move the state machine refuses is
\* logged and acknowledged.  Acknowledged events are gone, others come again.
HandleDeliveryEvent(o, e, acked) ==
    LET to == Target(e, order[o])
        refused == ~TransitionAllowed(order[o], to)
    IN /\ e \in events[o]
       /\ order' = IF refused THEN order ELSE [order EXCEPT ![o] = to]
       /\ events' = IF acked THEN [events EXCEPT ![o] = @ \ {e}] ELSE events
       /\ astray' = IF acked /\ refused /\ e = "DELIVERED" /\ "PICKED_UP" \in events[o]
                    THEN [astray EXCEPT ![o] = @ \cup {"progress"}] ELSE astray
       /\ UNCHANGED <<ready, roster, delivery, announced, acceptor, lock, req, reassigned>>

\* A message whose handler failed does not come again: a delivery event, for
\* _apply_delivery_event swallows every exception; or, on Kafka, any.
LoseDeliveryEvent(o, e) ==
    /\ e \in events[o]
    /\ events' = [events EXCEPT ![o] = @ \ {e}]
    /\ astray' = [astray EXCEPT ![o] = @ \cup {"progress"}]
    /\ UNCHANGED <<order, ready, roster, delivery, announced, acceptor, lock, req, reassigned>>

LoseReadyEvent(o) ==
    /\ ready[o] /\ delivery[o] = NoRow
    /\ astray' = [astray EXCEPT ![o] = @ \cup {"ready"}]
    /\ UNCHANGED <<order, ready, roster, tables, lock, req, reassigned>>

-----------------------------------------------------------------------------

Commit(q) == CommitDelivery(q) \/ InsertDelivery(q)

Next ==
    \/ \E q \in Requests, o \in Orders :
          \/ \E call \in DriverCalls : CallDriver(q, call, o)
          \/ Assign(q, o)
          \/ \E d \in Drivers : Reassign(q, o, d)
    \/ \E q \in Requests : Commit(q) \/ Crash(q)
    \/ \E d \in Drivers : RosterChange(d)
    \/ \E o \in Orders :
          \/ \E to \in OrderStatus : MoveOrder(o, to)
          \/ \E e \in Progress, acked \in BOOLEAN : HandleDeliveryEvent(o, e, acked)
          \/ \E e \in Progress : LoseDeliveryEvent(o, e)
          \/ LoseReadyEvent(o)

Spec == Init /\ [][Next]_vars

\* A transaction goes on, and a lock waiter is served although others come and
\* go.  Events are delivered until they are acknowledged, or lost.
Fairness ==
    /\ \A q \in Requests : SF_vars(Commit(q))
    /\ \A o \in Orders :
          SF_vars("ready" \notin astray[o] /\ \E q \in Requests : Assign(q, o))
    /\ \A o \in Orders, e \in Progress : WF_vars(HandleDeliveryEvent(o, e, TRUE))

FairSpec == Spec /\ Fairness

-----------------------------------------------------------------------------
(* Properties.                                                             *)

\* A delivery shown as accepted is carried by the driver who accepted it:
\* overlapping calls never leave the acceptance of one with the name of another.
\* A restaurant's reassignment reads without a lock and is not covered.
AcceptedByItsDriver ==
    \A o \in Orders : delivery[o].status = "ACCEPTED" /\ reassigned[o] = 0 =>
        acceptor[o] = delivery[o].driver

\* The last delivery event recorded is the row as it stands (_announce_status in
\* the transaction of the change), whoever overlapped whom, reassignments apart:
\* drivers and notifications act on the event alone.  Only the first event of a
\* delivery that found no driver says less: it is recorded before the flush, and
\* its status is null.
LastEventIsRow ==
    \A o \in Orders : reassigned[o] = 0 =>
        \/ announced[o] = delivery[o]
        \/ announced[o].status = "null" /\ delivery[o] = Offer(NoDriver)

\* Food that was picked up stays with the driver who has it, and delivered food
\* stays delivered: only a restaurant's reassignment takes a delivery back.
HandedOverStays ==
    [][\A o \in Orders :
          delivery[o].status \in Progress /\ reassigned'[o] = 0 =>
              /\ delivery'[o].driver = delivery[o].driver
              /\ delivery'[o].status \in Progress
              /\ delivery[o].status = "DELIVERED" => delivery'[o].status = "DELIVERED"]_vars

\* What the driver delivered ends as a delivered order, or in a status its
\* participants chose instead: refused and repeated events do no harm.  Unless an
\* event was lost, or the DELIVERED one was refused and acknowledged because it
\* came before the PICKED_UP one.
DeliveredReachesOrder ==
    \A o \in Orders : (delivery[o].status = "DELIVERED") ~>
        (order[o] \in {"DELIVERED", "COMPLETED", "CANCELLED"} \/ "progress" \in astray[o])

\* Every order that became ready gets a delivery, if only an unassigned one, with
\* drivers going off duty, lost transactions and competing assignments; unless
\* the message that it is ready was lost.
EveryReadyOrderGetsADelivery ==
    \A o \in Orders :
        ready[o] ~> (delivery[o] # NoRow \/ "ready" \in astray[o])

\* One active order per driver (class Delivery, app/models.py).
OneActivePerDriver ==
    \A o, p \in Orders :
        /\ o # p
        /\ delivery[o].status \in ACTIVE_STATUSES
        /\ delivery[p].status \in ACTIVE_STATUSES
        => delivery[o].driver # delivery[p].driver

=============================================================================
