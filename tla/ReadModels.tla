---------------------------- MODULE ReadModels ----------------------------
(***************************************************************************)
(* The copies services keep of each other's rows, fed by events (the       *)
(* consumer.py of every service), and what rests on them: reviews, where   *)
(* an order is taken, what a customer is told.                             *)
(*                                                                         *)
(* A behaviour follows one subscription: the events of one row of one      *)
(* service, and one service that consumes them.  Subscriptions share no    *)
(* column (the console's row of a user has some from either user topic), so*)
(* what holds of each holds of all together.                               *)
(***************************************************************************)
EXTENDS Addresses, Notifications

CONSTANTS
    Life,         \* the statuses an order goes through
    MaxChanges,   \* bound on the events of a row other than an address
    MaxReviews,   \* bound on the reviews written
    MaxAtOnce     \* bound on trouble, calls and edits together

VARIABLES
    sub,       \* the subscription: topic, group, and whether the group keeps such rows
    copy,      \* the group's row: its columns, <<>> in detail for a null
    reviews    \* the reviews of the order, by id

vars == <<messagingVars, addressVars, notificationVars, sub, copy, reviews>>

\* keeps: the orders service copies customers only, the delivery service
\* drivers only; everyone else's events they pass over.
Subscriptions ==
    [topic : {"order-events"}, group : {"restaurants", "admin", "delivery", "notifications"}, keeps : {TRUE}]
    \cup [topic : {"address-events"}, group : {"orders"}, keeps : {TRUE}]
    \cup [topic : {"user-events"}, group : {"restaurants", "admin"}, keeps : {TRUE}]
    \cup [topic : {"user-events"}, group : {"orders", "delivery"}, keeps : BOOLEAN]
    \cup [topic : {"user-contact-events"}, group : {"admin", "notifications"}, keeps : {TRUE}]
    \cup [topic : {"restaurant-events"}, group : {"orders", "admin", "delivery", "notifications"}, keeps : {TRUE}]
    \cup [topic : {"notification-events"}, group : {"notifications"}, keeps : {TRUE}]

ASSUME ReadModelsAssumption == Life \in Seq(STATUS_COPY) /\ Len(Life) = MaxChanges /\ {MaxReviews, MaxAtOnce} \subseteq Nat

\* A payload: the columns every event has, and one that may be null or is
\* not in every event.
NoRow == [value |-> 0, detail |-> <<>>]
Review == [there : BOOLEAN, edited : BOOLEAN, replied : BOOLEAN]

Init ==
    /\ sub \in Subscriptions
    /\ MessagingInit /\ AddressesInit /\ NotificationsInit
    /\ copy = NoRow
    /\ reviews = <<>>

On(topics) == sub.topic \in topics

\* Does the consumer handle events by sending, not by keeping a row?
Informs == sub.group = "notifications" /\ ~On({"user-contact-events"})

-----------------------------------------------------------------------------

(* The rows the events are about *)

\* _emit_status: the order's next status, and the destination's coordinates
\* if the orders service has them just then; a message to people has no use
\* for those.
OrderMoves ==
    LET n == Len(outbox) + 1 IN
    /\ On({"order-events"})
    /\ \E detail \in IF Informs THEN {<<>>} ELSE {<<>>, <<n>>} : record_event([value |-> n, detail |-> detail])
    /\ UNCHANGED <<addressVars, notificationVars, sub, copy, reviews>>

\* publish_user: the whole row, on both topics.
UserChanges ==
    /\ On({"user-events", "user-contact-events"})
    /\ LET n == Len(outbox) + 1 IN record_event([value |-> n, detail |-> <<n>>])
    /\ UNCHANGED <<addressVars, notificationVars, sub, copy, reviews>>

\* publish_restaurant: value 1 is "pending", 2 a decision; the venue's first
\* event is pending, and edits repeat the status it has.
RestaurantChanges ==
    /\ On({"restaurant-events"})
    /\ LET n == Len(outbox) + 1 IN
       \E status \in IF n = 1 THEN {1} ELSE {outbox[n - 1].payload.value, 2} :
          record_event([value |-> status, detail |-> <<n>>])
    /\ UNCHANGED <<addressVars, notificationVars, sub, copy, reviews>>

\* A message some service asks for, with an address or without.
MessageAsked ==
    /\ On({"notification-events"})
    /\ \E detail \in {<<>>, <<1>>} : record_event([value |-> 1, detail |-> detail])
    /\ UNCHANGED <<addressVars, notificationVars, sub, copy, reviews>>

(* The handlers: the row, once there, is overwritten *)

\* A column is left as it is when the event does not carry it.
IfCarried(row, e) == [value |-> e.value, detail |-> IF e.detail = <<>> THEN row.detail ELSE e.detail]

\* Of a venue the name and the owner are kept, not its status.
Named(row, e) == [value |-> 1, detail |-> IfCarried(row, e).detail]

\* Mutant: a null does not clear the point.
PointKept(row, e) == IfCarried(row, e)

\* "Assigned even when null."
AddressSnapshot(row, e) == e

\* Mutant: the row, once there, is left as it is.
SnapshotKept(row, e) == IF row = NoRow THEN e ELSE row

\* The restaurants and the delivery service's.
OrderSnapshot(row, e) == IfCarried(row, e)

\* The console's.
OrderRow(row, e) == IfCarried(row, e)
UserRow(row, e) == IfCarried(row, e)
ContactOfUserRow(row, e) == IfCarried(row, e)
RestaurantRow(row, e) == Named(row, e)

OwnerRow(row, e) == IfCarried(row, e)
CustomerSnapshot(row, e) == IF sub.keeps THEN e ELSE row
Driver(row, e) == IF sub.keeps THEN IfCarried(row, e) ELSE row
Contact(row, e) == IfCarried(row, e)
RestaurantSnapshot(row, e) == Named(row, e)

\* _HANDLERS of each service.
Apply(row, e) ==
    CASE On({"address-events"}) -> AddressSnapshot(row, e)
      [] On({"order-events"}) -> IF sub.group = "admin" THEN OrderRow(row, e) ELSE OrderSnapshot(row, e)
      [] On({"user-events"}) -> (CASE sub.group = "orders" -> CustomerSnapshot(row, e)
                                   [] sub.group = "delivery" -> Driver(row, e)
                                   [] sub.group = "restaurants" -> OwnerRow(row, e)
                                   [] sub.group = "admin" -> UserRow(row, e))
      [] On({"user-contact-events"}) -> IF sub.group = "admin" THEN ContactOfUserRow(row, e) ELSE Contact(row, e)
      [] On({"restaurant-events"}) -> IF sub.group = "admin" THEN RestaurantRow(row, e) ELSE RestaurantSnapshot(row, e)

Inform(e, recorded) ==
    CASE On({"order-events"}) -> handle_order_status(Life[e.value], recorded)
      [] On({"notification-events"}) -> _handle_direct(e.detail # <<>>, recorded)
      [] On({"restaurant-events"}) -> _handle_restaurant(e.value = 2, recorded)

\* The handler of e read the row as `read`: its UPDATE writes what differs
\* from that, its INSERT fails if the row is there by now.
Merged(read, e) ==
    LET new == Apply(read, e) IN
    IF read = NoRow /\ copy # NoRow THEN copy
    ELSE [f \in {"value", "detail"} |-> IF new[f] # read[f] THEN new[f] ELSE copy[f]]

\* The handler's transaction commits.
Effect(read, e) ==
    IF Informs THEN Inform(e, TRUE) /\ UNCHANGED copy
               ELSE copy' = Merged(read, e) /\ UNCHANGED notificationVars

ConsumerStep ==
    /\ \/ Handled /\ Effect(copy, Payload(pos))
       \/ HandlerFails /\ UNCHANGED <<copy, notificationVars>>
       \/ HandlerTimesOut(copy) /\ UNCHANGED <<copy, notificationVars>>
       \/ \E l \in late : LateCommit(l) /\ Effect(l.read, Payload(l.message))
       \/ Restarts /\ UNCHANGED <<copy, notificationVars>>
       \/ RestartsAfterCommit /\ Effect(copy, Payload(pos))
       \* The process ends, or the commit fails, after the messages went out.
       \/ Restarts /\ pos <= Len(log) /\ Informs /\ Inform(Payload(pos), FALSE) /\ UNCHANGED copy
    /\ UNCHANGED <<addressVars, sub, reviews>>

(* Reviews, from the snapshot *)

HasSnapshot == On({"order-events"}) /\ sub.group = "restaurants" /\ copy # NoRow

\* Mutant: any order known here can be reviewed.
ReviewableAnyway == HasSnapshot

Reviewable == HasSnapshot /\ Life[copy.value] \in {"DELIVERED", "COMPLETED"}

There == {k \in DOMAIN reviews : reviews[k].there}

\* order_id is unique, so of two inserts at once the slower fails.
create_review ==
    /\ Reviewable /\ There = {}
    /\ Len(reviews) < MaxReviews
    /\ reviews' = Append(reviews, [there |-> TRUE, edited |-> FALSE, replied |-> FALSE])

update_review(k) == k \in There /\ reviews' = [reviews EXCEPT ![k].edited = TRUE]
reply_to_review(k) == k \in There /\ reviews' = [reviews EXCEPT ![k].replied = TRUE]
delete_review(k) == k \in There /\ reviews' = [reviews EXCEPT ![k].there = FALSE]

ReviewStep ==
    /\ \/ create_review
       \/ \E k \in DOMAIN reviews : update_review(k) \/ reply_to_review(k) \/ delete_review(k)
    /\ UNCHANGED <<messagingVars, addressVars, notificationVars, sub, copy>>

\* Of an owner, a decision's mail needs only the address.
CustomerStep ==
    \/ On({"order-events"}) /\ PeopleStep
    \/ On({"restaurant-events"}) /\ ContactArrives

Next ==
    /\ \/ Len(outbox) < MaxChanges /\ (OrderMoves \/ UserChanges \/ RestaurantChanges \/ MessageAsked)
       \/ On({"address-events"}) /\ AddressStep /\ UNCHANGED <<notificationVars, sub, copy, reviews>>
       \/ RelayStep /\ UNCHANGED <<addressVars, notificationVars, sub, copy, reviews>>
       \/ ConsumerStep
       \/ Informs /\ CustomerStep /\ UNCHANGED <<messagingVars, addressVars, sub, copy, reviews>>
       \/ ReviewStep
    /\ trouble' + calls' + edited' <= MaxAtOnce

Spec == Init /\ [][Next]_vars

\* Each relay's loop goes on.
FairSpec == Spec /\ \A r \in Relays : WF_vars(Relay(r) /\ UNCHANGED <<addressVars, notificationVars, sub, copy, reviews>>)

-----------------------------------------------------------------------------

TypeOK ==
    /\ MessagingTypeOK /\ NotificationsTypeOK
    /\ address \in Address /\ edits \subseteq Edit
    /\ sub \in Subscriptions
    /\ copy.value \in Nat /\ copy.detail \in Seq(Nat)
    /\ reviews \in Seq(Review)

\* The last message of the log that carries the detail, if any.
Carriers == {k \in DOMAIN log : Payload(k).detail # <<>>}
LastDetail == IF Carriers = {} THEN <<>> ELSE Payload(CHOOSE k \in Carriers : \A j \in Carriers : j <= k).detail

\* A consumer that is through with the log has the columns that were sent
\* last, messages repeated or not: unless the last one failed on Kafka, or
\* the handler of an older one committed after its timeout.  A null clears an
\* address's point; in an order's copies the last coordinates sent stay.
CopyIsCurrent ==
    (~Informs /\ sub.keeps /\ pos > Len(log) /\ log # <<>> /\ ~overtaken /\ Len(log) \notin failed)
        => /\ ~On({"restaurant-events"}) => copy.value = Payload(Len(log)).value
           /\ On({"address-events"}) => copy.detail = Payload(Len(log)).detail
           /\ ~On({"address-events"}) /\ failed = {} => copy.detail = LastDetail

\* The coordinates an order is taken to are those of the address as it is
\* spelt: in the users service's row, and, by city, in the orders service's
\* copy.  Unless two edits, or two handlers, overlapped.
PointMatchesAddress ==
    On({"address-events"}) /\ ~overlapped
        => /\ address.point # <<>> => address.point = <<address.line, address.city>>
           /\ copy.detail # <<>> /\ ~overtaken => copy.detail[2] = copy.value

\* A review is of an order that was delivered, however the snapshot lags,
\* goes back or is repeated.
ReviewsAreEarned == reviews # <<>> => \E n \in Events : Life[n] \in {"DELIVERED", "COMPLETED"}

=============================================================================
