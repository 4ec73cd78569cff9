-------------------------- MODULE DeliveryProofs --------------------------
(***************************************************************************)
(* Proofs about Delivery, for any orders, any drivers, any number of       *)
(* overlapping transactions and any failures.                              *)
(***************************************************************************)
EXTENDS Delivery, TLAPS

\* What a driver's call has decided, from the row it locked.
Outcome(call, seen, new) ==
    /\ call = "accept" => new.status = "ACCEPTED" /\ new.driver = seen.driver
    /\ call = "reject" => new.status \in {"ASSIGNED", "UNASSIGNED"}
    /\ call = "pickup" => new.status = "PICKED_UP" /\ new.driver = seen.driver
    /\ call = "deliver" => new.status = "DELIVERED" /\ new.driver = seen.driver

\* A running driver's call holds the lock of its row, so the row is still what
\* it read and decided on.  An assignment only makes an offer; a reassignment
\* is on record before it commits.
RequestInv(q) ==
    LET r == req[q] IN
    r.pc = "write" =>
        /\ r.order \in Orders
        /\ r.call = "assign" => r.new = Offer(r.new.driver)
        /\ r.call = "reassign" => reassigned[r.order] > 0
        /\ r.call \in DriverCalls =>
              /\ lock[r.order] = q
              /\ delivery[r.order] = r.seen
              /\ r.seen.driver \in Drivers
              /\ r.seen.status \in From(r.call)
              /\ Outcome(r.call, r.seen, r.new)

\* Without reassignments event, row and acceptance agree, as far as the first
\* event tells.
OrderInv(o) ==
    reassigned[o] = 0 =>
        /\ \/ announced[o] = delivery[o]
           \/ announced[o].status = "null" /\ delivery[o] = Offer(NoDriver)
        /\ delivery[o].status = "ACCEPTED" => acceptor[o] = delivery[o].driver

IInv ==
    /\ TypeOK
    /\ \A o \in Orders : OrderInv(o)
    /\ \A q \in Requests : RequestInv(q)

-----------------------------------------------------------------------------
(* The rows and records the handlers build.                                *)

LEMMA RowFields ==
    ASSUME NEW a \in Row
    PROVE  /\ a = [status |-> a.status, driver |-> a.driver]
           /\ a.status \in DeliveryStatus \cup {Absent}
           /\ a.driver \in Drivers \cup {NoDriver}
BY DEF Row

LEMMA NoRowType == NoRow \in Row /\ NoRow.status = Absent /\ NoRow.driver = NoDriver
BY DEF NoRow, Row

LEMMA IdleType == Idle \in Request /\ Idle.pc = "idle"
BY NoRowType DEF Idle, Request

LEMMA PickType ==
    ASSUME NEW o, NEW excluded, NEW d \in Pick(o, excluded)
    PROVE  d \in Drivers \cup {NoDriver}
BY DEF Pick

LEMMA OfferType ==
    ASSUME NEW d \in Drivers \cup {NoDriver}
    PROVE  /\ Offer(d) \in Row /\ Offer(d).status \in {"ASSIGNED", "UNASSIGNED"}
           /\ Offer(d).driver = d /\ (Offer(d).status = "UNASSIGNED" => d = NoDriver)
BY DEF Offer, Row, DeliveryStatus

\* A new object's event is the object, or has the status left out.
LEMMA UnflushedType ==
    ASSUME NEW d \in Drivers \cup {NoDriver}
    PROVE  /\ Unflushed(Offer(d)) \in Said
           /\ \/ Unflushed(Offer(d)) = Offer(d)
              \/ Unflushed(Offer(d)).status = "null" /\ Offer(d) = Offer(NoDriver)
BY DEF Unflushed, Offer, Said, DeliveryStatus

LEMMA ResultsType ==
    ASSUME NEW call \in DriverCalls, NEW o, NEW row \in Row, NEW new \in Results(call, o, row)
    PROVE  new \in Row /\ Outcome(call, row, new)
<1>1. CASE call = "reject"
  <2>1. PICK d \in Pick(o, {row.driver}) : new = Offer(d)
    BY <1>1 DEF Results
  <2>2. d \in Drivers \cup {NoDriver}
    BY <2>1, PickType
  <2> QED
    BY <1>1, <2>1, <2>2, OfferType DEF Outcome
<1>2. CASE call = "accept"
  BY <1>2, RowFields DEF Results, Outcome, Row, DeliveryStatus
<1>3. CASE call = "pickup"
  BY <1>3, RowFields DEF Results, Outcome, Row, DeliveryStatus
<1>4. CASE call = "deliver"
  BY <1>4, RowFields DEF Results, Outcome, Row, DeliveryStatus
<1> QED
  BY <1>1, <1>2, <1>3, <1>4 DEF DriverCalls

\* A row updated with the changed columns is a row; over the row that was read
\* it is the object itself.
LEMMA WrittenType ==
    ASSUME NEW seen \in Row, NEW new \in Row, NEW row \in Row
    PROVE  /\ Written(seen, new, row) \in Row
           /\ row = seen => Written(seen, new, row) = new
<1>1. Written(seen, new, row) \in Row
  BY DEF Written, Row
<1>2. ASSUME row = seen PROVE Written(seen, new, row) = new
  <2>1. Written(seen, new, row) = [status |-> new.status, driver |-> new.driver]
    BY <1>2 DEF Written
  <2> QED
    BY <2>1, RowFields
<1> QED
  BY <1>1, <1>2

LEMMA RunType ==
    ASSUME TypeOK, NEW q \in Requests, NEW call \in DriverCalls \cup {"assign", "reassign"},
           NEW o \in Orders, NEW seen \in Row, NEW new \in Row, Run(q, call, o, seen, new)
    PROVE  /\ req' \in [Requests -> Request]
           /\ req'[q].pc = "write" /\ req'[q].call = call /\ req'[q].order = o
           /\ req'[q].seen = seen /\ req'[q].new = new
           /\ \A p \in Requests \ {q} : req'[p] = req[p]
<1> DEFINE r == [pc |-> "write", call |-> call, order |-> o, seen |-> seen, new |-> new]
<1>1. r \in Request
  BY DEF Request
<1>2. req' = [req EXCEPT ![q] = r] /\ req \in [Requests -> Request]
  BY DEF Run, TypeOK
<1>3. /\ r.pc = "write" /\ r.call = call /\ r.order = o
      /\ r.seen = seen /\ r.new = new
  OBVIOUS
<1> HIDE DEF r
<1> QED
  BY <1>1, <1>2, <1>3

LEMMA FinishType ==
    ASSUME TypeOK, NEW q \in Requests, Finish(q)
    PROVE  /\ req' \in [Requests -> Request]
           /\ req'[q].pc = "idle"
           /\ \A p \in Requests \ {q} : req'[p] = req[p]
BY IdleType DEF Finish, TypeOK

LEMMA AnnounceType ==
    ASSUME TypeOK, NEW o \in Orders, NEW new \in Said, Announce(o, new)
    PROVE  /\ announced' \in [Orders -> Said]
           /\ announced'[o] = new
           /\ \A p \in Orders \ {o} : announced'[p] = announced[p]
           /\ events' \in [Orders -> SUBSET Progress]
BY DEF Announce, TypeOK

LEMMA RowSaid == Row \subseteq Said
BY DEF Row, Said

-----------------------------------------------------------------------------
(* The inductive invariant holds initially and is preserved.               *)

LEMMA InitIInv == Init => IInv
<1> SUFFICES ASSUME Init PROVE IInv
  OBVIOUS
<1>1. TypeOK
  BY IdleType, NoRowType, RowSaid, BoundsAssumption DEF Init, TypeOK, OrderStatus
<1>2. \A o \in Orders : OrderInv(o)
  BY NoRowType, NoneAssumption DEF Init, OrderInv, DeliveryStatus
<1>3. \A q \in Requests : RequestInv(q)
  BY IdleType DEF Init, RequestInv
<1> QED
  BY <1>1, <1>2, <1>3 DEF IInv

\* A step that only starts a transaction.
LEMMA CallDriverIInv ==
    ASSUME IInv, NEW q \in Requests, NEW call \in DriverCalls, NEW o \in Orders,
           CallDriver(q, call, o)
    PROVE  IInv'
<1> USE DEF IInv
<1>1. delivery[o] \in Row
  BY DEF TypeOK
<1>2. PICK new \in Results(call, o, delivery[o]) : Run(q, call, o, delivery[o], new)
  BY DEF CallDriver
<1>3. new \in Row /\ Outcome(call, delivery[o], new)
  BY <1>1, ResultsType
<1>4. /\ req' \in [Requests -> Request]
      /\ req'[q].pc = "write" /\ req'[q].call = call /\ req'[q].order = o
      /\ req'[q].seen = delivery[o] /\ req'[q].new = new
      /\ \A p \in Requests \ {q} : req'[p] = req[p]
  BY <1>1, <1>2, <1>3, RunType
<1>5. /\ lock[o] = NoDriver /\ lock' = [lock EXCEPT ![o] = q]
      /\ delivery[o].driver \in Drivers /\ delivery[o].status \in From(call)
      /\ UNCHANGED <<order, ready, roster, astray, delivery, announced, events, acceptor, reassigned>>
  BY DEF CallDriver, outside, tables
<1>6. TypeOK'
  BY <1>4, <1>5 DEF TypeOK
<1>7. \A p \in Orders : OrderInv(p)'
  BY <1>5 DEF OrderInv
<1>8. ASSUME NEW p \in Requests PROVE RequestInv(p)'
  <2>1. CASE p = q
    <3>1. call # "assign" /\ call # "reassign" /\ lock'[o] = q
      BY <1>5 DEF DriverCalls, TypeOK
    <3> QED
      BY <1>3, <1>4, <1>5, <2>1, <3>1 DEF RequestInv
  <2>2. CASE p # q
    <3>1. req'[p] = req[p]
      BY <1>4, <2>2
    <3>2. \A x \in Orders : lock[x] = p => lock'[x] = p
      BY <1>5, NoneAssumption DEF TypeOK
    <3> QED
      BY <1>5, <3>1, <3>2 DEF RequestInv
  <2> QED
    BY <2>1, <2>2
<1> QED
  BY <1>6, <1>7, <1>8

LEMMA AssignIInv ==
    ASSUME IInv, NEW q \in Requests, NEW o \in Orders, Assign(q, o)
    PROVE  IInv'
<1> USE DEF IInv
<1>1. PICK d \in Pick(o, {}) : Run(q, "assign", o, NoRow, Offer(d))
  BY DEF Assign
<1>2. Offer(d) \in Row /\ Offer(d).driver = d
  BY <1>1, PickType, OfferType
<1>3. /\ req' \in [Requests -> Request]
      /\ req'[q].pc = "write" /\ req'[q].call = "assign" /\ req'[q].order = o
      /\ req'[q].new = Offer(d)
      /\ \A p \in Requests \ {q} : req'[p] = req[p]
  BY SMTT(30), <1>1, <1>2, NoRowType, RunType
<1>4. UNCHANGED <<order, ready, roster, astray, delivery, announced, events, acceptor, lock, reassigned>>
  BY DEF Assign, outside, tables
<1>5. TypeOK'
  BY <1>3, <1>4 DEF TypeOK
<1>6. \A p \in Orders : OrderInv(p)'
  BY <1>4 DEF OrderInv
<1>7. ASSUME NEW p \in Requests PROVE RequestInv(p)'
  <2>1. CASE p = q
    BY <1>2, <1>3, <2>1 DEF RequestInv, DriverCalls
  <2>2. CASE p # q
    BY <1>3, <1>4, <2>2 DEF RequestInv
  <2> QED
    BY <2>1, <2>2
<1> QED
  BY <1>5, <1>6, <1>7

LEMMA ReassignIInv ==
    ASSUME IInv, NEW q \in Requests, NEW o \in Orders, NEW d \in Drivers, Reassign(q, o, d)
    PROVE  IInv'
<1> USE DEF IInv
<1>1. delivery[o] \in Row /\ Run(q, "reassign", o, delivery[o], Offer(d))
  BY DEF Reassign, TypeOK
<1>2. Offer(d) \in Row
  BY OfferType
<1>3. /\ req' \in [Requests -> Request]
      /\ req'[q].pc = "write" /\ req'[q].call = "reassign" /\ req'[q].order = o
      /\ \A p \in Requests \ {q} : req'[p] = req[p]
  BY <1>1, <1>2, RunType
<1>4. /\ reassigned[o] < MaxReassigns /\ reassigned' = [reassigned EXCEPT ![o] = reassigned[o] + 1]
      /\ UNCHANGED <<order, ready, roster, astray, delivery, announced, events, acceptor, lock>>
  BY DEF Reassign, outside, tables
<1>5. /\ reassigned' \in [Orders -> 0..MaxReassigns]
      /\ \A p \in Orders : reassigned'[p] >= reassigned[p]
      /\ reassigned'[o] > 0
  BY <1>4, BoundsAssumption DEF TypeOK
<1>6. TypeOK'
  BY <1>3, <1>4, <1>5 DEF TypeOK
<1>7. ASSUME NEW p \in Orders PROVE OrderInv(p)'
  <2>1. reassigned'[p] = 0 => reassigned[p] = 0
    BY <1>5, BoundsAssumption DEF TypeOK
  <2> QED
    BY <1>4, <2>1 DEF OrderInv
<1>8. ASSUME NEW p \in Requests PROVE RequestInv(p)'
  <2>1. CASE p = q
    BY <1>3, <1>5, <2>1 DEF RequestInv, DriverCalls
  <2>2. CASE p # q
    <3>1. req'[p] = req[p]
      BY <1>3, <2>2
    <3>2. \A x \in Orders : reassigned[x] > 0 => reassigned'[x] > 0
      BY <1>5, BoundsAssumption DEF TypeOK
    <3> QED
      BY <1>4, <3>1, <3>2 DEF RequestInv
  <2> QED
    BY <2>1, <2>2
<1> QED
  BY <1>6, <1>7, <1>8

\* While a driver's call is running nobody else commits on its row, so what it
\* writes over the row is what it decided.
LEMMA DriverCommit ==
    ASSUME IInv, NEW q \in Requests, CommitDelivery(q), req[q].call \in DriverCalls
    PROVE  LET o == req[q].order IN
           /\ delivery'[o] = req[q].new
           /\ delivery[o] = req[q].seen
           /\ delivery[o].status \in From(req[q].call)
           /\ Outcome(req[q].call, delivery[o], req[q].new)
<1> DEFINE r == req[q]
           o == r.order
<1>1. r \in Request /\ r.pc = "write" /\ RequestInv(q)
  BY DEF IInv, TypeOK, CommitDelivery
<1>2. /\ o \in Orders /\ delivery[o] = r.seen /\ r.seen.status \in From(r.call)
      /\ Outcome(r.call, r.seen, r.new)
  BY <1>1 DEF RequestInv
<1>3. r.seen \in Row /\ r.new \in Row
  BY <1>1 DEF Request
<1>4. delivery' = [delivery EXCEPT ![o] = Written(r.seen, r.new, delivery[o])]
  BY DEF CommitDelivery
<1>5. Written(r.seen, r.new, delivery[o]) = r.new
  BY <1>2, <1>3, WrittenType
<1>6. delivery'[o] = r.new
  BY <1>2, <1>4, <1>5 DEF IInv, TypeOK
<1> QED
  BY <1>2, <1>6

LEMMA CommitDeliveryIInv ==
    ASSUME IInv, NEW q \in Requests, CommitDelivery(q)
    PROVE  IInv'
<1> USE DEF IInv
<1> DEFINE r == req[q]
           o == r.order
           row == Written(r.seen, r.new, delivery[o])
<1>1. r \in Request /\ r.pc = "write" /\ r.call # "assign" /\ o \in Orders
  <2>1. r \in Request /\ r.pc = "write" /\ r.call # "assign" /\ RequestInv(q)
    BY DEF TypeOK, CommitDelivery
  <2> QED
    BY <2>1 DEF RequestInv
<1>2. r.seen \in Row /\ r.new \in Row /\ r.new.driver \in Drivers \cup {NoDriver}
  BY <1>1, RowFields DEF Request
<1>3. row \in Row
  BY <1>1, <1>2, WrittenType DEF TypeOK
<1>4. /\ lock[o] \in {NoDriver, q} /\ lock' = [lock EXCEPT ![o] = NoDriver]
      /\ delivery' = [delivery EXCEPT ![o] = row]
      /\ Announce(o, r.new) /\ Finish(q)
      /\ acceptor' = IF r.call = "accept" THEN [acceptor EXCEPT ![o] = r.new.driver] ELSE acceptor
      /\ UNCHANGED <<order, ready, roster, astray, reassigned>>
  BY DEF CommitDelivery, outside
<1>5. /\ announced' \in [Orders -> Said]
      /\ announced'[o] = r.new
      /\ \A p \in Orders \ {o} : announced'[p] = announced[p]
      /\ events' \in [Orders -> SUBSET Progress]
  BY <1>1, <1>2, <1>4, RowSaid, AnnounceType
<1>6. /\ req' \in [Requests -> Request]
      /\ req'[q].pc = "idle"
      /\ \A p \in Requests \ {q} : req'[p] = req[p]
  BY <1>4, FinishType
<1>7. r.call \in DriverCalls => /\ delivery'[o] = r.new
                                /\ Outcome(r.call, delivery[o], r.new)
  BY DriverCommit
<1> HIDE DEF r, o, row
<1>8. TypeOK'
  BY <1>1, <1>2, <1>3, <1>4, <1>5, <1>6 DEF TypeOK
<1>9. ASSUME NEW p \in Orders PROVE OrderInv(p)'
  <2>1. CASE p # o
    <3>1. delivery'[p] = delivery[p] /\ acceptor'[p] = acceptor[p] /\ reassigned'[p] = reassigned[p]
      BY <1>1, <1>4, <2>1 DEF TypeOK
    <3>2. announced'[p] = announced[p]
      BY <1>5, <2>1
    <3> QED
      BY <3>1, <3>2 DEF OrderInv
  <2>2. CASE p = o /\ r.call = "reassign"
    <3>1. reassigned[o] > 0
      BY <1>1, <2>2 DEF RequestInv, r, o
    <3> QED
      BY <1>4, <2>2, <3>1 DEF OrderInv
  <2>3. CASE p = o /\ r.call \in DriverCalls
    <3>1. announced'[o] = delivery'[o]
      BY <1>5, <1>7, <2>3
    <3>2. ASSUME delivery'[o].status = "ACCEPTED" PROVE r.call = "accept"
      BY <1>7, <2>3, <3>2 DEF Outcome, DriverCalls
    <3>3. ASSUME r.call = "accept" PROVE acceptor'[o] = delivery'[o].driver
      <4>1. acceptor' = [acceptor EXCEPT ![o] = r.new.driver]
        BY <1>4, <3>3
      <4> QED
        BY <1>1, <1>7, <2>3, <4>1 DEF TypeOK
    <3> QED
      BY <2>3, <3>1, <3>2, <3>3 DEF OrderInv
  <2> QED
    BY <1>1, <2>1, <2>2, <2>3 DEF Request
<1>10. ASSUME NEW p \in Requests PROVE RequestInv(p)'
  <2>1. CASE p = q
    BY <1>6, <2>1 DEF RequestInv
  <2>2. CASE p # q
    <3>1. req'[p] = req[p]
      BY <1>6, <2>2
    <3>2. ASSUME NEW x \in Orders, lock[x] = p
          PROVE  lock'[x] = p /\ delivery'[x] = delivery[x]
      <4>1. x # o
        BY <1>4, <2>2, <3>2, NoneAssumption
      <4> QED
        BY <1>1, <1>4, <3>2, <4>1 DEF TypeOK
    <3> QED
      BY <1>4, <3>1, <3>2 DEF RequestInv
  <2> QED
    BY <2>1, <2>2
<1> QED
  BY <1>8, <1>9, <1>10

LEMMA InsertDeliveryIInv ==
    ASSUME IInv, NEW q \in Requests, InsertDelivery(q)
    PROVE  IInv'
<1> USE DEF IInv
<1> DEFINE r == req[q]
           o == r.order
<1>1. /\ r \in Request /\ r.pc = "write" /\ o \in Orders
      /\ r.new = Offer(r.new.driver)
  <2>1. r \in Request /\ r.pc = "write" /\ r.call = "assign" /\ RequestInv(q)
    BY DEF TypeOK, InsertDelivery
  <2> QED
    BY <2>1 DEF RequestInv
<1>2. r.new \in Row /\ r.new.driver \in Drivers \cup {NoDriver}
  BY <1>1, RowFields DEF Request
<1>8. /\ Unflushed(r.new) \in Said
      /\ \/ Unflushed(r.new) = r.new
         \/ Unflushed(r.new).status = "null" /\ r.new = Offer(NoDriver)
      /\ r.new.status # "ACCEPTED"
  BY <1>1, <1>2, UnflushedType, OfferType
<1>3. /\ Finish(q)
      /\ UNCHANGED <<order, ready, roster, astray, lock, acceptor, reassigned>>
  BY DEF InsertDelivery, outside
<1>4. /\ req' \in [Requests -> Request]
      /\ req'[q].pc = "idle"
      /\ \A p \in Requests \ {q} : req'[p] = req[p]
  BY <1>3, FinishType
<1>5. CASE /\ delivery[o] = NoRow
           /\ delivery' = [delivery EXCEPT ![o] = r.new]
           /\ Announce(o, Unflushed(r.new))
  <2>1. /\ announced' \in [Orders -> Said]
        /\ announced'[o] = Unflushed(r.new)
        /\ \A p \in Orders \ {o} : announced'[p] = announced[p]
        /\ events' \in [Orders -> SUBSET Progress]
    BY <1>1, <1>5, <1>8, AnnounceType
  <2>2. delivery'[o] = r.new /\ \A p \in Orders \ {o} : delivery'[p] = delivery[p]
    BY <1>1, <1>5 DEF TypeOK
  <2> HIDE DEF r, o
  <2>3. TypeOK'
    BY <1>2, <1>3, <1>4, <1>5, <2>1 DEF TypeOK
  <2>4. ASSUME NEW p \in Orders PROVE OrderInv(p)'
    <3>1. CASE p = o
      BY <1>8, <2>1, <2>2, <3>1 DEF OrderInv
    <3>2. CASE p # o
      BY <1>3, <2>1, <2>2, <3>2 DEF OrderInv
    <3> QED
      BY <3>1, <3>2
  <2>5. ASSUME NEW p \in Requests PROVE RequestInv(p)'
    <3>1. CASE p = q
      BY <1>4, <3>1 DEF RequestInv
    <3>2. CASE p # q
      <4>1. req'[p] = req[p]
        BY <1>4, <3>2
      <4>2. ASSUME NEW x \in Orders, delivery[x].driver \in Drivers
            PROVE  delivery'[x] = delivery[x]
        <5>1. x # o
          BY <1>5, <4>2, NoRowType, NoneAssumption
        <5> QED
          BY <2>2, <5>1
      <4> QED
        BY <1>3, <4>1, <4>2 DEF RequestInv
    <3> QED
      BY <3>1, <3>2
  <2> QED
    BY <2>3, <2>4, <2>5
<1>6. CASE UNCHANGED <<delivery, announced, events>>
  <2>1. TypeOK'
    BY <1>3, <1>4, <1>6 DEF TypeOK
  <2>2. \A p \in Orders : OrderInv(p)'
    BY <1>3, <1>6 DEF OrderInv
  <2>3. ASSUME NEW p \in Requests PROVE RequestInv(p)'
    <3>1. CASE p = q
      BY <1>4, <3>1 DEF RequestInv
    <3>2. CASE p # q
      BY <1>3, <1>4, <1>6, <3>2 DEF RequestInv
    <3> QED
      BY <3>1, <3>2
  <2> QED
    BY <2>1, <2>2, <2>3
<1> QED
  BY <1>5, <1>6 DEF InsertDelivery

LEMMA CrashIInv ==
    ASSUME IInv, NEW q \in Requests, Crash(q)
    PROVE  IInv'
<1> USE DEF IInv
<1>1. /\ lock' = [o \in Orders |-> IF lock[o] = q THEN NoDriver ELSE lock[o]]
      /\ Finish(q)
      /\ UNCHANGED <<order, ready, roster, astray, delivery, announced, events, acceptor, reassigned>>
  BY DEF Crash, outside, tables
<1>2. /\ req' \in [Requests -> Request]
      /\ req'[q].pc = "idle"
      /\ \A p \in Requests \ {q} : req'[p] = req[p]
  BY <1>1, FinishType
<1>4. TypeOK'
  BY <1>1, <1>2 DEF TypeOK
<1>5. \A p \in Orders : OrderInv(p)'
  BY <1>1 DEF OrderInv
<1>6. ASSUME NEW p \in Requests PROVE RequestInv(p)'
  <2>1. CASE p = q
    BY <1>2, <2>1 DEF RequestInv
  <2>2. CASE p # q
    <3>1. req'[p] = req[p]
      BY <1>2, <2>2
    <3>2. \A x \in Orders : lock[x] = p => lock'[x] = p
      BY <1>1, <2>2
    <3> QED
      BY <1>1, <3>1, <3>2 DEF RequestInv
  <2> QED
    BY <2>1, <2>2
<1> QED
  BY <1>4, <1>5, <1>6

\* A step of the services and people around leaves the deliveries alone.
LEMMA AroundIInv ==
    ASSUME IInv, TypeOK',
           UNCHANGED <<delivery, announced, acceptor, lock, req, reassigned>>
    PROVE  IInv'
<1>1. \A o \in Orders : OrderInv(o)'
  BY DEF IInv, OrderInv
<1>2. \A q \in Requests : RequestInv(q)'
  BY DEF IInv, RequestInv
<1> QED
  BY <1>1, <1>2 DEF IInv

LEMMA HandleType ==
    ASSUME IInv, NEW o \in Orders, NEW e \in Progress, NEW acked \in BOOLEAN,
           HandleDeliveryEvent(o, e, acked)
    PROVE  TypeOK'
<1>1. Target(e, order[o]) \in OrderStatus
  BY DEF Target, OrderStatus
<1>2. order' \in [Orders -> OrderStatus]
  BY <1>1 DEF IInv, TypeOK, HandleDeliveryEvent
<1>3. events' \in [Orders -> SUBSET Progress]
  BY DEF IInv, TypeOK, HandleDeliveryEvent
<1>4. astray' \in [Orders -> SUBSET {"ready", "progress"}]
  BY DEF IInv, TypeOK, HandleDeliveryEvent
<1> QED
  BY <1>2, <1>3, <1>4 DEF IInv, TypeOK, HandleDeliveryEvent

LEMMA NextIInv == IInv /\ [Next]_vars => IInv'
<1> SUFFICES ASSUME IInv, [Next]_vars PROVE IInv'
  OBVIOUS
<1>1. ASSUME NEW q \in Requests, NEW o \in Orders, NEW call \in DriverCalls, CallDriver(q, call, o)
      PROVE  IInv'
  BY <1>1, CallDriverIInv
<1>2. ASSUME NEW q \in Requests, NEW o \in Orders, Assign(q, o)
      PROVE  IInv'
  BY <1>2, AssignIInv
<1>3. ASSUME NEW q \in Requests, NEW o \in Orders, NEW d \in Drivers, Reassign(q, o, d)
      PROVE  IInv'
  BY <1>3, ReassignIInv
<1>4. ASSUME NEW q \in Requests, Commit(q)
      PROVE  IInv'
  BY <1>4, CommitDeliveryIInv, InsertDeliveryIInv DEF Commit
<1>5. ASSUME NEW q \in Requests, Crash(q)
      PROVE  IInv'
  BY <1>5, CrashIInv
<1>6. ASSUME NEW d \in Drivers, RosterChange(d)
      PROVE  IInv'
  <2>1. TypeOK'
    BY <1>6 DEF IInv, TypeOK, RosterChange, tables
  <2> QED
    BY <1>6, <2>1, AroundIInv DEF RosterChange, tables
<1>7. ASSUME NEW o \in Orders, NEW to \in OrderStatus, MoveOrder(o, to)
      PROVE  IInv'
  <2>1. TypeOK'
    BY <1>7 DEF IInv, TypeOK, MoveOrder, tables
  <2> QED
    BY <1>7, <2>1, AroundIInv DEF MoveOrder, tables
<1>8. ASSUME NEW o \in Orders, NEW e \in Progress, NEW acked \in BOOLEAN,
             HandleDeliveryEvent(o, e, acked)
      PROVE  IInv'
  BY <1>8, HandleType, AroundIInv DEF HandleDeliveryEvent
<1>9. ASSUME NEW o \in Orders, LoseReadyEvent(o) \/ \E e \in Progress : LoseDeliveryEvent(o, e)
      PROVE  IInv'
  <2>1. TypeOK'
    BY <1>9 DEF IInv, TypeOK, LoseReadyEvent, LoseDeliveryEvent, tables
  <2> QED
    BY <1>9, <2>1, AroundIInv DEF LoseReadyEvent, LoseDeliveryEvent, tables
<1>10. CASE UNCHANGED vars
  <2>1. TypeOK'
    BY <1>10 DEF IInv, TypeOK, vars
  <2> QED
    BY <1>10, <2>1, AroundIInv DEF vars
<1> QED
  BY <1>1, <1>2, <1>3, <1>4, <1>5, <1>6, <1>7, <1>8, <1>9, <1>10 DEF Next

-----------------------------------------------------------------------------
(* The theorems.                                                           *)

\* The inductive invariant of the delivery service: a driver's call owns its row
\* from its SELECT ... FOR UPDATE to its commit.
THEOREM Invariance == Spec => []IInv
<1>1. Init => IInv
  BY InitIInv
<1>2. IInv /\ [Next]_vars => IInv'
  BY NextIInv
<1> QED
  BY <1>1, <1>2, PTL DEF Spec

\* Every reachable state is well typed.
THEOREM TypeCorrect == Spec => []TypeOK
<1>1. IInv => TypeOK
  BY DEF IInv
<1> QED
  BY <1>1, Invariance, PTL

\* accept_assignment against every other call: the driver on an accepted
\* delivery is the one who accepted it, for any number of overlapping calls.
THEOREM AcceptedByItsDriverAlways == Spec => []AcceptedByItsDriver
<1>1. IInv => AcceptedByItsDriver
  BY DEF IInv, OrderInv, AcceptedByItsDriver
<1> QED
  BY <1>1, Invariance, PTL

\* _announce_status: the last event says what the row says, the status left out
\* at most of the first event of a delivery nobody carries yet.
THEOREM LastEventIsRowAlways == Spec => []LastEventIsRow
<1>1. IInv => LastEventIsRow
  BY DEF IInv, OrderInv, LastEventIsRow
<1> QED
  BY <1>1, Invariance, PTL

\* A commit on a delivery that was picked up: its driver's own, or a
\* reassignment's.
LEMMA HandedOverStep ==
    ASSUME IInv, Next, NEW o \in Orders,
           delivery[o].status \in Progress, reassigned'[o] = 0
    PROVE  /\ delivery'[o].driver = delivery[o].driver
           /\ delivery'[o].status \in Progress
           /\ delivery[o].status = "DELIVERED" => delivery'[o].status = "DELIVERED"
<1>1. CASE delivery' = delivery
  BY <1>1
<1>2. ASSUME NEW q \in Requests, CommitDelivery(q)
      PROVE  \/ delivery'[o] = delivery[o]
             \/ /\ delivery'[o].driver = delivery[o].driver
                /\ delivery'[o].status = "DELIVERED"
  <2> DEFINE r == req[q]
  <2>1. r \in Request /\ r.pc = "write" /\ r.call # "assign" /\ RequestInv(q) /\ TypeOK
    BY <1>2 DEF IInv, TypeOK, CommitDelivery
  <2>2. delivery' = [delivery EXCEPT ![r.order] = Written(r.seen, r.new, @)] /\ reassigned' = reassigned
    BY <1>2 DEF CommitDelivery
  <2>3. CASE r.order # o
    BY <2>1, <2>2, <2>3 DEF TypeOK
  <2>4. CASE r.order = o /\ r.call = "reassign"
    BY <2>1, <2>2, <2>4 DEF RequestInv
  <2>5. CASE r.order = o /\ r.call \in DriverCalls
    <3>1. /\ delivery'[o] = r.new /\ delivery[o].status \in From(r.call)
          /\ Outcome(r.call, delivery[o], r.new)
      BY <1>2, <2>5, DriverCommit
    <3>2. r.call = "deliver"
      BY <2>5, <3>1 DEF From, DriverCalls, Progress
    <3> QED
      BY <3>1, <3>2 DEF Outcome
  <2> QED
    BY <2>1, <2>3, <2>4, <2>5 DEF Request
<1>3. ASSUME NEW q \in Requests, InsertDelivery(q)
      PROVE  delivery'[o] = delivery[o]
  <2>1. CASE delivery' = delivery
    BY <2>1
  <2>2. CASE /\ delivery[req[q].order] = NoRow
             /\ delivery' = [delivery EXCEPT ![req[q].order] = req[q].new]
    <3>1. o # req[q].order
      BY <2>2, NoRowType, NoneAssumption DEF Progress, DeliveryStatus
    <3> QED
      BY <2>2, <3>1 DEF IInv, TypeOK
  <2> QED
    BY <1>3, <2>1, <2>2 DEF InsertDelivery
<1>4. \/ delivery' = delivery
      \/ \E q \in Requests : CommitDelivery(q)
      \/ \E q \in Requests : InsertDelivery(q)
  BY DEF Next, Commit, CallDriver, Assign, Reassign, Crash, RosterChange, MoveOrder,
         HandleDeliveryEvent, LoseDeliveryEvent, LoseReadyEvent, tables
<1> QED
  BY <1>1, <1>2, <1>3, <1>4 DEF Progress

\* pickup and deliver against every other call: only a reassignment takes food
\* from the driver who has it, or undoes a delivery.
THEOREM HandedOverStaysAlways == Spec => HandedOverStays
<1> DEFINE Stays ==
        \A o \in Orders :
          delivery[o].status \in Progress /\ reassigned'[o] = 0 =>
              /\ delivery'[o].driver = delivery[o].driver
              /\ delivery'[o].status \in Progress
              /\ delivery[o].status = "DELIVERED" => delivery'[o].status = "DELIVERED"
<1>1. IInv /\ [Next]_vars => [Stays]_vars
  BY HandedOverStep
<1>2. [][Stays]_vars => HandedOverStays
  BY DEF HandedOverStays
<1> HIDE DEF Stays
<1> QED
  BY <1>1, <1>2, Invariance, PTL DEF Spec

-----------------------------------------------------------------------------
(* One order per driver, when transactions do not overlap.                 *)

OneSlot == \A p, q \in Requests : p = q

\* Another active delivery than that of o has driver d.
Elsewhere(o, d) == \E p \in Orders \ {o} : delivery[p].status \in ACTIVE_STATUSES /\ delivery[p].driver = d

\* What the one transaction is about to write makes no driver busy twice.
ActiveInv ==
    /\ OneActivePerDriver
    /\ \A q \in Requests :
          req[q].pc = "write" /\ req[q].new.status \in ACTIVE_STATUSES =>
              ~Elsewhere(req[q].order, req[q].new.driver)

LEMMA PickedIsFree ==
    ASSUME NEW o \in Orders, NEW excluded, NEW d \in Pick(o, excluded)
    PROVE  Offer(d).status \in ACTIVE_STATUSES => ~Elsewhere(o, Offer(d).driver)
<1>1. Offer(d).driver = d /\ (Offer(d).status \in ACTIVE_STATUSES => d # NoDriver)
  BY DEF Offer, ACTIVE_STATUSES
<1>2. d # NoDriver => d \notin Busy(o)
  BY DEF Pick
<1>3. d \notin Busy(o) => ~Elsewhere(o, d)
  BY DEF Busy, Elsewhere
<1> QED
  BY <1>1, <1>2, <1>3

\* A driver's call leaves its own driver the only one of an active delivery.
LEMMA ResultIsFree ==
    ASSUME TypeOK, OneActivePerDriver, NEW call \in DriverCalls, NEW o \in Orders,
           delivery[o].status \in From(call), NEW new \in Results(call, o, delivery[o]),
           new.status \in ACTIVE_STATUSES
    PROVE  ~Elsewhere(o, new.driver)
<1>1. CASE call = "reject"
  <2>1. PICK d \in Pick(o, {delivery[o].driver}) : new = Offer(d)
    BY <1>1 DEF Results
  <2> QED
    BY <2>1, PickedIsFree
<1>2. CASE call # "reject"
  <2>1. delivery[o] \in Row /\ Outcome(call, delivery[o], new)
    BY ResultsType DEF TypeOK
  <2>2. new.driver = delivery[o].driver
    BY <1>2, <2>1 DEF Outcome, DriverCalls
  <2>3. delivery[o].status \in ACTIVE_STATUSES
    BY <1>2 DEF From, DriverCalls, ACTIVE_STATUSES
  <2> QED
    BY <2>2, <2>3 DEF OneActivePerDriver, Elsewhere
<1> QED
  BY <1>1, <1>2

\* A transaction starts.
LEMMA ActiveStarts ==
    ASSUME OneSlot, IInv, ActiveInv, NEW q \in Requests, NEW o \in Orders,
           NEW call \in DriverCalls \cup {"assign"}, NEW seen \in Row, NEW new \in Row,
           Run(q, call, o, seen, new), delivery' = delivery,
           new.status \in ACTIVE_STATUSES => ~Elsewhere(o, new.driver)
    PROVE  ActiveInv'
<1>1. req'[q].order = o /\ req'[q].new = new
  BY RunType DEF IInv
<1>2. ASSUME NEW p \in Requests  PROVE req'[p].order = o /\ req'[p].new = new
  BY <1>1 DEF OneSlot
<1>3. Elsewhere(o, new.driver)' <=> Elsewhere(o, new.driver)
  BY DEF Elsewhere
<1>4. OneActivePerDriver'
  BY DEF ActiveInv, OneActivePerDriver
<1>5. ASSUME NEW p \in Requests, req'[p].new.status \in ACTIVE_STATUSES
      PROVE  ~Elsewhere(req[p].order, req[p].new.driver)'
  BY <1>2, <1>3, <1>5
<1> QED
  BY <1>4, <1>5 DEF ActiveInv

\* A transaction commits what it decided.
LEMMA ActiveCommits ==
    ASSUME OneSlot, IInv, ActiveInv, NEW q \in Requests, req[q].pc = "write", Finish(q),
           delivery' = [delivery EXCEPT ![req[q].order] = req[q].new]
    PROVE  ActiveInv'
<1>1. PICK o \in Orders, new \in Row : o = req[q].order /\ new = req[q].new
  BY DEF IInv, TypeOK, RequestInv, Request
<1>2. new.status \in ACTIVE_STATUSES => ~Elsewhere(o, new.driver)
  BY <1>1 DEF ActiveInv
<1>3. \A p \in Orders : delivery'[p] = IF p = o THEN new ELSE delivery[p]
  BY <1>1 DEF IInv, TypeOK
<1>4. OneActivePerDriver'
  BY <1>2, <1>3 DEF OneActivePerDriver, ActiveInv, Elsewhere
<1>5. \A p \in Requests : req'[p].pc = "idle"
  BY FinishType DEF OneSlot, IInv
<1> QED
  BY <1>4, <1>5 DEF ActiveInv

LEMMA ActiveStep ==
    ASSUME OneSlot, MaxReassigns = 0, IInv, ActiveInv, [Next]_vars
    PROVE  ActiveInv'
<1>1. ASSUME NEW q \in Requests, NEW call \in DriverCalls, NEW o \in Orders, CallDriver(q, call, o)
      PROVE  ActiveInv'
  <2>1. PICK new \in Results(call, o, delivery[o]) : Run(q, call, o, delivery[o], new)
    BY <1>1 DEF CallDriver
  <2>2. delivery[o] \in Row /\ new \in Row
    BY ResultsType DEF IInv, TypeOK
  <2>3. new.status \in ACTIVE_STATUSES => ~Elsewhere(o, new.driver)
    BY <1>1, ResultIsFree DEF CallDriver, IInv, ActiveInv
  <2>4. delivery' = delivery
    BY <1>1 DEF CallDriver, tables
  <2> QED
    BY <2>1, <2>2, <2>3, <2>4, ActiveStarts
<1>2. ASSUME NEW q \in Requests, NEW o \in Orders, Assign(q, o)
      PROVE  ActiveInv'
  <2>1. PICK d \in Pick(o, {}) : Run(q, "assign", o, NoRow, Offer(d))
    BY <1>2 DEF Assign
  <2>2. NoRow \in Row /\ Offer(d) \in Row
    BY NoRowType, PickType, OfferType
  <2>3. Offer(d).status \in ACTIVE_STATUSES => ~Elsewhere(o, Offer(d).driver)
    BY PickedIsFree
  <2>4. delivery' = delivery
    BY <1>2 DEF Assign, tables
  <2> QED
    BY <2>1, <2>2, <2>3, <2>4, ActiveStarts
<1>3. ASSUME NEW q \in Requests, NEW o \in Orders, NEW d \in Drivers, Reassign(q, o, d)
      PROVE  ActiveInv'
  BY <1>3 DEF Reassign, IInv, TypeOK
<1>4. ASSUME NEW q \in Requests, CommitDelivery(q)
      PROVE  ActiveInv'
  <2>1. req[q] \in Request /\ req[q].pc = "write" /\ req[q].call # "assign" /\ RequestInv(q) /\ Finish(q)
    BY <1>4 DEF IInv, TypeOK, CommitDelivery
  <2>2. req[q].order \in Orders /\ req[q].call \in DriverCalls
    <3>1. reassigned \in [Orders -> 0..0]
      BY DEF IInv, TypeOK
    <3> QED
      BY <2>1, <3>1 DEF RequestInv, Request
  <2>3. delivery'[req[q].order] = req[q].new
    BY <1>4, <2>2, DriverCommit
  <2>4. delivery' = [delivery EXCEPT ![req[q].order] = req[q].new]
    <3>1. PICK w : delivery' = [delivery EXCEPT ![req[q].order] = w]
      BY <1>4 DEF CommitDelivery
    <3>2. w = req[q].new
      BY <2>2, <2>3, <3>1 DEF IInv, TypeOK
    <3> QED
      BY <3>1, <3>2
  <2> QED
    BY <2>1, <2>4, ActiveCommits
<1>5. ASSUME NEW q \in Requests, InsertDelivery(q)
      PROVE  ActiveInv'
  <2>1. req[q].pc = "write" /\ Finish(q)
    BY <1>5 DEF InsertDelivery
  <2>2. CASE delivery' = [delivery EXCEPT ![req[q].order] = req[q].new]
    BY <2>1, <2>2, ActiveCommits
  <2>3. CASE delivery' = delivery
    <3>1. \A p \in Requests : req'[p].pc = "idle"
      BY <2>1, FinishType DEF OneSlot, IInv
    <3> QED
      BY <2>3, <3>1 DEF ActiveInv, OneActivePerDriver
  <2> QED
    BY <1>5, <2>2, <2>3 DEF InsertDelivery
<1>6. ASSUME NEW q \in Requests, Crash(q)
      PROVE  ActiveInv'
  <2>1. Finish(q) /\ delivery' = delivery
    BY <1>6 DEF Crash, tables
  <2>2. \A p \in Requests : req'[p].pc = "idle"
    BY <2>1, FinishType DEF OneSlot, IInv
  <2> QED
    BY <2>1, <2>2 DEF ActiveInv, OneActivePerDriver
<1>7. CASE delivery' = delivery /\ req' = req
  BY <1>7 DEF ActiveInv, OneActivePerDriver, Elsewhere
<1> QED
  BY <1>1, <1>2, <1>3, <1>4, <1>5, <1>6, <1>7
     DEF Next, Commit, RosterChange, MoveOrder, HandleDeliveryEvent, LoseDeliveryEvent, LoseReadyEvent, tables, vars

\* What "one active order per driver" (class Delivery) rests on: when one
\* transaction at a time chooses a driver and no restaurant reassigns, _pick_driver
\* and the driver's calls never give a driver a second active delivery.  Overlap
\* and reassignment are all there is to the violation.
THEOREM OneAtATimeOneActive ==
    ASSUME OneSlot, MaxReassigns = 0
    PROVE  Spec => []OneActivePerDriver
<1>1. Init => ActiveInv
  <2>1. Absent \notin ACTIVE_STATUSES
    BY NoneAssumption DEF ACTIVE_STATUSES, DeliveryStatus
  <2> QED
    BY <2>1, NoRowType, IdleType DEF Init, ActiveInv, OneActivePerDriver
<1>2. IInv /\ ActiveInv /\ [Next]_vars => ActiveInv'
  BY ActiveStep
<1>3. ActiveInv => OneActivePerDriver
  BY DEF ActiveInv
<1> QED
  BY <1>1, <1>2, <1>3, Invariance, PTL DEF Spec

=============================================================================
