--------------------------- MODULE OrdersProofs ---------------------------
(***************************************************************************)
(* Proofs about Orders, for any sets of orders and requests, any calls and *)
(* any number of crashes.                                                  *)
(***************************************************************************)
EXTENDS Orders, SequenceTheorems, TLAPS

\* A status the state machine allows is a status, is not the current one, and
\* nothing leaves an ended order.
LEMMA AllowedMoves ==
    ASSUME NEW s \in OrderStatus, NEW t, TransitionAllowed(s, t)
    PROVE  /\ t \in OrderStatus
           /\ t # s
           /\ s \notin {"COMPLETED", "CANCELLED", "REJECTED"}
           /\ s = "DELIVERED" => t = "COMPLETED"
           /\ t = "DELIVERED" => s = "OUT_FOR_DELIVERY"
           /\ t = "PAYMENT_SUCCESS" => s = "PAYMENT_PENDING"
           /\ t # "CREATED"
           /\ t = "PAYMENT_PENDING" => s = "CREATED"
BY DEF TransitionAllowed, ALLOWED, OrderStatus

\* Who acts, and what is given back, is always one of the enumerated values.
LEMMA CallTypes ==
    ASSUME NEW c \in AllCalls
    PROVE  /\ ActorOf(c) \in Actor
           /\ c.to \in OrderStatus
           /\ \A seen : RefundOf(c, seen) \in {"NONE", "FULL"}
           /\ \A seen : RefundOf(c, seen) = "FULL" => Unwinds(c)
           /\ Unwinds(c) => c.to \in {"CANCELLED", "REJECTED"}
           /\ c \notin LockedCalls => Unwinds(c)
BY DEF AllCalls, LockedCalls, CancelCalls, SweepCalls, ActorOf, Actor, RefundOf,
       refund_on_cancel, Unwinds, OrderStatus

\* The object a function ends with, and the row its UPDATE leaves, are rows.
LEMMA DecidedType ==
    ASSUME NEW c \in AllCalls, NEW seen \in Row
    PROVE  Decided(c, seen) \in Row
BY CallTypes DEF Decided, Row, PaymentStatus, RefundStatus

LEMMA WrittenType ==
    ASSUME NEW cur \in Row, NEW seen \in Row, NEW new \in Row
    PROVE  Written(cur, seen, new) \in Row
BY DEF Written, Row

-----------------------------------------------------------------------------
(* The inductive invariant.                                                *)

Ended == {"CANCELLED", "REJECTED"}

\* A row books a refund in both columns or in neither, and only once ended.
RowInv(r) ==
    /\ r.refund_status \in {"NONE", "FULL"}
    /\ r.refund_status = "FULL" <=> r.payment_status = "REFUNDED"
    /\ r.refund_status = "FULL" => r.status \in Ended

\* The orders a transaction read and has not given up.
Busy(q) == req[q].todo \cup req[q].held
             \cup (IF req[q].pc = "flush" THEN {req[q].cur} ELSE {})

\* What a transaction knows: the orders it read are in the table, those it
\* took passed its checks, those it wrote are locked by it, and if it read
\* with FOR UPDATE then what it read is still what the table says.
ReqInv(q) ==
    /\ req[q].pc = "idle" => req[q].todo = {} /\ req[q].held = {}
    /\ req[q].pc # "idle" => req[q].call \in Calls
    /\ req[q].pc \in {"flush", "release"} => req[q].cur \in Orders
    /\ \A o \in Busy(q) :
         /\ req[q].seen[o].status \in OrderStatus
         /\ row[o].status \in OrderStatus
         /\ RowInv(req[q].seen[o])
    /\ \A o \in Busy(q) \ req[q].todo : Permitted(req[q].call, req[q].seen[o])
    /\ \A o \in req[q].held : lock[o] = q
    /\ req[q].call \in LockedCalls =>
         \A o \in Busy(q) : lock[o] = q /\ req[q].seen[o] = row[o]

IInv ==
    /\ TypeOK
    /\ \A o \in Orders : RowInv(row[o])
    /\ \A q \in Requests : ReqInv(q)

LEMMA InitIInv == Init => IInv
BY BoundsAssumption, NoneAssumption
   DEF Init, IInv, TypeOK, RowInv, ReqInv, Busy, NoRow, IdleRequest, Request, Row,
       PaymentStatus, RefundStatus

\* A transaction is not disturbed by a step that leaves its slot alone, keeps
\* its locks, and does not change the rows it has locked.
LEMMA Undisturbed ==
    ASSUME NEW q \in Requests, ReqInv(q), req'[q] = req[q],
           \A o \in Busy(q) :
              /\ row'[o].status \in OrderStatus
              /\ lock[o] = q => lock'[o] = q /\ row'[o] = row[o]
    PROVE  ReqInv(q)'
<1>1. Busy(q)' = Busy(q)
  BY DEF Busy
<1>2. req[q].held \subseteq Busy(q)
  BY DEF Busy
<1>3. \A o \in req[q].held : lock'[o] = q
  BY <1>2 DEF ReqInv
<1> QED BY <1>1, <1>3 DEF ReqInv

\* The steps of one transaction leave the slots of the others alone.
LEMMA BusyInOrders ==
    ASSUME IInv, NEW q \in Requests
    PROVE  Busy(q) \subseteq Orders
BY DEF IInv, TypeOK, ReqInv, Request, Busy

LEMMA CreateIInv ==
    ASSUME IInv, NEW o \in Orders, NEW m \in PaymentMethod, CreateOrder(o, m)
    PROVE  IInv'
<1> DEFINE final == IF m = "COD" THEN "PAYMENT_SUCCESS" ELSE "PAYMENT_PENDING"
           Step(from, to) == [from |-> from, to |-> to, actor |-> "SYSTEM"]
<1>1. TypeOK'
  <2>1. row' \in [Orders -> Row]
    <3> DEFINE new == [row[o] EXCEPT !.status = final,
                                     !.payment_status = IF m = "COD" THEN "SUCCESS" ELSE "PENDING"]
    <3>1. new \in Row
      BY ZenonT(60) DEF IInv, TypeOK, Row, OrderStatus, PaymentStatus
    <3>2. row' = [row EXCEPT ![o] = new]
      BY DEF IInv, TypeOK, CreateOrder, Row
    <3> HIDE DEF new
    <3> QED BY <3>1, <3>2 DEF IInv, TypeOK
  <2>2. published' \in [Orders -> Seq(OrderStatus)]
    <3>1. final \in OrderStatus
      BY DEF OrderStatus
    <3>2. published[o] \in Seq(OrderStatus)
      BY DEF IInv, TypeOK
    <3>3. Append(published[o], final) \in Seq(OrderStatus)
      BY <3>1, <3>2
    <3> QED BY <3>3 DEF IInv, TypeOK, CreateOrder
  <2>3. audit' \in [Orders -> Seq(AuditEntry)]
    <3>1. /\ Step(None, "CREATED") \in AuditEntry
          /\ Step("CREATED", "PAYMENT_PENDING") \in AuditEntry
          /\ Step("PAYMENT_PENDING", "PAYMENT_SUCCESS") \in AuditEntry
      BY DEF AuditEntry, OrderStatus, Actor
    <3> DEFINE head == <<Step(None, "CREATED"), Step("CREATED", "PAYMENT_PENDING")>>
               tail == IF m = "COD" THEN <<Step("PAYMENT_PENDING", "PAYMENT_SUCCESS")>> ELSE <<>>
    <3>2. head \in Seq(AuditEntry) /\ tail \in Seq(AuditEntry)
      <4> HIDE DEF Step
      <4> QED BY <3>1
    <3>3. head \o tail \in Seq(AuditEntry)
      <4> HIDE DEF head, tail
      <4> QED BY <3>2, ConcatProperties
    <3>4. audit' = [audit EXCEPT ![o] = head \o tail]
      BY DEF CreateOrder
    <3> HIDE DEF head, tail
    <3> QED BY <3>3, <3>4 DEF IInv, TypeOK
  <2>4. notified' \in [Orders -> Nat]
    BY DEF IInv, TypeOK, CreateOrder, Told
  <2> QED BY <2>1, <2>2, <2>3, <2>4 DEF IInv, TypeOK, CreateOrder
<1>2. \A p \in Orders : RowInv(row[p])'
  BY SMTT(30) DEF IInv, TypeOK, CreateOrder, Row, RowInv
<1>3. ASSUME NEW q \in Requests PROVE ReqInv(q)'
  <2>1. ASSUME NEW p \in Busy(q) PROVE p # o
    BY NoneAssumption, <2>1 DEF IInv, ReqInv, CreateOrder
  <2>2. /\ req'[q] = req[q] /\ lock' = lock
        /\ \A p \in Orders : p # o => row'[p] = row[p]
    BY DEF IInv, TypeOK, CreateOrder
  <2>3. ReqInv(q) /\ \A p \in Busy(q) : p \in Orders /\ row[p].status \in OrderStatus
    BY BusyInOrders DEF IInv, ReqInv
  <2> QED BY <2>1, <2>2, <2>3, Undisturbed
<1> QED BY <1>1, <1>2, <1>3 DEF IInv

LEMMA ReadIInv ==
    ASSUME IInv, NEW q \in Requests, NEW c \in Calls, NEW o \in Orders,
           LockOrder(q, c, o) \/ ReadOrder(q, c, o) \/ ReadStale(q, c)
    PROVE  IInv'
<1> DEFINE S == IF c \in SweepCalls THEN Stale(c) ELSE {o}
<1>1. /\ c \in AllCalls /\ req[q].pc = "idle"
      /\ UNCHANGED <<row, aged, audit, outbox, released, crashes>>
  BY CallsAssumption DEF LockOrder, ReadOrder, ReadStale
<1>2. /\ c \notin SweepCalls \/ c \notin LockedCalls
      /\ c \notin SweepCalls \/ c \notin CancelCalls
  BY DEF SweepCalls, LockedCalls, CancelCalls
<1>3. req' = [req EXCEPT ![q] = Started(c, S)]
  BY <1>2 DEF LockOrder, ReadOrder, ReadStale
<1>4. S \subseteq Orders /\ \A p \in S : row[p].status \in OrderStatus
  <2>1. CASE ReadStale(q, c)
    BY <2>1 DEF ReadStale, Stale, OrderStatus
  <2>2. CASE LockOrder(q, c, o) \/ ReadOrder(q, c, o)
    BY <1>2, <2>2 DEF LockOrder, ReadOrder, IInv, TypeOK, Row
  <2> QED BY <2>1, <2>2
<1>5. /\ lock' \in [Orders -> Requests \cup {None}]
      /\ \A p \in Orders : lock'[p] = lock[p] \/ lock[p] = None
      /\ c \in LockedCalls => \A p \in S : lock'[p] = q
  <2>1. lock \in [Orders -> Requests \cup {None}]
    BY DEF IInv, TypeOK
  <2>2. CASE LockOrder(q, c, o)
    BY <1>2, <2>1, <2>2 DEF LockOrder
  <2>3. CASE ReadOrder(q, c, o)
    <3>1. c \notin LockedCalls /\ lock' = lock
      BY <2>3 DEF ReadOrder, CancelCalls, LockedCalls
    <3> QED BY <2>1, <3>1
  <2>4. CASE ReadStale(q, c)
    BY <1>2, <2>1, <2>4 DEF ReadStale
  <2> QED BY <2>2, <2>3, <2>4
<1> HIDE DEF S
<1>6. Started(c, S) \in Request
  BY <1>1, <1>4 DEF Started, Request, NoRow, Row, IInv, TypeOK, PaymentStatus, RefundStatus
<1>7. TypeOK'
  BY <1>1, <1>3, <1>5, <1>6 DEF IInv, TypeOK, outbox
<1>8. ASSUME NEW p \in Requests PROVE ReqInv(p)'
  <2>1. CASE p # q
    <3>1. req'[p] = req[p] /\ row' = row
      BY <1>1, <1>3, <2>1 DEF IInv, TypeOK
    <3>2. \A x \in Busy(p) : x \in Orders /\ row[x].status \in OrderStatus
      BY BusyInOrders DEF IInv, ReqInv
    <3>3. \A x \in Orders : lock[x] = p => lock'[x] = p
      BY <1>5, NoneAssumption
    <3>4. ReqInv(p)
      BY DEF IInv
    <3> QED BY <3>1, <3>2, <3>3, <3>4, Undisturbed
  <2>2. CASE p = q
    <3>1. req'[q] = Started(c, S) /\ row' = row
      BY <1>1, <1>3 DEF IInv, TypeOK
    <3>2. Busy(q)' = S
      BY <3>1 DEF Busy, Started
    <3>3. \A x \in S : req'[q].seen[x] = row[x] /\ RowInv(row[x])
      BY <1>4, <3>1 DEF Started, IInv
    <3> QED BY <1>4, <1>5, <2>2, <3>1, <3>2, <3>3 DEF ReqInv, Started
  <2> QED BY <2>1, <2>2
<1>9. \A p \in Orders : RowInv(row[p])'
  BY <1>1 DEF IInv
<1> QED BY <1>7, <1>8, <1>9 DEF IInv

LEMMA TakeNextIInv ==
    ASSUME IInv, NEW q \in Requests, TakeNext(q)
    PROVE  IInv'
<1> PICK o \in req[q].todo :
       /\ Permitted(req[q].call, req[q].seen[o])
       /\ req' = [req EXCEPT ![q].pc = "flush", ![q].cur = o, ![q].todo = @ \ {o}]
  BY DEF TakeNext
<1>1. /\ req[q] \in Request /\ req \in [Requests -> Request] /\ o \in Orders
      /\ req[q].pc = "next"
  BY DEF IInv, TypeOK, Request, TakeNext
<1>2. /\ \A p \in Requests : p # q => req'[p] = req[p]
      /\ req'[q] = [req[q] EXCEPT !.pc = "flush", !.cur = o, !.todo = @ \ {o}]
      /\ req' \in [Requests -> Request]
  BY <1>1 DEF Request
<1>3. TypeOK'
  BY <1>2 DEF IInv, TypeOK, TakeNext, outbox
<1>4. ASSUME NEW p \in Requests PROVE ReqInv(p)'
  <2>1. CASE p # q
    BY SMTT(30), <1>2, <2>1, Undisturbed DEF IInv, TakeNext, ReqInv
  <2>2. CASE p = q
    <3>1. /\ req'[q].pc = "flush" /\ req'[q].cur = o /\ req'[q].todo = req[q].todo \ {o}
          /\ req'[q].held = req[q].held /\ req'[q].seen = req[q].seen
          /\ req'[q].call = req[q].call
      BY <1>1, <1>2 DEF Request
    <3>2. Busy(q)' = Busy(q) /\ Busy(q) = req[q].todo \cup req[q].held
      BY <1>1, <3>1 DEF Busy
    <3> QED BY <1>1, <2>2, <3>1, <3>2 DEF IInv, ReqInv, TakeNext
  <2> QED BY <2>1, <2>2
<1> QED BY <1>3, <1>4 DEF IInv, TakeNext

LEMMA FlushIInv ==
    ASSUME IInv, NEW q \in Requests, Flush(q)
    PROVE  IInv'
<1> DEFINE o == req[q].cur
           next == IF Unwinds(req[q].call) THEN "release" ELSE "next"
<1>1. /\ req[q] \in Request /\ req \in [Requests -> Request] /\ o \in Orders
      /\ req[q].pc = "flush" /\ lock \in [Orders -> Requests \cup {None}]
      /\ lock' = [lock EXCEPT ![o] = q] /\ lock[o] \in {None, q}
  BY DEF IInv, TypeOK, ReqInv, Flush
<1>2. /\ \A p \in Requests : p # q => req'[p] = req[p]
      /\ req'[q] = [req[q] EXCEPT !.pc = next, !.held = @ \cup {o}]
      /\ req' \in [Requests -> Request]
  BY ZenonT(60), <1>1 DEF Request, Flush
<1>3. TypeOK'
  BY SMTT(30), <1>1, <1>2 DEF IInv, TypeOK, Flush, outbox
<1>4. ASSUME NEW p \in Requests PROVE ReqInv(p)'
  <2>1. CASE p # q
    <3>1. \A x \in Busy(p) : x \in Orders /\ (lock[x] = p => lock'[x] = p)
      BY <1>1, <2>1, BusyInOrders, NoneAssumption
    <3> QED BY SMTT(30), <1>2, <2>1, <3>1, Undisturbed DEF IInv, Flush, ReqInv
  <2>2. CASE p = q
    <3>1. /\ req'[q].pc = next /\ req'[q].cur = o /\ req'[q].todo = req[q].todo
          /\ req'[q].held = req[q].held \cup {o} /\ req'[q].seen = req[q].seen
          /\ req'[q].call = req[q].call
      BY <1>1, <1>2 DEF Request
    <3>2. Busy(q)' = Busy(q) /\ Busy(q) = req[q].todo \cup req[q].held \cup {o}
      BY <1>1, <3>1 DEF Busy
    <3>3. \A x \in Orders : lock[x] = q => lock'[x] = q
      BY <1>1
    <3>4. lock'[o] = q /\ next \in {"next", "release"}
      BY <1>1
    <3>5. req[q].held \subseteq Orders /\ Busy(q) \subseteq Orders /\ row' = row
      BY <1>1, BusyInOrders DEF Request, Flush
    <3>6. ReqInv(q)
      BY DEF IInv
    <3> HIDE DEF o, next
    <3>7. \A x \in req'[q].held : lock'[x] = q
      BY <3>1, <3>3, <3>4, <3>5, <3>6 DEF ReqInv
    <3> QED BY <1>1, <2>2, <3>1, <3>2, <3>3, <3>4, <3>5, <3>6, <3>7 DEF ReqInv
  <2> QED BY <2>1, <2>2
<1> QED BY <1>3, <1>4 DEF IInv, Flush

LEMMA ReleaseIInv ==
    ASSUME IInv, NEW q \in Requests, ReleaseStock(q)
    PROVE  IInv'
<1>1. /\ req[q] \in Request /\ req \in [Requests -> Request]
      /\ req[q].pc = "release" /\ released' \in [Orders -> Nat]
  BY SMTT(30) DEF IInv, TypeOK, ReleaseStock
<1>2. /\ \A p \in Requests : p # q => req'[p] = req[p]
      /\ req'[q] = [req[q] EXCEPT !.pc = "next"]
      /\ req' \in [Requests -> Request]
  BY <1>1 DEF Request, ReleaseStock
<1>3. TypeOK'
  BY <1>1, <1>2 DEF IInv, TypeOK, ReleaseStock, outbox
<1>4. ASSUME NEW p \in Requests PROVE ReqInv(p)'
  <2>1. CASE p # q
    BY <1>2, <2>1, Undisturbed DEF IInv, ReleaseStock, ReqInv
  <2>2. CASE p = q
    BY <1>1, <1>2, <2>2 DEF IInv, ReqInv, Request, Busy, ReleaseStock
  <2> QED BY <2>1, <2>2
<1> QED BY <1>3, <1>4 DEF IInv, ReleaseStock

\* Whatever ends a transaction frees its slot and its locks only.
LEMMA FinishReqInv ==
    ASSUME IInv, NEW q \in Requests, Finish(q),
           \A o \in Orders : row'[o].status \in OrderStatus \/ row'[o] = row[o],
           \A o \in Orders : lock[o] = q \/ row'[o] = row[o]
                             \/ \A p \in Requests : o \in Busy(p) => lock[o] # p
    PROVE  /\ \A p \in Requests : ReqInv(p)'
           /\ req' \in [Requests -> Request]
           /\ lock' \in [Orders -> Requests \cup {None}]
<1>1. IdleRequest \in Request
  BY DEF IdleRequest, Request, NoRow, Row, PaymentStatus, RefundStatus
<1>2. req' \in [Requests -> Request] /\ lock' \in [Orders -> Requests \cup {None}]
  BY <1>1 DEF IInv, TypeOK, Finish
<1>3. ASSUME NEW p \in Requests PROVE ReqInv(p)'
  <2>1. CASE p = q
    <3>1. req'[q] = IdleRequest
      BY DEF IInv, TypeOK, Finish
    <3>2. Busy(q)' = {}
      BY <3>1 DEF Busy, IdleRequest
    <3> QED BY <2>1, <3>1, <3>2 DEF ReqInv, IdleRequest
  <2>2. CASE p # q
    <3>1. req'[p] = req[p] /\ ReqInv(p) /\ Busy(p) \subseteq Orders
      BY <2>2, BusyInOrders DEF IInv, TypeOK, Finish
    <3>2. ASSUME NEW o \in Busy(p)
          PROVE  /\ row'[o].status \in OrderStatus
                 /\ lock[o] = p => lock'[o] = p /\ row'[o] = row[o]
      BY <2>2, <3>1, <3>2 DEF ReqInv, Finish
    <3> QED BY <3>1, <3>2, Undisturbed
  <2> QED BY <2>1, <2>2
<1> QED BY <1>2, <1>3

LEMMA RollbackIInv ==
    ASSUME IInv, NEW q \in Requests, Refuse(q) \/ Abort(q) \/ BreakDeadlock(q)
    PROVE  IInv'
<1>1. Finish(q) /\ UNCHANGED <<row, aged, audit, outbox, released>>
  BY DEF Refuse, Abort, BreakDeadlock
<1>2. crashes' \in 0..MaxCrashes
  BY BoundsAssumption DEF IInv, TypeOK, Refuse, Abort, BreakDeadlock
<1>3. row' = row
  BY <1>1
<1>4. /\ \A p \in Requests : ReqInv(p)'
      /\ req' \in [Requests -> Request]
      /\ lock' \in [Orders -> Requests \cup {None}]
  BY <1>1, <1>3, FinishReqInv
<1>5. TypeOK'
  BY <1>1, <1>2, <1>4 DEF IInv, TypeOK, outbox
<1> QED BY <1>3, <1>4, <1>5 DEF IInv

-----------------------------------------------------------------------------
(* What a commit does to one of its orders.                                *)

\* What the committing transaction read of the order, and what it decided.
LEMMA CommitReads ==
    ASSUME IInv, NEW q \in Requests, Commit(q), NEW o \in req[q].held
    PROVE  /\ o \in Orders /\ lock[o] = q
           /\ req[q].call \in Calls /\ req[q].call \in AllCalls
           /\ req[q].seen[o] \in Row
           /\ req[q].seen[o].status \in OrderStatus
           /\ row[o].status \in OrderStatus
           /\ Permitted(req[q].call, req[q].seen[o])
           /\ RowInv(req[q].seen[o])
           /\ req[q].call \in LockedCalls => req[q].seen[o] = row[o]
<1>1. req[q] \in Request /\ req[q].pc = "next" /\ req[q].todo = {} /\ ReqInv(q)
  BY DEF IInv, TypeOK, Commit
<1>2. o \in Busy(q) \ req[q].todo
  BY <1>1 DEF Busy
<1> QED BY <1>1, <1>2, CallsAssumption DEF ReqInv, Request

\* The columns it leaves: its own status; a refund if it decided one, else
\* what the row already said.
LEMMA CommitWrites ==
    ASSUME IInv, NEW q \in Requests, Commit(q), NEW o \in req[q].held
    PROVE  LET c == req[q].call
               seen == req[q].seen[o]
               full == RefundOf(c, seen) = "FULL"
           IN  /\ row'[o] \in Row
               /\ row'[o].status = c.to
               /\ seen.refund_status = "NONE"
               /\ row'[o].refund_status = IF full THEN "FULL" ELSE row[o].refund_status
               /\ row'[o].payment_status =
                     IF c.kind = "mark_paid" THEN "SUCCESS"
                     ELSE IF full THEN "REFUNDED" ELSE row[o].payment_status
               /\ RowInv(row'[o])
<1> DEFINE c == req[q].call
           seen == req[q].seen[o]
           full == RefundOf(c, seen) = "FULL"
           new == Decided(c, seen)
<1>1. /\ o \in Orders /\ c \in AllCalls /\ seen \in Row /\ row[o] \in Row
      /\ seen.status \in OrderStatus /\ Permitted(c, seen)
      /\ RowInv(seen) /\ RowInv(row[o])
      /\ c \in LockedCalls => seen = row[o]
  BY CommitReads DEF IInv, TypeOK
<1>2. row'[o] = Written(row[o], seen, new)
  BY <1>1 DEF Commit
<1>3. /\ c.to \in OrderStatus /\ c.to # seen.status
      /\ seen.status \notin Ended
  BY <1>1, AllowedMoves DEF Permitted, Ended
<1>4. seen.refund_status = "NONE" /\ seen.payment_status # "REFUNDED"
  BY <1>1, <1>3 DEF RowInv
<1>5. /\ full => Unwinds(c) /\ c.kind # "mark_paid"
      /\ RefundOf(c, seen) \in {"NONE", "FULL"}
      /\ Unwinds(c) => c.to \in Ended
      /\ c \notin LockedCalls => Unwinds(c)
      /\ c.kind = "mark_paid" => c \in LockedCalls
  BY <1>1, CallTypes DEF Ended, RefundOf, AllCalls, CancelCalls, SweepCalls
<1>6. /\ new \in Row
      /\ new.status = c.to
      /\ new.payment_status = CASE c.kind = "mark_paid" -> "SUCCESS"
                                [] full -> "REFUNDED"
                                [] OTHER -> seen.payment_status
      /\ new.refund_status = IF full THEN "FULL" ELSE seen.refund_status
  BY <1>1, <1>4, <1>5, DecidedType DEF Decided, Row
<1> HIDE DEF new
<1>7. /\ row'[o] \in Row
      /\ \A f \in {"status", "payment_status", "refund_status"} :
            row'[o][f] = IF new[f] # seen[f] THEN new[f] ELSE row[o][f]
  BY <1>1, <1>2, <1>6, WrittenType DEF Written, Row
<1>8. row'[o].status = c.to
  BY <1>3, <1>6, <1>7
<1>9. row'[o].refund_status = IF full THEN "FULL" ELSE row[o].refund_status
  BY <1>4, <1>6, <1>7
<1>10. row'[o].payment_status = IF c.kind = "mark_paid" THEN "SUCCESS"
                                ELSE IF full THEN "REFUNDED" ELSE row[o].payment_status
  <2>1. CASE c.kind = "mark_paid"
    BY <1>1, <1>5, <1>6, <1>7, <2>1
  <2>2. CASE c.kind # "mark_paid"
    BY <1>4, <1>6, <1>7, <2>2
  <2> QED BY <2>1, <2>2
<1>11. RowInv(row'[o])
  <2>1. CASE full
    BY <1>5, <1>8, <1>9, <1>10, <2>1 DEF RowInv
  <2>2. CASE ~full /\ c \in LockedCalls
    <3>1. row[o].refund_status = "NONE"
      BY <1>1, <1>4, <2>2
    <3> QED BY <1>1, <1>8, <1>9, <1>10, <2>2, <3>1 DEF RowInv
  <2>3. CASE ~full /\ c \notin LockedCalls
    BY <1>1, <1>5, <1>8, <1>9, <1>10, <2>3 DEF RowInv
  <2> QED BY <2>1, <2>2, <2>3
<1> QED BY <1>4, <1>7, <1>8, <1>9, <1>10, <1>11

LEMMA CommitIInv ==
    ASSUME IInv, NEW q \in Requests, Commit(q)
    PROVE  IInv'
<1> DEFINE c == req[q].call
           held == req[q].held
           seen(o) == req[q].seen[o]
<1>1. held \subseteq Orders
  BY DEF IInv, TypeOK, Request
<1>2. ASSUME NEW o \in Orders
      PROVE  row'[o] \in Row /\ RowInv(row'[o])
  <2>1. CASE o \in held
    BY <2>1, CommitWrites
  <2>2. CASE o \notin held
    BY <2>2 DEF Commit, IInv, TypeOK
  <2> QED BY <2>1, <2>2
<1>3. row' \in [Orders -> Row]
  <2>1. row' = [o \in Orders |-> row'[o]]
    BY DEF Commit
  <2> QED BY <1>2, <2>1
<1>4. ASSUME NEW o \in Orders
      PROVE  /\ row'[o].status \in OrderStatus \/ row'[o] = row[o]
             /\ o \in held => lock[o] = q /\ row'[o].status \in OrderStatus
             /\ o \notin held => row'[o] = row[o]
  <2>1. CASE o \in held
    <3>1. lock[o] = q /\ c \in AllCalls
      BY <2>1, CommitReads
    <3>2. row'[o].status = c.to
      BY <2>1, CommitWrites
    <3> QED BY <2>1, <3>1, <3>2, CallTypes
  <2>2. CASE o \notin held
    BY <2>2 DEF Commit
  <2> QED BY <2>1, <2>2
<1>5. /\ \A p \in Requests : ReqInv(p)'
      /\ req' \in [Requests -> Request]
      /\ lock' \in [Orders -> Requests \cup {None}]
  <2>1. Finish(q)
    BY DEF Commit
  <2> QED BY <1>4, <2>1, FinishReqInv
<1>6. ASSUME NEW o \in held
      PROVE  /\ c.to \in OrderStatus
             /\ [from |-> seen(o).status, to |-> c.to, actor |-> ActorOf(c)] \in AuditEntry
             /\ PaymentCommand(c, seen(o)) \in Seq({"refund", "settle"})
  <2>1. c \in AllCalls /\ seen(o).status \in OrderStatus
    BY CommitReads
  <2>2. c.to \in OrderStatus /\ ActorOf(c) \in Actor
    BY <2>1, CallTypes
  <2>3. PaymentCommand(c, seen(o)) \in {<<"settle">>, <<"refund">>, <<>>}
    BY DEF PaymentCommand
  <2>4. /\ <<"settle">> \in Seq({"refund", "settle"})
        /\ <<"refund">> \in Seq({"refund", "settle"})
        /\ <<>> \in Seq({"refund", "settle"})
    OBVIOUS
  <2> QED BY <2>1, <2>2, <2>3, <2>4 DEF AuditEntry
<1>7. audit' \in [Orders -> Seq(AuditEntry)]
  <2>1. ASSUME NEW o \in Orders, NEW e \in AuditEntry PROVE Append(audit[o], e) \in Seq(AuditEntry)
    BY DEF IInv, TypeOK
  <2> QED BY <1>6, <2>1 DEF Commit, IInv, TypeOK
<1>8. published' \in [Orders -> Seq(OrderStatus)]
  <2>1. ASSUME NEW o \in Orders, NEW e \in OrderStatus
        PROVE  Append(published[o], e) \in Seq(OrderStatus)
    BY DEF IInv, TypeOK
  <2> QED BY <1>6, <2>1 DEF Commit, IInv, TypeOK, EmittedStatus
<1>9. requested' \in [Orders -> Seq({"refund", "settle"})]
  <2>1. ASSUME NEW o \in Orders, NEW e \in Seq({"refund", "settle"})
        PROVE  requested[o] \o e \in Seq({"refund", "settle"})
    BY ConcatProperties DEF IInv, TypeOK
  <2> QED BY <1>6, <2>1 DEF Commit, IInv, TypeOK
<1>10. /\ notified' \in [Orders -> Nat] /\ aged' \in [Orders -> BOOLEAN]
       /\ released' = released /\ crashes' = crashes
  <2>1. PICK told \in Told :
           notified' = [o \in Orders |->
                          IF o \in held /\ c.kind = "mark_paid" THEN notified[o] + told
                                                                ELSE notified[o]]
    BY DEF Commit
  <2>2. notified \in [Orders -> Nat] /\ aged \in [Orders -> BOOLEAN]
    BY DEF IInv, TypeOK
  <2>3. notified' \in [Orders -> Nat]
    BY <2>1, <2>2 DEF Told
  <2> QED BY <2>2, <2>3 DEF Commit
<1>11. TypeOK'
  BY <1>3, <1>5, <1>7, <1>8, <1>9, <1>10 DEF IInv, TypeOK
<1> QED BY <1>2, <1>5, <1>11 DEF IInv

-----------------------------------------------------------------------------

\* Every step of the service keeps the invariant.
LEMMA NextIInv == IInv /\ [Next]_vars => IInv'
<1> SUFFICES ASSUME IInv, [Next]_vars PROVE IInv'
  OBVIOUS
<1>1. ASSUME NEW o \in Orders, GrowOld(o) PROVE IInv'
  <2>1. TypeOK'
    BY <1>1 DEF IInv, TypeOK, GrowOld, outbox
  <2>2. ASSUME NEW q \in Requests PROVE ReqInv(q)'
    BY <1>1, Undisturbed DEF IInv, GrowOld, ReqInv
  <2> QED BY <1>1, <2>1, <2>2 DEF IInv, GrowOld
<1>2. ASSUME NEW o \in Orders, NEW m \in PaymentMethod, CreateOrder(o, m) PROVE IInv'
  BY <1>2, CreateIInv
<1>3. ASSUME NEW q \in Requests, NEW c \in Calls, NEW o \in Orders,
             LockOrder(q, c, o) \/ ReadOrder(q, c, o) \/ ReadStale(q, c)
      PROVE  IInv'
  BY <1>3, ReadIInv
<1>4. ASSUME NEW q \in Requests, NEW c \in Calls, ReadStale(q, c) PROVE IInv'
  <2>1. PICK o \in Orders : o \in Stale(c)
    BY <1>4 DEF ReadStale, Stale
  <2> QED BY <1>4, <2>1, ReadIInv
<1>5. ASSUME NEW q \in Requests, Progress(q) \/ Flush(q) \/ Abort(q) PROVE IInv'
  BY <1>5, TakeNextIInv, FlushIInv, ReleaseIInv, RollbackIInv, CommitIInv DEF Progress
<1>6. CASE UNCHANGED vars
  <2>1. TypeOK'
    BY <1>6 DEF vars, IInv, TypeOK
  <2>2. ASSUME NEW q \in Requests PROVE ReqInv(q)'
    BY <1>6, Undisturbed DEF vars, IInv, ReqInv
  <2> QED BY <1>6, <2>1, <2>2 DEF vars, IInv
<1> QED BY <1>1, <1>2, <1>3, <1>4, <1>5, <1>6 DEF Next

\* The inductive invariant holds of every reachable state.
THEOREM Invariance == Spec => []IInv
BY InitIInv, NextIInv, PTL DEF Spec

\* Every variable of the orders model keeps its type, whatever requests
\* overlap, are refused or crash.
THEOREM TypeCorrect == Spec => []TypeOK
<1>1. IInv => TypeOK
  BY DEF IInv
<1> QED BY <1>1, Invariance, PTL

-----------------------------------------------------------------------------
(* Properties of every mix of calls.                                       *)

\* Facts about appending one entry.
LEMMA AppendLast ==
    ASSUME NEW S, NEW s \in Seq(S), NEW x \in S
    PROVE  Append(s, x) # <<>> /\ Append(s, x)[Len(Append(s, x))] = x
OBVIOUS

LEMMA AppendHas ==
    ASSUME NEW S, NEW s \in Seq(S), NEW x \in S, NEW a
    PROVE  (\E i \in DOMAIN Append(s, x) : Append(s, x)[i] = a)
              <=> x = a \/ \E i \in DOMAIN s : s[i] = a
<1> DEFINE n == Len(s)
           t == Append(s, x)
<1>1. /\ n \in Nat /\ DOMAIN s = 1..n /\ DOMAIN t = 1..(n + 1)
      /\ t[n + 1] = x /\ \A i \in 1..n : t[i] = s[i]
  OBVIOUS
<1>2. n + 1 \in 1..(n + 1) /\ \A i \in 1..(n + 1) : i \in 1..n \/ i = n + 1
  BY <1>1
<1>3. \A i \in 1..n : i \in 1..(n + 1)
  BY <1>1
<1> HIDE DEF n, t
<1>4. (\E i \in DOMAIN t : t[i] = a) <=> x = a \/ \E i \in DOMAIN s : s[i] = a
  BY <1>1, <1>2, <1>3
<1> QED BY <1>4 DEF t

LEMMA AppendOnce ==
    ASSUME NEW S, NEW s \in Seq(S), NEW x \in S, NEW a,
           \A i, j \in DOMAIN s : s[i] = a /\ s[j] = a => i = j,
           x = a => \A i \in DOMAIN s : s[i] # a
    PROVE  \A i, j \in DOMAIN Append(s, x) :
              Append(s, x)[i] = a /\ Append(s, x)[j] = a => i = j
<1> DEFINE n == Len(s)
           t == Append(s, x)
<1>1. /\ n \in Nat /\ DOMAIN s = 1..n /\ DOMAIN t = 1..(n + 1)
      /\ t[n + 1] = x /\ \A i \in 1..n : t[i] = s[i]
  OBVIOUS
<1>2. \A i \in 1..(n + 1) : i \in 1..n \/ i = n + 1
  BY <1>1
<1> HIDE DEF n, t
<1>3. \A i, j \in DOMAIN t : t[i] = a /\ t[j] = a => i = j
  BY <1>1, <1>2
<1> QED BY <1>3 DEF t

\* Only checkout and commits write what other services are told.
LEMMA OnlyCommitsWrite ==
    ASSUME [Next]_vars,
           ~ \E o \in Orders, m \in PaymentMethod : CreateOrder(o, m),
           ~ \E q \in Requests : Commit(q)
    PROVE  UNCHANGED <<row, audit, published, requested, notified>>
BY DEF Next, vars, outbox, Progress, GrowOld, LockOrder, ReadOrder, ReadStale, TakeNext,
       Refuse, Flush, ReleaseStock, BreakDeadlock, Abort

\* The last order event and the last audit entry carry the row's status.
LEMMA OutboxMirrorsRowStep == IInv /\ OutboxMirrorsRow /\ [Next]_vars => OutboxMirrorsRow'
<1> SUFFICES ASSUME IInv, OutboxMirrorsRow, [Next]_vars PROVE OutboxMirrorsRow'
  OBVIOUS
<1>1. ASSUME NEW o \in Orders, NEW m \in PaymentMethod, CreateOrder(o, m)
      PROVE  OutboxMirrorsRow'
  <2> DEFINE final == IF m = "COD" THEN "PAYMENT_SUCCESS" ELSE "PAYMENT_PENDING"
  <2>1. /\ \A p \in Orders : p # o => /\ row'[p] = row[p] /\ published'[p] = published[p]
                                     /\ audit'[p] = audit[p]
        /\ row'[o].status = final
        /\ published'[o] = Append(published[o], final)
    BY <1>1 DEF CreateOrder, IInv, TypeOK, Row
  <2>2. Len(audit'[o]) > 0 /\ audit'[o][Len(audit'[o])].to = final
    <3>1. CASE m = "COD"
      BY <1>1, <3>1 DEF CreateOrder, IInv, TypeOK
    <3>2. CASE m # "COD"
      BY <1>1, <3>2 DEF CreateOrder, IInv, TypeOK
    <3> QED BY <3>1, <3>2
  <2>3. /\ published[o] \in Seq(OrderStatus) /\ final \in OrderStatus
        /\ audit'[o] # <<>>
    BY <2>2 DEF IInv, TypeOK, OrderStatus
  <2> HIDE DEF final
  <2>4. /\ published'[o] # <<>> /\ published'[o][Len(published'[o])] = final
    BY <2>1, <2>3
  <2> QED BY <2>1, <2>2, <2>3, <2>4 DEF OutboxMirrorsRow
<1>2. ASSUME NEW q \in Requests, Commit(q) PROVE OutboxMirrorsRow'
  <2> SUFFICES ASSUME NEW o \in Orders, row'[o].status # Absent
               PROVE  /\ published'[o] # <<>>
                      /\ published'[o][Len(published'[o])] = row'[o].status
                      /\ audit'[o] # <<>>
                      /\ audit'[o][Len(audit'[o])].to = row'[o].status
    BY DEF OutboxMirrorsRow
  <2>1. CASE o \notin req[q].held
    BY <1>2, <2>1 DEF Commit, OutboxMirrorsRow
  <2>2. CASE o \in req[q].held
    <3> DEFINE c == req[q].call
               e == [from |-> req[q].seen[o].status, to |-> c.to, actor |-> ActorOf(c)]
    <3>1. row'[o].status = c.to
      BY <1>2, <2>2, CommitWrites
    <3>2. published'[o] = Append(published[o], c.to) /\ audit'[o] = Append(audit[o], e)
      BY <1>2, <2>2 DEF Commit, EmittedStatus
    <3>3. published[o] \in Seq(OrderStatus) /\ audit[o] \in Seq(AuditEntry)
      BY DEF IInv, TypeOK
    <3>4. e.to = c.to /\ e \in AuditEntry /\ c.to \in OrderStatus
      BY <1>2, <2>2, CommitReads, CallTypes DEF AuditEntry
    <3> HIDE DEF c, e
    <3>5. published'[o] # <<>> /\ published'[o][Len(published'[o])] = c.to
      BY SMTT(30), <3>2, <3>3, <3>4
    <3>6. audit'[o] # <<>> /\ audit'[o][Len(audit'[o])] = e
      BY <3>2, <3>3, <3>4, AppendLast
    <3> QED BY <3>1, <3>4, <3>5, <3>6
  <2> QED BY <2>1, <2>2
<1>3. CASE /\ ~ \E o \in Orders, m \in PaymentMethod : CreateOrder(o, m)
           /\ ~ \E q \in Requests : Commit(q)
  BY <1>3, OnlyCommitsWrite DEF OutboxMirrorsRow
<1> QED BY <1>1, <1>2, <1>3

\* Overlapping, stale, refused or crashed requests never separate an order's
\* row from its last order event and its last audit entry.
THEOREM OutboxMirrorsRowAlways == Spec => []OutboxMirrorsRow
<1>1. Init => OutboxMirrorsRow
  BY DEF Init, OutboxMirrorsRow, NoRow
<1> QED BY <1>1, Invariance, OutboxMirrorsRowStep, PTL DEF Spec

\* A refund command and the row that books it are written together.
LEMMA RefundBookedStep == IInv /\ RefundBooked /\ [Next]_vars => RefundBooked'
<1> SUFFICES ASSUME IInv, RefundBooked, [Next]_vars PROVE RefundBooked'
  OBVIOUS
<1>1. ASSUME NEW o \in Orders, NEW m \in PaymentMethod, CreateOrder(o, m)
      PROVE  RefundBooked'
  <2>1. \A p \in Orders : row'[p].refund_status = row[p].refund_status
    BY <1>1 DEF CreateOrder, IInv, TypeOK, Row
  <2>2. requested' = requested
    BY <1>1 DEF CreateOrder
  <2>3. \A p \in Orders : RowInv(row'[p])
    BY <1>1, CreateIInv DEF IInv
  <2> QED BY <2>1, <2>2, <2>3 DEF RefundBooked, Asked, RowInv
<1>2. ASSUME NEW q \in Requests, Commit(q) PROVE RefundBooked'
  <2> SUFFICES ASSUME NEW o \in Orders
               PROVE  /\ (row'[o].refund_status = "FULL") <=> Asked(o, "refund")'
                      /\ row'[o].refund_status = "FULL" => row'[o].payment_status = "REFUNDED"
    BY DEF RefundBooked
  <2>1. CASE o \notin req[q].held
    BY <1>2, <2>1 DEF Commit, RefundBooked, Asked
  <2>2. CASE o \in req[q].held
    <3> DEFINE c == req[q].call
               seen == req[q].seen[o]
               cmd == PaymentCommand(c, seen)
    <3>1. /\ row'[o].refund_status =
                IF RefundOf(c, seen) = "FULL" THEN "FULL" ELSE row[o].refund_status
          /\ RowInv(row'[o])
      BY <1>2, <2>2, CommitWrites
    <3>2. cmd = IF RefundOf(c, seen) = "FULL" THEN <<"refund">>
                ELSE IF c.kind \in {"advance", "driver"} /\ c.to = "DELIVERED"
                     THEN <<"settle">> ELSE <<>>
      BY DEF PaymentCommand, RefundOf
    <3>3. requested'[o] = requested[o] \o cmd /\ requested[o] \in Seq({"refund", "settle"})
      BY <1>2, <2>2 DEF Commit, IInv, TypeOK
    <3>4. (row[o].refund_status = "FULL") <=> Asked(o, "refund")
      BY DEF RefundBooked
    <3> HIDE DEF c, seen, cmd
    <3>5. CASE RefundOf(c, seen) = "FULL"
      <4>1. requested'[o][Len(requested[o]) + 1] = "refund"
            /\ Len(requested[o]) + 1 \in DOMAIN requested'[o]
        BY <3>2, <3>3, <3>5
      <4> QED BY <3>1, <3>5, <4>1 DEF Asked, RowInv
    <3>6. CASE RefundOf(c, seen) # "FULL"
      <4>1. Asked(o, "refund")' <=> Asked(o, "refund")
        <5>1. CASE cmd = <<>>
          <6>1. requested'[o] = requested[o]
            BY <3>3, <5>1, ConcatEmptySeq
          <6> QED BY <6>1 DEF Asked
        <5>2. CASE cmd = <<"settle">>
          <6>1. requested'[o] = Append(requested[o], "settle")
            BY <3>3, <5>2, AppendIsConcat
          <6> QED BY <3>3, <6>1, AppendHas DEF Asked
        <5> QED BY <3>2, <3>6, <5>1, <5>2
      <4> QED BY <3>1, <3>4, <3>6, <4>1 DEF RowInv
    <3> QED BY <3>5, <3>6
  <2> QED BY <2>1, <2>2
<1>3. CASE /\ ~ \E o \in Orders, m \in PaymentMethod : CreateOrder(o, m)
           /\ ~ \E q \in Requests : Commit(q)
  BY <1>3, OnlyCommitsWrite DEF RefundBooked, Asked
<1> QED BY <1>1, <1>2, <1>3

\* An order's row says FULL refund exactly when a refund command was recorded
\* for it, however the requests that cancelled it overlapped.
THEOREM RefundBookedAlways == Spec => []RefundBooked
<1>1. Init => RefundBooked
  BY DEF Init, RefundBooked, NoRow, Asked
<1> QED BY <1>1, Invariance, RefundBookedStep, PTL DEF Spec

\* One commit appends at most one payment command to an order.
LEMMA CommitCommand ==
    ASSUME IInv, NEW q \in Requests, Commit(q), NEW o \in req[q].held
    PROVE  LET c == req[q].call
               full == RefundOf(c, req[q].seen[o]) = "FULL"
               settles == c.kind \in {"advance", "driver"} /\ c.to = "DELIVERED"
           IN  /\ full => requested'[o] = Append(requested[o], "refund")
               /\ settles => requested'[o] = Append(requested[o], "settle")
               /\ ~full /\ ~settles => requested'[o] = requested[o]
               /\ ~(full /\ settles)
<1> DEFINE c == req[q].call
           seen == req[q].seen[o]
           full == RefundOf(c, seen) = "FULL"
           settles == c.kind \in {"advance", "driver"} /\ c.to = "DELIVERED"
           cmd == PaymentCommand(c, seen)
<1>1. requested'[o] = requested[o] \o cmd /\ requested[o] \in Seq({"refund", "settle"})
  BY CommitReads DEF Commit, IInv, TypeOK
<1>2. /\ ~(full /\ settles)
      /\ full => cmd = <<"refund">>
      /\ settles => cmd = <<"settle">>
      /\ ~full /\ ~settles => cmd = <<>>
  BY DEF PaymentCommand, RefundOf
<1> HIDE DEF cmd, full, settles
<1>3. /\ full => requested'[o] = Append(requested[o], "refund")
      /\ settles => requested'[o] = Append(requested[o], "settle")
      /\ ~full /\ ~settles => requested'[o] = requested[o]
  <2>1. \A x \in {"refund", "settle"} :
           Append(requested[o], x) = requested[o] \o <<x>>
    BY <1>1, AppendIsConcat
  <2>2. requested[o] \o <<>> = requested[o]
    BY <1>1, ConcatEmptySeq
  <2> QED BY <1>1, <1>2, <2>1, <2>2, Zenon
<1> QED BY <1>2, <1>3 DEF full, settles

\* SettledOnce and what makes it inductive: an order whose money is being
\* captured has been delivered, and from there it can only be completed or,
\* by a cancel that read it long before, cancelled.
SettleInv ==
    /\ SettledOnce
    /\ \A o \in Orders :
         Asked(o, "settle") => row[o].status \in {"DELIVERED", "COMPLETED", "CANCELLED"}

LEMMA SettleStep == IInv /\ SettleInv /\ [Next]_vars => SettleInv'
<1> SUFFICES ASSUME IInv, SettleInv, [Next]_vars PROVE SettleInv'
  OBVIOUS
<1>1. ASSUME NEW o \in Orders, NEW m \in PaymentMethod, CreateOrder(o, m)
      PROVE  SettleInv'
  <2>1. /\ requested' = requested /\ row[o].status = Absent
        /\ \A p \in Orders : p # o => row'[p] = row[p] /\ audit'[p] = audit[p]
    BY <1>1 DEF CreateOrder, IInv, TypeOK
  <2>2. ~Asked(o, "settle")
    BY <2>1, NoneAssumption DEF SettleInv, OrderStatus
  <2> QED BY <2>1, <2>2 DEF SettleInv, SettledOnce, Asked, AskedOnce
<1>2. ASSUME NEW q \in Requests, Commit(q) PROVE SettleInv'
  <2> SUFFICES ASSUME NEW o \in Orders
               PROVE  /\ AskedOnce(o, "settle")'
                      /\ Asked(o, "settle")' =>
                           /\ row'[o].status \in {"DELIVERED", "COMPLETED", "CANCELLED"}
                           /\ \E i \in DOMAIN audit'[o] :
                                audit'[o][i].from = "OUT_FOR_DELIVERY"
                                /\ audit'[o][i].to = "DELIVERED"
    BY DEF SettleInv, SettledOnce
  <2>1. CASE o \notin req[q].held
    BY <1>2, <2>1 DEF Commit, SettleInv, SettledOnce, Asked, AskedOnce
  <2>2. CASE o \in req[q].held
    <3> DEFINE c == req[q].call
               seen == req[q].seen[o]
               full == RefundOf(c, seen) = "FULL"
               settles == c.kind \in {"advance", "driver"} /\ c.to = "DELIVERED"
               e == [from |-> seen.status, to |-> c.to, actor |-> ActorOf(c)]
    <3>1. /\ c \in AllCalls /\ seen.status \in OrderStatus /\ Permitted(c, seen)
          /\ c \in LockedCalls => seen = row[o]
          /\ requested[o] \in Seq({"refund", "settle"}) /\ audit[o] \in Seq(AuditEntry)
      BY <1>2, <2>2, CommitReads DEF IInv, TypeOK
    <3>2. /\ full => requested'[o] = Append(requested[o], "refund")
          /\ settles => requested'[o] = Append(requested[o], "settle")
          /\ ~full /\ ~settles => requested'[o] = requested[o]
      BY <1>2, <2>2, CommitCommand
    <3>3. row'[o].status = c.to /\ audit'[o] = Append(audit[o], e)
      BY <1>2, <2>2, CommitWrites DEF Commit
    <3>4. e \in AuditEntry
      BY <3>1, CallTypes DEF AuditEntry
    <3>5. \/ c \in LockedCalls /\ seen = row[o]
          \/ c \notin LockedCalls /\ c.to = "CANCELLED"
      BY <3>1 DEF AllCalls, CancelCalls, SweepCalls
    <3>6. /\ seen.status = "DELIVERED" => c.to = "COMPLETED"
          /\ seen.status \notin {"COMPLETED", "CANCELLED"}
          /\ c.to = "DELIVERED" => seen.status = "OUT_FOR_DELIVERY"
      BY <3>1, AllowedMoves DEF Permitted
    <3>7. settles => c \in LockedCalls
      BY <3>1 DEF AllCalls, CancelCalls, SweepCalls
    <3>8. settles => /\ e.from = "OUT_FOR_DELIVERY" /\ e.to = "DELIVERED"
                     /\ ~Asked(o, "settle")
      BY <3>1, <3>6, <3>7 DEF SettleInv
    <3>9. Asked(o, "settle") =>
            /\ \E i \in DOMAIN audit[o] :
                 audit[o][i].from = "OUT_FOR_DELIVERY" /\ audit[o][i].to = "DELIVERED"
            /\ c.to \in {"COMPLETED", "CANCELLED"}
      BY <3>1, <3>5, <3>6 DEF SettleInv, SettledOnce
    <3>10. AskedOnce(o, "settle")
      BY DEF SettleInv, SettledOnce
    <3>11. settles => c.to = "DELIVERED"
      OBVIOUS
    <3> HIDE DEF c, seen, full, settles, e
    <3>12. AskedOnce(o, "settle")' /\ (Asked(o, "settle")' <=> Asked(o, "settle") \/ settles)
      <4>1. CASE settles
        <5>1. requested'[o] = Append(requested[o], "settle")
          BY <3>2, <4>1
        <5>2. \A i \in DOMAIN requested[o] : requested[o][i] # "settle"
          BY <3>8, <4>1 DEF Asked
        <5>3. AskedOnce(o, "settle")'
          BY <3>1, <3>10, <5>1, <5>2, AppendOnce DEF AskedOnce
        <5>4. Asked(o, "settle")'
          BY <3>1, <5>1, AppendHas DEF Asked
        <5> QED BY <4>1, <5>3, <5>4
      <4>2. CASE ~settles /\ full
        <5>1. requested'[o] = Append(requested[o], "refund")
          BY <3>2, <4>2
        <5>2. AskedOnce(o, "settle")'
          BY <3>1, <3>10, <5>1, AppendOnce DEF AskedOnce
        <5>3. Asked(o, "settle")' <=> Asked(o, "settle")
          BY <3>1, <5>1, AppendHas DEF Asked
        <5> QED BY <4>2, <5>2, <5>3
      <4>3. CASE ~settles /\ ~full
        BY <3>2, <3>10, <4>3 DEF Asked, AskedOnce
      <4> QED BY <4>1, <4>2, <4>3
    <3>13. \A f, t : (\E i \in DOMAIN audit[o] : audit[o][i].from = f /\ audit[o][i].to = t)
                       \/ (e.from = f /\ e.to = t)
                     => \E i \in DOMAIN audit'[o] :
                           audit'[o][i].from = f /\ audit'[o][i].to = t
      <4> DEFINE n == Len(audit[o])
      <4>1. /\ n \in Nat /\ DOMAIN audit[o] = 1..n /\ DOMAIN audit'[o] = 1..(n + 1)
            /\ audit'[o][n + 1] = e /\ \A i \in 1..n : audit'[o][i] = audit[o][i]
        BY <3>1, <3>3, <3>4
      <4>2. n + 1 \in 1..(n + 1) /\ \A i \in 1..n : i \in 1..(n + 1)
        BY <4>1
      <4> HIDE DEF n
      <4> QED BY <4>1, <4>2
    <3> QED BY <3>3, <3>8, <3>9, <3>11, <3>12, <3>13
  <2> QED BY <2>1, <2>2
<1>3. CASE /\ ~ \E o \in Orders, m \in PaymentMethod : CreateOrder(o, m)
           /\ ~ \E q \in Requests : Commit(q)
  BY <1>3, OnlyCommitsWrite DEF SettleInv, SettledOnce, Asked, AskedOnce
<1> QED BY <1>1, <1>2, <1>3

\* One settle command at most, and only for an order that was out for delivery.
THEOREM SettledOnceAlways == Spec => []SettledOnce
<1>1. Init => SettleInv
  BY DEF Init, SettleInv, SettledOnce, Asked, AskedOnce
<1>2. SettleInv => SettledOnce
  BY DEF SettleInv
<1> QED BY <1>1, <1>2, Invariance, SettleStep, PTL DEF Spec

-----------------------------------------------------------------------------

\* KitchenToldOnce and what makes it inductive: an order the kitchen has heard of
\* has left the statuses mark_paid may leave, and none of them is entered again.
\* Nobody sees an order at CREATED: checkout commits it past that.
KitchenInv ==
    /\ KitchenToldOnce
    /\ \A o \in Orders :
         /\ row[o].status # "CREATED"
         /\ notified[o] > 0 => row[o].status \notin {Absent, "PAYMENT_PENDING"}

LEMMA KitchenStep == IInv /\ KitchenInv /\ [Next]_vars => KitchenInv'
<1> SUFFICES ASSUME IInv, KitchenInv, [Next]_vars PROVE KitchenInv'
  OBVIOUS
<1>1. ASSUME NEW o \in Orders, NEW m \in PaymentMethod, CreateOrder(o, m)
      PROVE  KitchenInv'
  <2> DEFINE paid == m = "COD"
  <2>1. PICK told \in Told : notified' = [notified EXCEPT ![o] = IF paid THEN @ + told ELSE @]
    BY <1>1 DEF CreateOrder
  <2>2. /\ row[o].status = Absent
        /\ row'[o].status = IF paid THEN "PAYMENT_SUCCESS" ELSE "PAYMENT_PENDING"
        /\ row'[o].payment_status = IF paid THEN "SUCCESS" ELSE "PENDING"
        /\ \A p \in Orders : p # o => row'[p] = row[p]
    BY <1>1 DEF CreateOrder, IInv, TypeOK, Row
  <2>3. notified \in [Orders -> Nat] /\ notified[o] = 0
    BY <2>2 DEF KitchenInv, IInv, TypeOK
  <2>4. /\ notified'[o] \in {0, 1} /\ (~paid => notified'[o] = 0)
        /\ \A p \in Orders : p # o => notified'[p] = notified[p]
    BY <2>1, <2>3 DEF Told
  <2>5. KitchenToldOnce'
    BY <2>2, <2>4 DEF KitchenInv, KitchenToldOnce
  <2>6. ASSUME NEW p \in Orders
        PROVE  /\ row'[p].status # "CREATED"
               /\ notified'[p] > 0 => row'[p].status \notin {Absent, "PAYMENT_PENDING"}
    BY <2>2, <2>4, NoneAssumption DEF KitchenInv, OrderStatus
  <2> QED BY <2>5, <2>6 DEF KitchenInv
<1>2. ASSUME NEW q \in Requests, Commit(q) PROVE KitchenInv'
  <2> DEFINE c == req[q].call
             held == req[q].held
  <2>1. PICK told \in Told :
           notified' = [o \in Orders |->
                          IF o \in held /\ c.kind = "mark_paid" THEN notified[o] + told
                                                                ELSE notified[o]]
    BY <1>2 DEF Commit
  <2> SUFFICES ASSUME NEW o \in Orders
               PROVE  /\ notified'[o] <= 1
                      /\ notified'[o] = 1 => row'[o].payment_status # "PENDING"
                      /\ row'[o].status # "CREATED"
                      /\ notified'[o] > 0 => row'[o].status \notin {Absent, "PAYMENT_PENDING"}
    BY DEF KitchenInv, KitchenToldOnce
  <2>2. /\ notified[o] \in Nat /\ notified[o] <= 1
        /\ notified[o] = 1 => row[o].payment_status # "PENDING"
        /\ row[o].status # "CREATED"
        /\ notified[o] > 0 => row[o].status \notin {Absent, "PAYMENT_PENDING"}
    BY DEF KitchenInv, KitchenToldOnce, IInv, TypeOK
  <2>3. CASE o \notin held
    <3>1. row'[o] = row[o] /\ notified'[o] = notified[o]
      BY <1>2, <2>1, <2>3 DEF Commit
    <3> QED BY <2>2, <3>1
  <2>4. CASE o \in held
    <3> DEFINE seen == req[q].seen[o]
               full == RefundOf(c, seen) = "FULL"
    <3>1. /\ c \in AllCalls /\ seen.status \in OrderStatus /\ Permitted(c, seen)
          /\ c \in LockedCalls => seen = row[o]
      BY <1>2, <2>4, CommitReads
    <3>2. /\ row'[o].status = c.to
          /\ row'[o].payment_status = IF c.kind = "mark_paid" THEN "SUCCESS"
                                      ELSE IF full THEN "REFUNDED" ELSE row[o].payment_status
      BY <1>2, <2>4, CommitWrites
    <3>3. /\ c.to \in OrderStatus /\ c.to # "CREATED"
          /\ c.to = "PAYMENT_PENDING" => seen.status = "CREATED"
      BY <3>1, AllowedMoves DEF Permitted
    <3>4. c.to # "PAYMENT_PENDING"
      <4>1. CASE c \in LockedCalls
        BY <2>2, <3>1, <3>3, <4>1
      <4>2. CASE c \notin LockedCalls
        BY <3>1, <4>2 DEF AllCalls, CancelCalls, SweepCalls
      <4> QED BY <4>1, <4>2
    <3>5. c.to # Absent
      BY <3>3, NoneAssumption
    <3>6. CASE c.kind = "mark_paid"
      <4>1. c \in LockedCalls
        BY <3>1, <3>6 DEF AllCalls, CancelCalls, SweepCalls
      <4>2. row[o].status = "PAYMENT_PENDING"
        BY <3>1, <3>6, <4>1 DEF Permitted
      <4>3. notified[o] = 0
        BY <2>2, <4>2
      <4>4. notified'[o] = told /\ told \in {0, 1}
        BY <2>1, <2>4, <3>6, <4>3 DEF Told
      <4>5. row'[o].payment_status = "SUCCESS"
        BY <3>2, <3>6
      <4> QED BY <3>2, <3>3, <3>4, <3>5, <4>4, <4>5
    <3>7. CASE c.kind # "mark_paid"
      <4>1. notified'[o] = notified[o]
        BY <2>1, <3>7
      <4>2. row'[o].payment_status \in {"REFUNDED", row[o].payment_status}
        BY <3>2, <3>7
      <4> QED BY <2>2, <3>2, <3>3, <3>4, <3>5, <4>1, <4>2
    <3> QED BY <3>6, <3>7
  <2> QED BY <2>3, <2>4
<1>3. CASE /\ ~ \E o \in Orders, m \in PaymentMethod : CreateOrder(o, m)
           /\ ~ \E q \in Requests : Commit(q)
  BY <1>3, OnlyCommitsWrite DEF KitchenInv, KitchenToldOnce
<1> QED BY <1>1, <1>2, <1>3

\* mark_paid and checkout tell the kitchen: once, however often the payment
\* event is delivered or overlaps other calls, and never before the money.
THEOREM KitchenToldOnceAlways == Spec => []KitchenToldOnce
<1>1. Init => KitchenInv
  BY NoneAssumption DEF Init, KitchenInv, KitchenToldOnce, NoRow, OrderStatus
<1>2. KitchenInv => KitchenToldOnce
  BY DEF KitchenInv
<1> QED BY <1>1, <1>2, Invariance, KitchenStep, PTL DEF Spec

-----------------------------------------------------------------------------
(* Properties of the functions that read with FOR UPDATE.                  *)

\* A transaction that locked its order works on that order alone.
OneOrderInv ==
    \A q \in Requests :
        req[q].call \in LockedCalls => \A x, y \in Busy(q) : x = y

LEMMA OneOrderStep ==
    ASSUME Calls \subseteq LockedCalls, IInv, OneOrderInv, [Next]_vars
    PROVE  OneOrderInv'
<1>1. ASSUME NEW q \in Requests, req'[q] = req[q]
      PROVE  req'[q].call \in LockedCalls => \A x, y \in Busy(q)' : x = y
  BY <1>1 DEF OneOrderInv, Busy
<1>2. ASSUME NEW q \in Requests, NEW c \in Calls, NEW o \in Orders, LockOrder(q, c, o)
      PROVE  OneOrderInv'
  <2>1. /\ req'[q] = Started(c, {o})
        /\ \A p \in Requests : p # q => req'[p] = req[p]
    BY <1>2 DEF LockOrder, IInv, TypeOK
  <2>2. Busy(q)' = {o}
    BY <2>1 DEF Busy, Started
  <2> QED BY <1>1, <2>1, <2>2 DEF OneOrderInv
<1>3. ASSUME NEW q \in Requests, NEW c \in Calls, NEW o \in Orders,
             ReadOrder(q, c, o) \/ ReadStale(q, c)
      PROVE  FALSE
  <2>1. c \in LockedCalls
    OBVIOUS
  <2> QED BY <1>3, <2>1 DEF ReadOrder, ReadStale, LockedCalls, CancelCalls, SweepCalls
<1>4. ASSUME NEW q \in Requests, TakeNext(q) \/ Flush(q) \/ ReleaseStock(q)
      PROVE  OneOrderInv'
  <2>1. /\ req \in [Requests -> Request]
        /\ \A p \in Requests : p # q => req'[p] = req[p]
    BY <1>4 DEF IInv, TypeOK, TakeNext, Flush, ReleaseStock
  <2>2. Busy(q)' \subseteq Busy(q) /\ req'[q].call = req[q].call
    <3>1. CASE TakeNext(q)
      BY <2>1, <3>1 DEF TakeNext, Busy, Request
    <3>2. CASE Flush(q)
      BY <2>1, <3>2 DEF Flush, Busy, Request
    <3>3. CASE ReleaseStock(q)
      BY <2>1, <3>3 DEF ReleaseStock, Busy, Request
    <3> QED BY <1>4, <3>1, <3>2, <3>3
  <2> QED BY <1>1, <2>1, <2>2 DEF OneOrderInv
<1>5. ASSUME NEW q \in Requests, Finish(q) PROVE OneOrderInv'
  <2>1. /\ req'[q] = IdleRequest
        /\ \A p \in Requests : p # q => req'[p] = req[p]
    BY <1>5 DEF Finish, IInv, TypeOK
  <2>2. Busy(q)' = {}
    BY <2>1 DEF Busy, IdleRequest
  <2> QED BY <1>1, <2>1, <2>2 DEF OneOrderInv
<1>6. CASE req' = req
  BY <1>1, <1>6 DEF OneOrderInv
<1>7. ASSUME NEW q \in Requests, NEW c \in Calls, ReadStale(q, c)
      PROVE  FALSE
  BY <1>7 DEF ReadStale, LockedCalls, SweepCalls
<1> QED BY <1>2, <1>3, <1>4, <1>5, <1>6, <1>7
        DEF Next, vars, Progress, GrowOld, CreateOrder, Refuse, Commit, BreakDeadlock, Abort

\* The abstract module speaks of the same state machine.
LEMMA SameMachine ==
    /\ Lifecycle!OrderStatus = OrderStatus
    /\ Lifecycle!UNPAID_STATES = UNPAID_STATES
    /\ \A s, t : TransitionAllowed(s, t) => Lifecycle!TransitionAllowed(s, t)
<1>1. Lifecycle!OrderStatus = OrderStatus /\ Lifecycle!UNPAID_STATES = UNPAID_STATES
  BY DEF Lifecycle!OrderStatus, OrderStatus, Lifecycle!UNPAID_STATES, UNPAID_STATES
<1>2. Lifecycle!ALLOWED = ALLOWED
  BY <1>1 DEF Lifecycle!ALLOWED, ALLOWED
<1> QED BY <1>1, <1>2 DEF Lifecycle!TransitionAllowed, TransitionAllowed

\* A commit is one step of the lifecycle, or changes nothing it can see.
LEMMA CommitMoves ==
    ASSUME Calls \subseteq LockedCalls, IInv, OneOrderInv,
           NEW q \in Requests, Commit(q)
    PROVE  \/ \E o \in Orders : \E to \in OrderStatus : Lifecycle!Move(o, to)
           \/ UNCHANGED Lifecycle!lvars
<1> DEFINE c == req[q].call
           held == req[q].held
<1>1. held \subseteq Orders /\ held \subseteq Busy(q)
  BY DEF IInv, TypeOK, Request, Busy
<1>2. CASE held = {}
  <2>1. requested' = requested
    BY <1>2 DEF Commit, IInv, TypeOK
  <2>2. \A o \in Orders : row'[o] = row[o]
    BY <1>2 DEF Commit
  <2> QED BY <2>1, <2>2 DEF Lifecycle!lvars
<1>3. CASE held # {}
  <2> PICK o \in held : TRUE
    BY <1>3
  <2> DEFINE from == row[o].status
             cmd == PaymentCommand(c, row[o])
  <2>1. /\ o \in Orders /\ c \in LockedCalls /\ c \in AllCalls
        /\ from \in OrderStatus /\ Permitted(c, row[o])
        /\ req[q].seen[o] = row[o]
    BY CommitReads
  <2>2. \A p \in held : p = o
    BY <1>1, <2>1 DEF OneOrderInv
  <2>3. c.to \in OrderStatus /\ TransitionAllowed(from, c.to)
    BY <2>1, AllowedMoves DEF Permitted
  <2>4. [p \in Orders |-> row[p].status]'
           = [[p \in Orders |-> row[p].status] EXCEPT ![o] = c.to]
    <3>1. row'[o].status = c.to
      BY CommitWrites
    <3>2. \A p \in Orders : p # o => row'[p] = row[p]
      BY <2>2 DEF Commit
    <3> QED BY <3>1, <3>2
  <2>5. requested' = [requested EXCEPT ![o] = @ \o cmd]
    BY <2>1, <2>2 DEF Commit, IInv, TypeOK
  <2>6. cmd \in Lifecycle!Justified(from, c.to)
    <3>1. CASE c.to = "DELIVERED"
      <4>1. c.kind \in {"advance", "driver"}
        BY <2>1, <3>1 DEF LockedCalls
      <4>2. cmd = <<"settle">> /\ Lifecycle!Justified(from, c.to) = {<<"settle">>}
        BY <3>1, <4>1 DEF Lifecycle!Justified, PaymentCommand, RefundOf
      <4> QED BY <4>2
    <3>2. CASE c.to \in {"CANCELLED", "REJECTED"} /\ from \notin UNPAID_STATES
      <4>1. Lifecycle!Justified(from, c.to) = {<<>>, <<"refund">>}
        BY <3>2, SameMachine DEF Lifecycle!Justified
      <4>2. cmd \in {<<>>, <<"refund">>}
        BY <3>2 DEF PaymentCommand
      <4> QED BY <4>1, <4>2
    <3>3. CASE c.to \in {"CANCELLED", "REJECTED"} /\ from \in UNPAID_STATES
      <4>1. c.to # "REJECTED"
        BY <2>1, <3>3 DEF Permitted, TransitionAllowed, ALLOWED, OrderStatus, UNPAID_STATES
      <4>2. c.kind = "advance" /\ RefundOf(c, row[o]) = "NONE"
        BY <2>1, <3>3, <4>1 DEF LockedCalls, RefundOf, refund_on_cancel
      <4>3. cmd = <<>>
        BY <3>3, <4>2 DEF PaymentCommand
      <4> QED BY <3>3, <4>3, SameMachine DEF Lifecycle!Justified
    <3>4. CASE c.to \notin {"DELIVERED", "CANCELLED", "REJECTED"}
      <4>1. cmd = <<>>
        BY <2>1, <3>4 DEF PaymentCommand, RefundOf, LockedCalls
      <4> QED BY <3>4, <4>1 DEF Lifecycle!Justified
    <3> QED BY <3>1, <3>2, <3>3, <3>4
  <2>7. PICK to \in OrderStatus : to = c.to
    BY <2>3
  <2>8. Lifecycle!Move(o, to)
    <3> HIDE DEF cmd, c
    <3> QED BY <2>1, <2>3, <2>4, <2>5, <2>6, <2>7, SameMachine DEF Lifecycle!Move
  <2> QED BY <2>1, <2>8
<1> QED BY <1>2, <1>3

\* When every caller goes through _locked_order, the service implements the
\* lifecycle it promises: overlapping requests are serialised, each status
\* change is a transition of the state machine, and the payment command it
\* justifies is recorded with it.
THEOREM LockedCallsImplementLifecycle ==
    ASSUME Calls \subseteq LockedCalls
    PROVE  Spec => ImplementsLifecycle
<1>1. Init => Lifecycle!LInit /\ OneOrderInv
  BY DEF Init, Lifecycle!LInit, NoRow, OneOrderInv, Busy, IdleRequest
<1>2. IInv /\ OneOrderInv /\ [Next]_vars => OneOrderInv'
  BY OneOrderStep
<1>3. IInv /\ OneOrderInv /\ [Next]_vars => [Lifecycle!LNext]_(Lifecycle!lvars)
  <2> SUFFICES ASSUME IInv, OneOrderInv, [Next]_vars
               PROVE  [Lifecycle!LNext]_(Lifecycle!lvars)
    OBVIOUS
  <2>1. ASSUME NEW o \in Orders, NEW m \in PaymentMethod, CreateOrder(o, m)
        PROVE  Lifecycle!Place(o)
    <3>1. /\ row[o].status = Absent /\ requested' = requested
          /\ row'[o].status \in {"PAYMENT_PENDING", "PAYMENT_SUCCESS"}
          /\ \A p \in Orders : p # o => row'[p] = row[p]
      BY <2>1 DEF CreateOrder, IInv, TypeOK, Row
    <3> QED BY <3>1 DEF Lifecycle!Place
  <2>2. CASE /\ ~ \E o \in Orders, m \in PaymentMethod : CreateOrder(o, m)
             /\ ~ \E q \in Requests : Commit(q)
    BY <2>2, OnlyCommitsWrite DEF Lifecycle!lvars
  <2>3. ASSUME NEW q \in Requests, Commit(q)
        PROVE  Lifecycle!LNext \/ UNCHANGED Lifecycle!lvars
    BY <2>3, CommitMoves, SameMachine DEF Lifecycle!LNext
  <2>4. ASSUME NEW o \in Orders, NEW m \in PaymentMethod, CreateOrder(o, m)
        PROVE  Lifecycle!LNext
    BY <2>1, <2>4 DEF Lifecycle!LNext
  <2> QED BY <2>2, <2>3, <2>4
<1> QED BY <1>1, <1>2, <1>3, Invariance, PTL DEF Spec, ImplementsLifecycle, Lifecycle!LSpec

\* Every transaction still holds the orders it read as the table has them.
AsRead == \A q \in Requests : \A o \in Busy(q) : req[q].seen[o] = row[o]

LEMMA LockedIsAsRead ==
    ASSUME Calls \subseteq LockedCalls, IInv
    PROVE  AsRead
<1> SUFFICES ASSUME NEW q \in Requests, NEW o \in Busy(q)
             PROVE  req[q].seen[o] = row[o]
  BY DEF AsRead
<1>1. ReqInv(q) /\ req[q].pc # "idle"
  BY DEF IInv, ReqInv, Busy
<1> QED BY <1>1 DEF ReqInv

LEMMA CommitIsAsRead ==
    ASSUME IInv, AsRead, NEW q \in Requests, Commit(q), NEW o \in req[q].held
    PROVE  req[q].seen[o] = row[o]
BY DEF AsRead, Busy

\* A refund goes out once, and never beside a settle.
LEMMA RefundedOnceStep ==
    ASSUME AsRead, IInv, RefundBooked, SettleInv, RefundedOnce, [Next]_vars
    PROVE  RefundedOnce'
<1>1. ASSUME NEW o \in Orders PROVE ~(Asked(o, "refund") /\ Asked(o, "settle"))'
  <2>4. Asked(o, "refund") => ~Asked(o, "settle")
    BY DEF RefundedOnce
  <2>5. CASE \E q \in Requests : Commit(q) /\ o \in req[q].held
    <3> PICK q \in Requests : Commit(q) /\ o \in req[q].held
      BY <2>5
    <3> DEFINE c == req[q].call
               full == RefundOf(c, req[q].seen[o]) = "FULL"
               settles == c.kind \in {"advance", "driver"} /\ c.to = "DELIVERED"
    <3>1. /\ c \in AllCalls /\ req[q].seen[o] = row[o] /\ Permitted(c, row[o])
          /\ row[o].status \in OrderStatus /\ requested[o] \in Seq({"refund", "settle"})
      BY CommitReads, CommitIsAsRead DEF IInv, TypeOK
    <3>2. /\ full => requested'[o] = Append(requested[o], "refund")
          /\ settles => requested'[o] = Append(requested[o], "settle")
          /\ ~full /\ ~settles => requested'[o] = requested[o]
      BY CommitCommand
    <3>3. ~(row[o].status \in {"COMPLETED", "CANCELLED", "REJECTED"})
          /\ (row[o].status = "DELIVERED" => c.to = "COMPLETED")
      BY <3>1, AllowedMoves DEF Permitted
    <3>4. Asked(o, "settle") => row[o].status = "DELIVERED" /\ c.to = "COMPLETED"
      BY <3>3 DEF SettleInv
    <3>5. full => c.to \in {"CANCELLED", "REJECTED"}
      BY <3>1, CallTypes DEF AllCalls
    <3>6. Asked(o, "refund") => row[o].status \in Ended
      BY DEF RefundBooked, IInv, RowInv
    <3> HIDE DEF c, full
    <3>7. ~Asked(o, "refund")
      BY <3>3, <3>6 DEF Ended
    <3>8. CASE full
      <4>1. ~Asked(o, "settle")
        BY <3>4, <3>5, <3>8
      <4> QED BY SMTT(30), <3>1, <3>2, <3>8, <4>1, AppendHas DEF Asked
    <3>9. CASE ~full
      <4>1. requested'[o] = requested[o] \/ requested'[o] = Append(requested[o], "settle")
        BY <3>2, <3>9
      <4>2. ~Asked(o, "refund")'
        BY SMTT(30), <3>1, <3>7, <4>1, AppendHas DEF Asked
      <4> QED BY <4>2
    <3> QED BY <3>8, <3>9
  <2>6. CASE ~ \E q \in Requests : Commit(q) /\ o \in req[q].held
    <3>1. requested'[o] = requested[o]
      <4>1. ASSUME NEW q \in Requests, Commit(q) PROVE requested'[o] = requested[o]
        BY <2>6, <4>1 DEF Commit
      <4>2. ASSUME NEW p \in Orders, NEW m \in PaymentMethod, CreateOrder(p, m)
            PROVE  requested'[o] = requested[o]
        BY <4>2 DEF CreateOrder
      <4> QED BY <4>1, <4>2, OnlyCommitsWrite
    <3> QED BY <2>4, <3>1 DEF Asked
  <2> QED BY <2>5, <2>6
<1>2. ASSUME NEW o \in Orders PROVE AskedOnce(o, "refund")'
  <2>1. AskedOnce(o, "refund") /\ requested[o] \in Seq({"refund", "settle"})
    BY DEF RefundedOnce, IInv, TypeOK
  <2>2. CASE \E q \in Requests : Commit(q) /\ o \in req[q].held
    <3> PICK q \in Requests : Commit(q) /\ o \in req[q].held
      BY <2>2
    <3> DEFINE c == req[q].call
    <3>1. Permitted(c, row[o]) /\ row[o].status \in OrderStatus
      BY CommitReads, CommitIsAsRead
    <3>2. row[o].status \notin Ended
      BY <3>1, AllowedMoves DEF Permitted, Ended
    <3>3. ~Asked(o, "refund")
      BY <3>2 DEF RefundBooked, IInv, RowInv
    <3>4. \/ requested'[o] = requested[o]
          \/ \E x \in {"refund", "settle"} : requested'[o] = Append(requested[o], x)
      BY CommitCommand
    <3>5. \A i \in DOMAIN requested[o] : requested[o][i] # "refund"
      BY <3>3 DEF Asked
    <3>6. ASSUME NEW x \in {"refund", "settle"}, requested'[o] = Append(requested[o], x)
          PROVE  AskedOnce(o, "refund")'
      BY <2>1, <3>5, <3>6, AppendOnce DEF AskedOnce
    <3>7. CASE requested'[o] = requested[o]
      BY <2>1, <3>7 DEF AskedOnce
    <3> QED BY <3>4, <3>6, <3>7
  <2>3. CASE ~ \E q \in Requests : Commit(q) /\ o \in req[q].held
    <3>1. requested'[o] = requested[o]
      <4>1. ASSUME NEW q \in Requests, Commit(q) PROVE requested'[o] = requested[o]
        BY <2>3, <4>1 DEF Commit
      <4>2. ASSUME NEW p \in Orders, NEW m \in PaymentMethod, CreateOrder(p, m)
            PROVE  requested'[o] = requested[o]
        BY <4>2 DEF CreateOrder
      <4> QED BY <4>1, <4>2, OnlyCommitsWrite
    <3> QED BY <2>1, <3>1 DEF AskedOnce
  <2> QED BY <2>2, <2>3
<1> QED BY <1>1, <1>2 DEF RefundedOnce

\* When every caller goes through _locked_order, an order is refunded at most
\* once and never also captured: what the doubled-cancel tests ask for.
THEOREM LockedCallsRefundOnce ==
    ASSUME Calls \subseteq LockedCalls
    PROVE  Spec => []RefundedOnce
<1>1. Init => RefundedOnce /\ RefundBooked /\ SettleInv
  BY DEF Init, RefundedOnce, RefundBooked, SettleInv, SettledOnce, NoRow, Asked, AskedOnce
<1>2. IInv /\ RefundBooked /\ SettleInv /\ RefundedOnce /\ [Next]_vars => RefundedOnce'
  BY RefundedOnceStep, LockedIsAsRead
<1> QED BY <1>1, <1>2, Invariance, RefundBookedStep, SettleStep, PTL DEF Spec

\* Appending an entry that follows on from the last one extends the walk.
LEMMA WalkAppend ==
    ASSUME NEW s \in Seq(AuditEntry), NEW e \in AuditEntry,
           \A i \in 1..(Len(s) - 1) :
              s[i + 1].from = s[i].to /\ TransitionAllowed(s[i].to, s[i + 1].to),
           s # <<>> => e.from = s[Len(s)].to /\ TransitionAllowed(s[Len(s)].to, e.to)
    PROVE  \A i \in 1..(Len(Append(s, e)) - 1) :
              /\ Append(s, e)[i + 1].from = Append(s, e)[i].to
              /\ TransitionAllowed(Append(s, e)[i].to, Append(s, e)[i + 1].to)
<1> DEFINE n == Len(s)
           t == Append(s, e)
<1>1. /\ n \in Nat /\ Len(t) = n + 1 /\ t[n + 1] = e
      /\ \A i \in 1..n : t[i] = s[i]
      /\ n # 0 => s # <<>>
  OBVIOUS
<1>2. ASSUME NEW i \in 1..n
      PROVE  t[i + 1].from = t[i].to /\ TransitionAllowed(t[i].to, t[i + 1].to)
  <2>1. CASE i = n
    <3>1. t[i] = s[n] /\ t[i + 1] = e /\ s # <<>>
      BY <1>1, <2>1
    <3> QED BY <3>1
  <2>2. CASE i \in 1..(n - 1)
    <3>1. t[i] = s[i] /\ t[i + 1] = s[i + 1]
      BY <1>1, <2>2
    <3> QED BY <2>2, <3>1
  <2> QED BY <1>1, <1>2, <2>1, <2>2
<1>3. \A i \in 1..(Len(t) - 1) : i \in 1..n
  BY <1>1
<1> HIDE DEF n, t
<1>4. \A i \in 1..(Len(t) - 1) :
         t[i + 1].from = t[i].to /\ TransitionAllowed(t[i].to, t[i + 1].to)
  BY <1>2, <1>3
<1> QED BY <1>4 DEF t

\* The first entries of an order, written by checkout in one transaction.
LEMMA FirstEntries ==
    ASSUME IInv, NEW o \in Orders, NEW m \in PaymentMethod, CreateOrder(o, m)
    PROVE  \A i \in 1..(Len(audit'[o]) - 1) :
              /\ audit'[o][i + 1].from = audit'[o][i].to
              /\ TransitionAllowed(audit'[o][i].to, audit'[o][i + 1].to)
<1> DEFINE Step(from, to) == [from |-> from, to |-> to, actor |-> "SYSTEM"]
           a == Step(None, "CREATED")
           b == Step("CREATED", "PAYMENT_PENDING")
           c == Step("PAYMENT_PENDING", "PAYMENT_SUCCESS")
<1>1. /\ a \in AuditEntry /\ b \in AuditEntry /\ c \in AuditEntry
      /\ a.to = "CREATED" /\ b.from = "CREATED" /\ b.to = "PAYMENT_PENDING"
      /\ c.from = "PAYMENT_PENDING" /\ c.to = "PAYMENT_SUCCESS"
  BY DEF AuditEntry, OrderStatus, Actor
<1>2. audit'[o] = <<a, b>> \o (IF m = "COD" THEN <<c>> ELSE <<>>)
  BY DEF CreateOrder, IInv, TypeOK
<1>3. /\ TransitionAllowed("CREATED", "PAYMENT_PENDING")
      /\ TransitionAllowed("PAYMENT_PENDING", "PAYMENT_SUCCESS")
  BY DEF TransitionAllowed, ALLOWED, OrderStatus
<1> HIDE DEF Step, a, b, c
<1>4. \A i \in 1..(Len(<<a, b>>) - 1) :
         <<a, b>>[i + 1].from = <<a, b>>[i].to /\ TransitionAllowed(<<a, b>>[i].to, <<a, b>>[i + 1].to)
  BY <1>1, <1>3
<1>5. CASE m # "COD"
  <2>1. audit'[o] = <<a, b>>
    BY <1>2, <1>5
  <2> QED BY <1>4, <2>1
<1>6. CASE m = "COD"
  <2>1. audit'[o] = Append(<<a, b>>, c)
    BY <1>2, <1>6
  <2>2. <<a, b>> \in Seq(AuditEntry) /\ <<a, b>>[Len(<<a, b>>)] = b
    BY <1>1
  <2>3. \A i \in 1..(Len(Append(<<a, b>>, c)) - 1) :
           /\ Append(<<a, b>>, c)[i + 1].from = Append(<<a, b>>, c)[i].to
           /\ TransitionAllowed(Append(<<a, b>>, c)[i].to, Append(<<a, b>>, c)[i + 1].to)
    BY <1>1, <1>3, <1>4, <2>2, WalkAppend
  <2> QED BY <2>1, <2>3
<1> QED BY <1>5, <1>6

\* A commit's entry leaves from the status in the row, which is where the last
\* entry arrived.
LEMMA AuditStep ==
    ASSUME AsRead, IInv, OutboxMirrorsRow, AuditIsAWalk, [Next]_vars
    PROVE  AuditIsAWalk'
<1>1. ASSUME NEW p \in Orders, NEW m \in PaymentMethod, CreateOrder(p, m)
      PROVE  AuditIsAWalk'
  <2>1. \A o \in Orders : o # p => audit'[o] = audit[o]
    BY <1>1 DEF CreateOrder, IInv, TypeOK
  <2> QED BY <1>1, <2>1, FirstEntries DEF AuditIsAWalk
<1>2. ASSUME NEW q \in Requests, Commit(q) PROVE AuditIsAWalk'
  <2> SUFFICES ASSUME NEW o \in Orders
               PROVE  \A i \in 1..(Len(audit'[o]) - 1) :
                         /\ audit'[o][i + 1].from = audit'[o][i].to
                         /\ TransitionAllowed(audit'[o][i].to, audit'[o][i + 1].to)
    BY DEF AuditIsAWalk
  <2>1. CASE o \notin req[q].held
    BY <1>2, <2>1 DEF Commit, AuditIsAWalk
  <2>2. CASE o \in req[q].held
    <3> DEFINE c == req[q].call
               e == [from |-> req[q].seen[o].status, to |-> c.to, actor |-> ActorOf(c)]
    <3>1. /\ c \in AllCalls
          /\ req[q].seen[o] = row[o] /\ row[o].status \in OrderStatus
          /\ Permitted(c, row[o])
      BY <1>2, <2>2, CommitReads, CommitIsAsRead
    <3>2. audit'[o] = Append(audit[o], e) /\ audit[o] \in Seq(AuditEntry)
      BY <1>2, <2>2 DEF Commit, IInv, TypeOK
    <3>3. /\ e.from = row[o].status /\ e.to = c.to
          /\ TransitionAllowed(row[o].status, c.to) /\ e \in AuditEntry
      BY <3>1, CallTypes DEF Permitted, AuditEntry
    <3>4. audit[o] # <<>> /\ audit[o][Len(audit[o])].to = row[o].status
      BY <3>1, NoneAssumption DEF OutboxMirrorsRow
    <3>5. \A i \in 1..(Len(audit[o]) - 1) :
             /\ audit[o][i + 1].from = audit[o][i].to
             /\ TransitionAllowed(audit[o][i].to, audit[o][i + 1].to)
      BY DEF AuditIsAWalk
    <3> HIDE DEF c, e
    <3> QED BY <3>2, <3>3, <3>4, <3>5, WalkAppend
  <2> QED BY <2>1, <2>2
<1>3. CASE /\ ~ \E o \in Orders, m \in PaymentMethod : CreateOrder(o, m)
           /\ ~ \E q \in Requests : Commit(q)
  BY <1>3, OnlyCommitsWrite DEF AuditIsAWalk
<1> QED BY <1>1, <1>2, <1>3

\* When every caller goes through _locked_order, the audit trail of an order is
\* one legal walk through the state machine, however requests overlap.
THEOREM LockedCallsAuditIsAWalk ==
    ASSUME Calls \subseteq LockedCalls
    PROVE  Spec => []AuditIsAWalk
<1>1. Init => AuditIsAWalk /\ OutboxMirrorsRow
  BY DEF Init, AuditIsAWalk, OutboxMirrorsRow, NoRow
<1>2. IInv /\ OutboxMirrorsRow /\ AuditIsAWalk /\ [Next]_vars => AuditIsAWalk'
  BY AuditStep, LockedIsAsRead
<1> QED BY <1>1, <1>2, Invariance, OutboxMirrorsRowStep, PTL DEF Spec

-----------------------------------------------------------------------------
(* Stock goes back once.                                                   *)

\* A locked transaction has one order, at one place: still to take, being
\* flushed, or flushed; and it calls release-stock only for what it flushed.
PlaceInv ==
    \A q \in Requests :
        req[q].call \in LockedCalls =>
            /\ req[q].held # {} => req[q].todo = {}
            /\ req[q].pc = "flush" => req[q].held = {} /\ req[q].todo = {}
            /\ req[q].pc = "release" => req[q].cur \in req[q].held /\ Unwinds(req[q].call)

\* Has q put the stock of o back, as far as it will?
PutBackBy(q, o) == req[q].pc = "next" /\ o \in req[q].held /\ Unwinds(req[q].call)

\* The order has ended, or the transaction that ends it is past its release;
\* before that, only the calls a crash undid have put anything back.
StockInv ==
    \A o \in Orders :
        released[o] <= crashes +
            IF row[o].status \in Ended \/ \E q \in Requests : PutBackBy(q, o) THEN 1 ELSE 0

LEMMA PlaceStep ==
    ASSUME Calls \subseteq LockedCalls, IInv, OneOrderInv, PlaceInv, [Next]_vars
    PROVE  PlaceInv'
<1> DEFINE Place(r) ==
        r.call \in LockedCalls =>
            /\ r.held # {} => r.todo = {}
            /\ r.pc = "flush" => r.held = {} /\ r.todo = {}
            /\ r.pc = "release" => r.cur \in r.held /\ Unwinds(r.call)
<1>1. /\ req \in [Requests -> Request]
      /\ \A q \in Requests : Place(req[q])
  BY DEF IInv, TypeOK, PlaceInv
<1>2. ASSUME NEW q \in Requests, Place(req'[q]), \A p \in Requests : p # q => req'[p] = req[p]
      PROVE  PlaceInv'
  BY <1>1, <1>2 DEF PlaceInv
<1>3. ASSUME NEW q \in Requests, NEW c \in Calls, NEW S, req' = [req EXCEPT ![q] = Started(c, S)]
      PROVE  PlaceInv'
  <2>1. req'[q] = Started(c, S) /\ \A p \in Requests : p # q => req'[p] = req[p]
    BY <1>1, <1>3
  <2>2. Place(req'[q])
    BY <2>1 DEF Started
  <2> HIDE DEF Place
  <2> QED BY <1>2, <2>1, <2>2
<1>4. ASSUME NEW q \in Requests, TakeNext(q) PROVE PlaceInv'
  <2> PICK o \in req[q].todo :
         req' = [req EXCEPT ![q].pc = "flush", ![q].cur = o, ![q].todo = @ \ {o}]
    BY <1>4 DEF TakeNext
  <2>1. /\ req'[q].pc = "flush" /\ req'[q].todo = req[q].todo \ {o}
        /\ req'[q].held = req[q].held /\ req'[q].call = req[q].call
        /\ \A p \in Requests : p # q => req'[p] = req[p]
    BY <1>1 DEF Request
  <2>2. req[q].call \in LockedCalls => req[q].todo \subseteq {o}
    BY DEF OneOrderInv, Busy
  <2>3. Place(req'[q])
    BY <1>1, <2>1, <2>2
  <2> HIDE DEF Place
  <2> QED BY <1>2, <2>1, <2>3
<1>5. ASSUME NEW q \in Requests, Flush(q) PROVE PlaceInv'
  <2>1. /\ req[q].pc = "flush"
        /\ req'[q].pc = IF Unwinds(req[q].call) THEN "release" ELSE "next"
        /\ req'[q].cur = req[q].cur
        /\ req'[q].todo = req[q].todo /\ req'[q].held = req[q].held \cup {req[q].cur}
        /\ req'[q].call = req[q].call
        /\ \A p \in Requests : p # q => req'[p] = req[p]
    BY <1>1, <1>5 DEF Flush, Request
  <2>2. Place(req'[q])
    BY <1>1, <2>1
  <2> HIDE DEF Place
  <2> QED BY <1>2, <2>1, <2>2
<1>6. ASSUME NEW q \in Requests, ReleaseStock(q) PROVE PlaceInv'
  <2>1. /\ req'[q].pc = "next" /\ req'[q].todo = req[q].todo
        /\ req'[q].held = req[q].held /\ req'[q].call = req[q].call
        /\ \A p \in Requests : p # q => req'[p] = req[p]
    BY <1>1, <1>6 DEF ReleaseStock, Request
  <2>2. Place(req'[q])
    BY <1>1, <2>1
  <2> HIDE DEF Place
  <2> QED BY <1>2, <2>1, <2>2
<1>7. ASSUME NEW q \in Requests, Finish(q) PROVE PlaceInv'
  <2>1. req'[q] = IdleRequest /\ \A p \in Requests : p # q => req'[p] = req[p]
    BY <1>1, <1>7 DEF Finish
  <2>2. Place(req'[q])
    BY <2>1 DEF IdleRequest
  <2> HIDE DEF Place
  <2> QED BY <1>2, <2>1, <2>2
<1>8. CASE req' = req
  BY <1>8 DEF PlaceInv
<1> HIDE DEF Place
<1> QED BY ZenonT(60), <1>3, <1>4, <1>5, <1>6, <1>7, <1>8
        DEF Next, vars, Progress, GrowOld, CreateOrder, LockOrder, ReadOrder, ReadStale, Refuse,
            Commit, BreakDeadlock, Abort

\* A transaction that has flushed an order is not refused, nor chosen to break a
\* deadlock: it has nothing left to take or to wait for.
LEMMA HeldIsNotGivenUp ==
    ASSUME Calls \subseteq LockedCalls, IInv, OneOrderInv, PlaceInv, NEW q \in Requests,
           Refuse(q) \/ BreakDeadlock(q)
    PROVE  req[q].held = {}
<1>1. ReqInv(q) /\ Calls \subseteq LockedCalls
  BY DEF IInv
<1>2. CASE Refuse(q)
  <2>1. req[q].pc = "next" /\ req[q].todo # {}
    BY <1>2 DEF Refuse
  <2> QED BY <1>1, <2>1 DEF ReqInv, PlaceInv
<1>3. CASE BreakDeadlock(q)
  <2>1. req[q].pc = "flush"
    BY <1>3 DEF BreakDeadlock, InDeadlock, WaitsFor
  <2> QED BY <1>1, <2>1 DEF ReqInv, PlaceInv
<1> QED BY <1>2, <1>3

LEMMA StockStep ==
    ASSUME Calls \subseteq LockedCalls, IInv, OneOrderInv, PlaceInv, StockInv, [Next]_vars
    PROVE  StockInv'
<1> DEFINE Over(o) == row[o].status \in Ended \/ \E q \in Requests : PutBackBy(q, o)
<1>1. /\ req \in [Requests -> Request] /\ crashes \in Nat
      /\ released \in [Orders -> Nat]
      /\ \A o \in Orders : released[o] <= crashes + IF Over(o) THEN 1 ELSE 0
  BY BoundsAssumption DEF IInv, TypeOK, StockInv
<1>2. ASSUME UNCHANGED <<released, crashes>>, \A o \in Orders : Over(o) => Over(o)'
      PROVE  StockInv'
  <2> HIDE DEF Over
  <2>1. \A o \in Orders : released'[o] <= crashes' + IF Over(o)' THEN 1 ELSE 0
    BY <1>1, <1>2
  <2> QED BY <2>1 DEF StockInv, Over
<1>3. ASSUME NEW q \in Requests, UNCHANGED <<released, crashes>>,
             \A p \in Requests : p # q => req'[p] = req[p],
             \A o \in Orders : PutBackBy(q, o) => Over(o)',
             \A o \in Orders : row[o].status \in Ended => row'[o].status \in Ended
      PROVE  StockInv'
  <2>1. ASSUME NEW o \in Orders, Over(o) PROVE Over(o)'
    BY <1>3, <2>1 DEF PutBackBy
  <2> QED BY <1>2, <1>3, <2>1
<1>4. ASSUME NEW o \in Orders, NEW m \in PaymentMethod, CreateOrder(o, m)
      PROVE  StockInv'
  <2>1. \A p \in Orders : row[p].status \in Ended => row'[p].status \in Ended
    BY <1>4, NoneAssumption DEF CreateOrder, IInv, TypeOK, Ended, OrderStatus
  <2>2. \A p \in Orders : Over(p) => Over(p)'
    BY <1>4, <2>1 DEF CreateOrder, PutBackBy
  <2> QED BY <1>2, <1>4, <2>2 DEF CreateOrder
<1>5. ASSUME NEW q \in Requests, NEW c \in Calls, NEW S,
             req' = [req EXCEPT ![q] = Started(c, S)], req[q].pc = "idle",
             UNCHANGED <<row, released, crashes>>
      PROVE  StockInv'
  BY <1>1, <1>3, <1>5 DEF PutBackBy
<1>6. ASSUME NEW q \in Requests, TakeNext(q) PROVE StockInv'
  <2>1. /\ \A p \in Requests : p # q => req'[p] = req[p]
        /\ UNCHANGED <<row, released, crashes>>
    BY <1>1, <1>6 DEF TakeNext
  <2>2. req[q].held = {}
    BY <1>6 DEF TakeNext, IInv, ReqInv, PlaceInv
  <2> QED BY <1>3, <2>1, <2>2 DEF PutBackBy
<1>7. ASSUME NEW q \in Requests, Flush(q) PROVE StockInv'
  <2>1. /\ \A p \in Requests : p # q => req'[p] = req[p]
        /\ UNCHANGED <<row, released, crashes>> /\ req[q].pc = "flush"
    BY <1>1, <1>7 DEF Flush
  <2> QED BY <1>3, <2>1 DEF PutBackBy
<1>8. ASSUME NEW q \in Requests, ReleaseStock(q) PROVE StockInv'
  <2> PICK o \in Orders : o = req[q].cur
    BY <1>8 DEF ReleaseStock, IInv, ReqInv
  <2>1. /\ req[q].pc = "release" /\ req[q].call \in LockedCalls
        /\ o \in req[q].held /\ Unwinds(req[q].call) /\ ReqInv(q)
    BY <1>8 DEF ReleaseStock, IInv, ReqInv, PlaceInv
  <2>2. /\ \A p \in Requests : p # q => req'[p] = req[p]
        /\ req'[q].pc = "next" /\ req'[q].held = req[q].held /\ req'[q].call = req[q].call
        /\ UNCHANGED <<row, crashes>>
    BY <1>1, <1>8 DEF ReleaseStock, Request
  <2>3. /\ \A p \in Orders : p # o => released'[p] = released[p]
        /\ released'[o] <= released[o] + 1
    BY <1>1, <1>8, <2>1 DEF ReleaseStock
  <2>4. \A p \in Orders : Over(p) => Over(p)'
    BY <2>1, <2>2 DEF PutBackBy
  <2>5. PutBackBy(q, o)'
    BY <2>1, <2>2 DEF PutBackBy
  <2>6. ~Over(o)
    <3>1. lock[o] = q /\ row[o].status \notin Ended
      <4>1. o \in Busy(q) \ req[q].todo
        BY <2>1 DEF Busy, PlaceInv
      <4>2. Permitted(req[q].call, row[o]) /\ row[o].status \in OrderStatus /\ lock[o] = q
        BY <2>1, <4>1 DEF ReqInv
      <4> QED BY <4>2, AllowedMoves DEF Permitted, Ended
    <3>2. ASSUME NEW p \in Requests, PutBackBy(p, o) PROVE FALSE
      <4>1. lock[o] = p
        BY <3>2 DEF PutBackBy, IInv, ReqInv
      <4>2. p = q
        BY <3>1, <4>1
      <4> QED BY <2>1, <3>2, <4>2 DEF PutBackBy
    <3> QED BY <3>1, <3>2
  <2>7. Over(o)'
    BY <2>5
  <2> HIDE DEF Over
  <2>8. \A p \in Orders : released'[p] <= crashes' + IF Over(p)' THEN 1 ELSE 0
    <3>1. released' \in [Orders -> Nat]
      BY <1>8, ReleaseIInv DEF IInv, TypeOK
    <3> QED BY <1>1, <2>1, <2>2, <2>3, <2>4, <2>6, <2>7, <3>1
  <2> QED BY <2>8 DEF StockInv, Over
<1>9. ASSUME NEW q \in Requests, Commit(q) PROVE StockInv'
  <2>1. /\ \A p \in Requests : p # q => req'[p] = req[p]
        /\ UNCHANGED <<released, crashes>>
    BY <1>9 DEF Commit, Finish
  <2>2. ASSUME NEW o \in req[q].held
        PROVE  /\ Unwinds(req[q].call) => row'[o].status \in Ended
               /\ row[o].status \notin Ended
    <3>1. /\ req[q].call \in AllCalls /\ Permitted(req[q].call, row[o])
          /\ row[o].status \in OrderStatus
      BY <1>9, CommitReads
    <3>2. row'[o].status = req[q].call.to
      BY <1>9, CommitWrites
    <3> QED BY <3>1, <3>2, CallTypes, AllowedMoves DEF Permitted, Ended
  <2>3. \A o \in Orders : o \notin req[q].held => row'[o] = row[o]
    BY <1>9 DEF Commit
  <2>4. \A o \in Orders : PutBackBy(q, o) => Over(o)'
    BY <2>2 DEF PutBackBy
  <2>5. \A o \in Orders : row[o].status \in Ended => row'[o].status \in Ended
    BY <2>2, <2>3
  <2> HIDE DEF Over
  <2> QED BY <1>3, <2>1, <2>4, <2>5
<1>10. ASSUME NEW q \in Requests, Refuse(q) \/ BreakDeadlock(q) PROVE StockInv'
  <2>1. /\ \A p \in Requests : p # q => req'[p] = req[p]
        /\ UNCHANGED <<row, released, crashes>>
    BY <1>1, <1>10 DEF Refuse, BreakDeadlock, Finish
  <2>2. req[q].held = {}
    BY <1>10, HeldIsNotGivenUp
  <2> QED BY <1>3, <2>1, <2>2 DEF PutBackBy
<1>11. ASSUME NEW q \in Requests, Abort(q) PROVE StockInv'
  <2>1. crashes' = crashes + 1 /\ released' = released
    BY <1>11 DEF Abort
  <2> HIDE DEF Over
  <2>2. \A o \in Orders : released'[o] <= crashes' + IF Over(o)' THEN 1 ELSE 0
    BY <1>1, <2>1
  <2> QED BY <2>2 DEF StockInv, Over
<1>12. ASSUME NEW o \in Orders, GrowOld(o) PROVE StockInv'
  BY <1>2, <1>12 DEF GrowOld, PutBackBy
<1>13. CASE UNCHANGED vars
  BY <1>2, <1>13 DEF vars, PutBackBy
<1>14. ASSUME NEW q \in Requests, NEW c \in Calls, ReadStale(q, c) PROVE StockInv'
  BY <1>5, <1>14 DEF ReadStale
<1>15. ASSUME NEW q \in Requests, NEW c \in Calls, NEW o \in Orders, LockOrder(q, c, o) \/ ReadOrder(q, c, o)
       PROVE  StockInv'
  BY <1>5, <1>15 DEF LockOrder, ReadOrder
<1> QED BY <1>4, <1>6, <1>7, <1>8, <1>9, <1>10, <1>11, <1>12, <1>13, <1>14, <1>15 DEF Next, Progress

\* reject and advance put the stock back before they commit: once per order that
\* ends, and once more at most for every transaction that crashed in between.
THEOREM LockedCallsReleaseOnce ==
    ASSUME Calls \subseteq LockedCalls
    PROVE  Spec => []StockReleasedOnce
<1>1. Init => OneOrderInv /\ PlaceInv /\ StockInv
  BY DEF Init, OneOrderInv, PlaceInv, StockInv, Busy, IdleRequest
<1>2. IInv /\ OneOrderInv /\ PlaceInv /\ StockInv /\ [Next]_vars
         => (OneOrderInv /\ PlaceInv /\ StockInv)'
  BY OneOrderStep, PlaceStep, StockStep
<1>3. IInv /\ StockInv => StockReleasedOnce
  <2> SUFFICES ASSUME IInv, StockInv, NEW o \in Orders
               PROVE  released[o] <= crashes + (IF Ending(o) THEN 1 ELSE 0)
    BY DEF StockReleasedOnce
  <2>1. (row[o].status \in Ended \/ \E q \in Requests : PutBackBy(q, o)) => Ending(o)
    BY DEF Ended, PutBackBy, Ending
  <2>2. released[o] \in Nat /\ crashes \in Nat
    BY BoundsAssumption DEF IInv, TypeOK
  <2> QED BY <2>1, <2>2 DEF StockInv
<1> QED BY <1>1, <1>2, <1>3, Invariance, PTL DEF Spec

-----------------------------------------------------------------------------
(* Every call there is, unlocked ones too, one transaction at a time.      *)

OneSlot == \A p, q \in Requests : p = q

LEMMA AsReadStep ==
    ASSUME OneSlot, IInv, AsRead, [Next]_vars
    PROVE  AsRead'
<1>1. ASSUME NEW q \in Requests, NEW c \in Calls,
             ReadStale(q, c) \/ \E o \in Orders : LockOrder(q, c, o) \/ ReadOrder(q, c, o)
      PROVE  AsRead'
  <2>1. PICK S \in SUBSET Orders : req'[q] = Started(c, S) /\ row' = row
    <3>1. CASE ReadStale(q, c)
      <4>1. Stale(c) \in SUBSET Orders
        BY DEF Stale
      <4>2. req'[q] = Started(c, Stale(c)) /\ row' = row
        BY <3>1 DEF IInv, TypeOK, ReadStale
      <4> QED BY <4>1, <4>2
    <3>2. ASSUME NEW o \in Orders, LockOrder(q, c, o) \/ ReadOrder(q, c, o)
          PROVE  \E S \in SUBSET Orders : req'[q] = Started(c, S) /\ row' = row
      <4>1. req'[q] = Started(c, {o}) /\ row' = row
        BY <3>2 DEF IInv, TypeOK, LockOrder, ReadOrder
      <4> QED BY <4>1
    <3> QED BY <1>1, <3>1, <3>2
  <2>2. Busy(q)' = S /\ \A o2 \in S : req'[q].seen[o2] = row[o2]
    BY <2>1 DEF Busy, Started
  <2> QED BY <2>1, <2>2 DEF AsRead, OneSlot
<1>2. ASSUME NEW q \in Requests, TakeNext(q) \/ Flush(q) \/ ReleaseStock(q)
      PROVE  AsRead'
  <2>1. req \in [Requests -> Request] /\ row' = row
    BY <1>2 DEF IInv, TypeOK, TakeNext, Flush, ReleaseStock
  <2>2. Busy(q)' \subseteq Busy(q) /\ req'[q].seen = req[q].seen
    <3>1. CASE TakeNext(q)
      BY <2>1, <3>1 DEF TakeNext, Busy, Request
    <3>2. CASE Flush(q)
      BY <2>1, <3>2 DEF Flush, Busy, Request
    <3>3. CASE ReleaseStock(q)
      BY <2>1, <3>3 DEF ReleaseStock, Busy, Request
    <3> QED BY <1>2, <3>1, <3>2, <3>3
  <2> QED BY <2>1, <2>2 DEF AsRead, OneSlot
<1>3. ASSUME NEW q \in Requests, Finish(q) PROVE AsRead'
  <2>1. req'[q] = IdleRequest
    BY <1>3 DEF Finish, IInv, TypeOK
  <2>2. Busy(q)' = {}
    BY <2>1 DEF Busy, IdleRequest
  <2> QED BY <2>2 DEF AsRead, OneSlot
<1>4. CASE UNCHANGED <<row, req>>
  BY <1>4 DEF AsRead, Busy
<1>5. ASSUME NEW o \in Orders, NEW m \in PaymentMethod, CreateOrder(o, m)
      PROVE  AsRead'
  <2>1. /\ req' = req
        /\ \A p \in Orders : p # o => row'[p] = row[p]
    BY <1>5 DEF CreateOrder, IInv, TypeOK
  <2>2. ASSUME NEW q \in Requests, NEW p \in Busy(q) PROVE p \in Orders /\ p # o
    BY <1>5, <2>2, BusyInOrders, NoneAssumption DEF CreateOrder, IInv, ReqInv
  <2> QED BY <2>1, <2>2 DEF AsRead, Busy
<1> QED BY <1>1, <1>2, <1>3, <1>4, <1>5
        DEF Next, vars, Progress, GrowOld, Refuse, Commit, BreakDeadlock, Abort

\* Customers' cancels and the sweeps included, an order is refunded at most once
\* and its audit trail is one legal walk, as long as no two transactions overlap:
\* the overlap of two unlocked reads is the whole of the doubled refund.
THEOREM OneAtATimeRefundsOnce ==
    ASSUME OneSlot
    PROVE  Spec => [](RefundedOnce /\ AuditIsAWalk)
<1>1. Init => /\ RefundedOnce /\ RefundBooked /\ SettleInv
              /\ AuditIsAWalk /\ OutboxMirrorsRow /\ AsRead
  BY DEF Init, RefundedOnce, RefundBooked, SettleInv, SettledOnce, NoRow, Asked, AskedOnce,
         AuditIsAWalk, OutboxMirrorsRow, AsRead, Busy, IdleRequest
<1>2. IInv /\ AsRead /\ [Next]_vars => AsRead'
  BY AsReadStep
<1>3. /\ IInv /\ AsRead /\ RefundBooked /\ SettleInv /\ RefundedOnce /\ [Next]_vars
      => RefundedOnce'
  BY RefundedOnceStep
<1>4. IInv /\ AsRead /\ OutboxMirrorsRow /\ AuditIsAWalk /\ [Next]_vars => AuditIsAWalk'
  BY AuditStep
<1> QED BY <1>1, <1>2, <1>3, <1>4, Invariance, RefundBookedStep, SettleStep,
        OutboxMirrorsRowStep, PTL DEF Spec

=============================================================================
