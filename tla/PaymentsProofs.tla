-------------------------- MODULE PaymentsProofs --------------------------
(***************************************************************************)
(* Proofs about Payments, for any orders, any number of handlers running   *)
(* at once, any customer calls, with or without Redis, any crashes, and    *)
(* any messages that come late, again or never.                            *)
(***************************************************************************)
EXTENDS Payments, FiniteSetTheorems, TLAPS

\* What may be booked as collected: a charge, or an order put to PAYMENT_SUCCESS
\* by hand.
Due(o) == stripe[o] \in Charged \/ o \in forced

\* What an order's row and announcements rest on: "paid" is never said of a card
\* Stripe did not charge, and "collected" only of such an order or a forced one.
OrderInv(o) ==
    /\ told[o] => stripe[o] \in Charged
    /\ emitted[o] = {} => payment[o] = NoPayment
    /\ commands[o] # {} => "PAYMENT_SUCCESS" \in emitted[o]
    /\ IsCard(o) /\ "PAYMENT_SUCCESS" \in emitted[o] => Due(o)
    /\ IsCard(o) /\ payment[o].status = "SUCCEEDED" => Due(o)

\* What a running handler holds: an order that was placed, and nothing it is to
\* write or tell beyond that.
HandlerInv(h) ==
    LET a == handler[h] IN
    /\ a.pc # "idle" => a.order \in Orders /\ emitted[a.order] # {}
    /\ a.pc = "idle" => a = Idle
    /\ a.pc = "insert" => a.row.status \in {"AUTHORIZED", "FAILED"}
    /\ a.pc = "tell" \/ a.after = "tell" => stripe[a.order] \in Charged
    /\ a.update.status = "SUCCEEDED" /\ IsCard(a.order) => Due(a.order)

IInv ==
    /\ TypeOK
    /\ \A o \in Orders : OrderInv(o)
    /\ \A h \in Slots : HandlerInv(h)

-----------------------------------------------------------------------------
(* The records the handlers build.                                         *)

LEMMA IdleType == Idle \in Handler /\ NoPayment \in Payment /\ NoUpdate \in Update
BY DEF Idle, Handler, NoPayment, Payment, NoUpdate, Update, Ref

\* An UPDATE computed from two rows sets the status only to the new one's.
LEMMA ChangesType ==
    ASSUME NEW read \in Payment, NEW new \in Payment,
           new.status # Absent \/ new.status = read.status
    PROVE  /\ Changes(read, new) \in Update
           /\ Changes(read, new).status \in {"same", new.status}
BY DEF Changes, Payment, Update

LEMMA WrittenType ==
    ASSUME NEW cur \in Payment, NEW update \in Update
    PROVE  /\ Written(cur, update) \in Payment
           /\ Written(cur, update).status = IF update.status # "same" THEN update.status ELSE cur.status
BY DEF Written, Payment, Update

LEMMA AuthorizedType ==
    ASSUME NEW o \in Orders, NEW key \in Ref, NEW new \in Authorized(o, key)
    PROVE  new \in Payment /\ new.status \in {"AUTHORIZED", "FAILED"}
BY DEF Authorized, Payment, PaymentTxStatus, Ref

LEMMA WithType ==
    ASSUME TypeOK, NEW o \in Orders, NEW s \in PaymentTxStatus
    PROVE  With(o, s) \in Payment /\ With(o, s).status = s
<1>1. payment[o] \in Payment
  BY DEF TypeOK
<1> QED
  BY <1>1 DEF With, Payment

\* A handler that decided on a row carries the UPDATE that makes it so.
LEMMA DecideType ==
    ASSUME TypeOK, NEW h \in Slots, NEW o \in Orders, NEW pc \in {"provider", "commit"},
           NEW after \in {"end", "url", "tell"}, NEW new \in Payment,
           new.status # Absent \/ new.status = payment[o].status,
           Decide(h, o, pc, new, after)
    PROVE  \E a \in Handler :
             /\ handler' = [handler EXCEPT ![h] = a]
             /\ a.pc = pc /\ a.order = o /\ a.after = after
             /\ a.update.status \in {"same", new.status}
<1> DEFINE a == [Idle EXCEPT !.pc = pc, !.order = o, !.update = Changes(payment[o], new), !.after = after]
<1>1. payment[o] \in Payment
  BY DEF TypeOK
<1>2. /\ Changes(payment[o], new) \in Update
      /\ Changes(payment[o], new).status \in {"same", new.status}
  BY <1>1, ChangesType
<1>3. a \in Handler /\ a.pc = pc /\ a.order = o /\ a.after = after /\ a.update = Changes(payment[o], new)
  BY <1>2, IdleType DEF Handler, Idle
<1>4. handler' = [handler EXCEPT ![h] = a]
  BY DEF Decide
<1> QED
  BY <1>2, <1>3, <1>4

\* A command that sets the status of the row.
LEMMA CarryType ==
    ASSUME TypeOK, NEW h \in Slots, NEW o \in Orders, NEW pc \in {"provider", "commit"},
           NEW new \in Payment, new.status # Absent, Carry(h, o, pc, new)
    PROVE  /\ \E a \in Handler :
                /\ handler' = [handler EXCEPT ![h] = a]
                /\ a.pc = pc /\ a.order = o /\ a.after = "end"
                /\ a.update = Changes(payment[o], new)
                /\ a.began = IF IsCard(o) THEN "none" ELSE IF AtWork(o) THEN "beside" ELSE "alone"
           /\ overlaps' \in [Orders -> 0..MaxOverlaps]
<1> DEFINE began == IF IsCard(o) THEN "none" ELSE IF AtWork(o) THEN "beside" ELSE "alone"
           a == [Idle EXCEPT !.pc = pc, !.order = o, !.began = began, !.update = Changes(payment[o], new)]
<1>1. payment[o] \in Payment
  BY DEF TypeOK
<1>2. Changes(payment[o], new) \in Update
  BY <1>1, ChangesType
<1>3. began \in {"none", "alone", "beside"}
  OBVIOUS
<1>4. handler' = [handler EXCEPT ![h] = a]
  BY DEF Carry
<1> HIDE DEF began
<1>5. /\ a \in Handler /\ a.pc = pc /\ a.order = o /\ a.after = "end"
      /\ a.update = Changes(payment[o], new) /\ a.began = began
  BY <1>2, <1>3, IdleType DEF Handler, Idle
<1> HIDE DEF a
<1>6. overlaps' \in [Orders -> 0..MaxOverlaps]
  <2>1. CASE AtWork(o)
    <3>1. overlaps[o] < MaxOverlaps /\ overlaps' = [overlaps EXCEPT ![o] = overlaps[o] + 1]
      BY <2>1 DEF Carry
    <3>2. overlaps[o] \in Nat /\ MaxOverlaps \in Nat
      BY BoundsAssumption DEF TypeOK
    <3> QED
      BY <3>1, <3>2 DEF TypeOK
  <2>2. CASE ~AtWork(o)
    BY <2>2 DEF Carry, TypeOK
  <2> QED
    BY <2>1, <2>2
<1> QED
  BY <1>4, <1>5, <1>6 DEF began

LEMMA EnterType ==
    ASSUME NEW h \in Slots, NEW o \in Orders, NEW pc \in {"create", "insert", "verify", "tell"},
           NEW new \in Payment, Enter(h, o, pc, new)
    PROVE  \E a \in Handler :
             /\ handler' = [handler EXCEPT ![h] = a]
             /\ a.pc = pc /\ a.order = o /\ a.after = "end" /\ a.row = new
             /\ a.update.status = "same"
<1> DEFINE a == [Idle EXCEPT !.pc = pc, !.order = o, !.row = new]
<1>1. a \in Handler /\ a.pc = pc /\ a.order = o /\ a.after = "end" /\ a.row = new /\ a.update.status = "same"
  BY IdleType DEF Handler, Idle, NoUpdate
<1>2. handler' = [handler EXCEPT ![h] = a]
  BY DEF Enter
<1> QED
  BY <1>1, <1>2

-----------------------------------------------------------------------------
(* The inductive invariant holds initially and is preserved.               *)

LEMMA InitIInv == Init => IInv
<1> SUFFICES ASSUME Init PROVE IInv
  OBVIOUS
<1>1. TypeOK
  BY IdleType, BoundsAssumption DEF Init, TypeOK, RefundCap, Stripe
<1>2. \A o \in Orders : OrderInv(o)
  BY AbsentAssumption DEF Init, OrderInv, IsCard, NoPayment, PaymentTxStatus
<1>3. \A h \in Slots : HandlerInv(h)
  BY DEF Init, HandlerInv, Idle, NoUpdate
<1> QED
  BY <1>1, <1>2, <1>3 DEF IInv

\* A step of one handler that touches nothing else: only its own record has to
\* be sound.
LEMMA HandlerStep ==
    ASSUME IInv, NEW h \in Slots, NEW a \in Handler,
           handler' = [handler EXCEPT ![h] = a],
           UNCHANGED <<emitted, commands, snapshot, payment, told, stripe, forced>>,
           seen' \subseteq Orders \X WebhookEvent,
           refunds' \in [Orders -> 0..RefundCap],
           crashes' \in 0..MaxCrashes,
           skipped' \subseteq Orders \X OrderEvent,
           overlaps' \in [Orders -> 0..MaxOverlaps],
           a.pc # "idle" => a.order \in Orders /\ emitted[a.order] # {},
           a.pc = "idle" => a = Idle,
           a.pc = "insert" => a.row.status \in {"AUTHORIZED", "FAILED"},
           a.pc = "tell" \/ a.after = "tell" => stripe[a.order] \in Charged,
           a.update.status = "SUCCEEDED" /\ IsCard(a.order) => Due(a.order)
    PROVE  IInv'
<1>1. TypeOK'
  BY DEF IInv, TypeOK
<1>2. \A o \in Orders : OrderInv(o)'
  BY DEF IInv, OrderInv, IsCard, Due
<1>3. ASSUME NEW x \in Slots PROVE HandlerInv(x)'
  <2>1. handler'[x] = IF x = h THEN a ELSE handler[x]
    BY DEF IInv, TypeOK
  <2>2. CASE x = h
    BY <2>1, <2>2 DEF HandlerInv, IsCard, Due
  <2>3. CASE x # h
    BY <2>1, <2>3 DEF IInv, HandlerInv, IsCard, Due
  <2> QED
    BY <2>2, <2>3
<1> QED
  BY <1>1, <1>2, <1>3 DEF IInv

\* A handler that ends and leaves everything else as it is.
LEMMA LeaveStep ==
    ASSUME IInv, NEW h \in Slots, Leave(h),
           UNCHANGED <<emitted, commands, snapshot, payment, told, stripe, forced, seen, refunds, history>>,
           crashes' \in 0..MaxCrashes
    PROVE  IInv'
<1>1. handler' = [handler EXCEPT ![h] = Idle]
  BY DEF Leave
<1>2. Idle \in Handler
  BY IdleType
<1>3. /\ Idle.pc = "idle" /\ Idle.after = "end" /\ Idle.update.status = "same"
  BY DEF Idle, NoUpdate
<1>4. /\ seen' \subseteq Orders \X WebhookEvent /\ refunds' \in [Orders -> 0..RefundCap]
      /\ skipped' \subseteq Orders \X OrderEvent /\ overlaps' \in [Orders -> 0..MaxOverlaps]
  BY DEF IInv, TypeOK, history
<1> QED
  BY <1>1, <1>2, <1>3, <1>4, HandlerStep

\* Outside steps only add announcements and move Stripe forward, so what was
\* charged stays charged and an announced order stays announced.
LEMMA OutsideStep ==
    ASSUME IInv, NEW o \in Orders, PlaceOrder(o) \/ OrderPaid(o) \/ OrderMovesOn(o) \/ Pay(o)
    PROVE  IInv'
<1>1. CASE PlaceOrder(o)
  <2>1. PICK first \in {"PAYMENT_PENDING", "PAYMENT_SUCCESS"} :
          emitted[o] = {} /\ emitted' = [emitted EXCEPT ![o] = {first}]
    BY <1>1 DEF PlaceOrder
  <2>2. UNCHANGED <<commands, snapshot, payment, told, seen, refunds, stripe, handler, crashes, forced, history>>
    BY <1>1 DEF PlaceOrder
  <2>3. TypeOK'
    BY <2>1, <2>2 DEF IInv, TypeOK, OrderEvent, history
  <2>4. ASSUME NEW x \in Orders PROVE OrderInv(x)'
    <3>1. emitted'[x] = IF x = o THEN {first} ELSE emitted[x]
      BY <2>1 DEF IInv, TypeOK
    <3>2. OrderInv(x)
      BY DEF IInv
    <3>3. x = o => payment[x].status # "SUCCEEDED"
      BY <2>1, <3>2, AbsentAssumption DEF OrderInv, NoPayment, PaymentTxStatus
    <3> QED
      BY <2>1, <2>2, <3>1, <3>2, <3>3 DEF OrderInv, IsCard, Due
  <2>5. ASSUME NEW h \in Slots PROVE HandlerInv(h)'
    <3>1. HandlerInv(h)
      BY DEF IInv
    <3>2. CASE handler[h].pc = "idle"
      BY <2>2, <3>1, <3>2 DEF HandlerInv, Idle, NoUpdate
    <3>3. CASE handler[h].pc # "idle"
      <4>1. handler[h].order \in Orders /\ handler[h].order # o
        BY <2>1, <3>1, <3>3 DEF HandlerInv
      <4>2. emitted'[handler[h].order] = emitted[handler[h].order]
        BY <2>1, <4>1 DEF IInv, TypeOK
      <4> QED
        BY <2>2, <3>1, <3>3, <4>1, <4>2 DEF HandlerInv, IsCard, Due
    <3> QED
      BY <3>2, <3>3
  <2> QED
    BY <2>3, <2>4, <2>5 DEF IInv
<1>2. CASE OrderPaid(o)
  <2>1. /\ emitted[o] = {"PAYMENT_PENDING"}
        /\ emitted' = [emitted EXCEPT ![o] = {"PAYMENT_PENDING", "PAYMENT_SUCCESS"}]
        /\ UNCHANGED <<commands, snapshot, payment, told, seen, refunds, stripe, handler, crashes, history>>
    BY <1>2 DEF OrderPaid, IInv, TypeOK
  <2>6. forced \subseteq forced' /\ forced' \subseteq Orders /\ (told[o] \/ o \in forced')
    BY <1>2 DEF OrderPaid, IInv, TypeOK
  <2>2. TypeOK'
    BY <2>1, <2>6 DEF IInv, TypeOK, OrderEvent, history
  <2>3. \A x \in Orders : (IsCard(x)' <=> IsCard(x)) /\ (emitted'[x] = {} <=> emitted[x] = {})
                            /\ (x # o => emitted'[x] = emitted[x])
    BY <2>1 DEF IInv, TypeOK, IsCard
  <2>4. ASSUME NEW x \in Orders PROVE OrderInv(x)'
    <3>1. OrderInv(x) /\ OrderInv(o)
      BY DEF IInv
    <3>2. CASE x = o
      BY <2>1, <2>3, <2>6, <3>1, <3>2 DEF OrderInv, IInv, TypeOK, Due
    <3>3. CASE x # o
      BY <2>1, <2>3, <2>6, <3>1, <3>3 DEF OrderInv, Due
    <3> QED
      BY <3>2, <3>3
  <2>5. \A h \in Slots : HandlerInv(h)'
    BY <2>1, <2>3, <2>6 DEF IInv, HandlerInv, Idle, NoUpdate, Due
  <2> QED
    BY <2>2, <2>4, <2>5 DEF IInv
<1>3. CASE OrderMovesOn(o)
  <2>1. /\ emitted[o] # {} /\ emitted' = [emitted EXCEPT ![o] = @ \cup {"LATER"}]
        /\ UNCHANGED <<snapshot, payment, told, seen, refunds, stripe, handler, crashes, forced, history>>
    BY <1>3 DEF OrderMovesOn
  <2>2. PICK asked \in SUBSET Command :
          /\ commands' = [commands EXCEPT ![o] = asked]
          /\ asked = commands[o] \/ "PAYMENT_SUCCESS" \in emitted[o]
    <3>1. CASE "PAYMENT_SUCCESS" \in emitted[o]
      BY <1>3, <3>1 DEF OrderMovesOn
    <3>2. CASE "PAYMENT_SUCCESS" \notin emitted[o]
      BY <1>3, <3>2 DEF OrderMovesOn, IInv, TypeOK
    <3> QED
      BY <3>1, <3>2
  <2>3. TypeOK'
    BY <2>1, <2>2 DEF IInv, TypeOK, OrderEvent, history
  <2>4. ASSUME NEW x \in Orders
        PROVE  /\ IsCard(x)' <=> IsCard(x)
               /\ (emitted'[x] = {}) <=> (emitted[x] = {})
               /\ ("PAYMENT_SUCCESS" \in emitted'[x]) <=> ("PAYMENT_SUCCESS" \in emitted[x])
    <3>1. emitted'[x] = IF x = o THEN emitted[o] \cup {"LATER"} ELSE emitted[x]
      BY <2>1 DEF IInv, TypeOK
    <3>2. CASE x = o
      BY <2>1, <3>1, <3>2 DEF IsCard
    <3>3. CASE x # o
      BY <3>1, <3>3 DEF IsCard
    <3> QED
      BY <3>2, <3>3
  <2>5. ASSUME NEW x \in Orders PROVE OrderInv(x)'
    <3>1. OrderInv(x)
      BY DEF IInv
    <3>2. commands'[x] = IF x = o THEN asked ELSE commands[x]
      BY <2>2 DEF IInv, TypeOK
    <3> QED
      BY <2>1, <2>2, <2>4, <3>1, <3>2 DEF OrderInv, Due
  <2>6. ASSUME NEW h \in Slots PROVE HandlerInv(h)'
    <3>1. HandlerInv(h)
      BY DEF IInv
    <3>2. CASE handler[h].pc = "idle"
      BY <2>1, <3>1, <3>2 DEF HandlerInv, Idle, NoUpdate
    <3>3. CASE handler[h].pc # "idle"
      <4>1. handler[h].order \in Orders
        BY <3>1, <3>3 DEF HandlerInv
      <4> DEFINE x == handler[h].order
      <4>2. /\ IsCard(x)' <=> IsCard(x)
            /\ (emitted'[x] = {}) <=> (emitted[x] = {})
        BY <2>1, <2>4, <4>1
      <4> QED
        BY <2>1, <3>1, <3>3, <4>1, <4>2 DEF HandlerInv, Due
    <3> QED
      BY <3>2, <3>3
  <2> QED
    BY <2>3, <2>5, <2>6 DEF IInv
<1>4. CASE Pay(o)
  <2>1. PICK s \in Stripe :
          /\ stripe' = [stripe EXCEPT ![o] = s]
          /\ stripe[o] \notin Charged
          /\ UNCHANGED <<emitted, commands, snapshot, payment, told, seen, refunds, handler, crashes, forced, history>>
    BY <1>4 DEF Pay, Stripe, Charged
  <2>2. \A x \in Orders : stripe[x] \in Charged => stripe'[x] \in Charged
    BY <2>1 DEF IInv, TypeOK
  <2>3. TypeOK'
    BY <2>1 DEF IInv, TypeOK, history
  <2>4. \A x \in Orders : OrderInv(x)'
    BY <2>1, <2>2 DEF IInv, OrderInv, IsCard, Due
  <2>5. \A h \in Slots : HandlerInv(h)'
    BY <2>1, <2>2 DEF IInv, HandlerInv, IsCard, Idle, NoUpdate, Due
  <2> QED
    BY <2>3, <2>4, <2>5 DEF IInv
<1> QED
  BY <1>1, <1>2, <1>3, <1>4

-----------------------------------------------------------------------------
(* The handlers' steps.                                                    *)

LEMMA ApplyOrderEventIInv ==
    ASSUME IInv, NEW h \in Slots, NEW o \in Orders, NEW s \in OrderEvent, ApplyOrderEvent(h, o, s)
    PROVE  IInv'
<1>1. /\ emitted[o] # {}
      /\ snapshot' = [snapshot EXCEPT ![o] = s]
      /\ UNCHANGED <<emitted, commands, stripe, forced, payment, told, seen, refunds, crashes, history>>
  BY DEF ApplyOrderEvent, outside
<1>2. PICK a \in Handler :
        /\ handler' = [handler EXCEPT ![h] = a]
        /\ \/ a = handler[h]
           \/ a.pc = "create" /\ a.order = o /\ a.after = "end" /\ a.update.status = "same"
  <2>1. CASE s \in PAYABLE_STATUSES
    <3>1. Enter(h, o, "create", NoPayment)
      BY <2>1 DEF ApplyOrderEvent
    <3> QED
      BY <3>1, IdleType, EnterType
  <2>2. CASE s \notin PAYABLE_STATUSES
    BY <2>2 DEF ApplyOrderEvent, IInv, TypeOK
  <2> QED
    BY <2>1, <2>2
<1>3. TypeOK'
  BY <1>1, <1>2 DEF IInv, TypeOK, history
<1>4. \A x \in Orders : OrderInv(x)'
  BY <1>1 DEF IInv, OrderInv, IsCard, Due
<1>5. ASSUME NEW x \in Slots PROVE HandlerInv(x)'
  <2>1. handler'[x] = IF x = h THEN a ELSE handler[x]
    BY <1>2 DEF IInv, TypeOK
  <2>2. HandlerInv(x)
    BY DEF IInv
  <2>3. CASE x = h /\ a # handler[h]
    BY <1>1, <1>2, <2>1, <2>3 DEF HandlerInv, IsCard
  <2>4. CASE x # h \/ a = handler[h]
    BY <1>1, <1>2, <2>1, <2>2, <2>4 DEF HandlerInv, IsCard, Due
  <2> QED
    BY <2>3, <2>4
<1> QED
  BY <1>3, <1>4, <1>5 DEF IInv

LEMMA CreatePaymentIInv ==
    ASSUME IInv, NEW h \in Slots, CreatePayment(h)
    PROVE  IInv'
<1> DEFINE o == handler[h].order
<1>1. handler[h].pc = "create" /\ HandlerInv(h)
  BY DEF CreatePayment, IInv
<1>2. o \in Orders /\ emitted[o] # {}
  BY <1>1 DEF HandlerInv
<1>3. UNCHANGED <<emitted, commands, stripe, forced, snapshot, payment, told, seen, refunds, crashes, history>>
  BY DEF CreatePayment, outside
<1>4. /\ seen' \subseteq Orders \X WebhookEvent /\ refunds' \in [Orders -> 0..RefundCap] /\ crashes' \in 0..MaxCrashes
      /\ skipped' \subseteq Orders \X OrderEvent /\ overlaps' \in [Orders -> 0..MaxOverlaps]
  BY <1>3 DEF IInv, TypeOK, history
<1>5. CASE payment[o] # NoPayment
  <2>1. Leave(h)
    BY <1>5 DEF CreatePayment
  <2> QED
    BY <1>3, <1>4, <2>1, LeaveStep
<1>6. CASE payment[o] = NoPayment
  <2>1. PICK new \in Authorized(o, "first") : Enter(h, o, "insert", new)
    BY <1>6 DEF CreatePayment
  <2>2. new \in Payment /\ new.status \in {"AUTHORIZED", "FAILED"}
    BY <1>2, AuthorizedType DEF Ref
  <2> HIDE DEF o
  <2>3. PICK a \in Handler :
          /\ handler' = [handler EXCEPT ![h] = a]
          /\ a.pc = "insert" /\ a.order = o /\ a.after = "end" /\ a.row = new
          /\ a.update.status = "same"
    BY <1>2, <2>1, <2>2, EnterType
  <2> QED
    BY <1>2, <1>3, <1>4, <2>2, <2>3, HandlerStep
<1> QED
  BY <1>5, <1>6

LEMMA InsertPaymentIInv ==
    ASSUME IInv, NEW h \in Slots, InsertPayment(h)
    PROVE  IInv'
<1> DEFINE o == handler[h].order
<1>1. handler[h].pc = "insert" /\ HandlerInv(h)
  BY DEF InsertPayment, IInv
<1>2. o \in Orders /\ emitted[o] # {} /\ handler[h].row.status \in {"AUTHORIZED", "FAILED"}
  BY <1>1 DEF HandlerInv
<1>3. handler[h].row \in Payment
  BY DEF IInv, TypeOK, Handler
<1>4. /\ handler' = [handler EXCEPT ![h] = Idle]
      /\ UNCHANGED <<emitted, commands, stripe, forced, snapshot, told, seen, refunds, crashes, overlaps>>
      /\ skipped' \subseteq skipped
  BY DEF InsertPayment, outside, Leave
<1>5. payment' = payment \/ payment' = [payment EXCEPT ![o] = handler[h].row]
  BY DEF InsertPayment
<1>6. TypeOK'
  BY <1>2, <1>3, <1>4, <1>5, IdleType DEF IInv, TypeOK
<1>7. ASSUME NEW x \in Orders PROVE OrderInv(x)'
  <2>1. payment'[x] = payment[x] \/ (x = o /\ payment'[x].status \in {"AUTHORIZED", "FAILED"})
    BY <1>2, <1>5 DEF IInv, TypeOK
  <2>2. OrderInv(x)
    BY DEF IInv
  <2> QED
    BY <1>2, <1>4, <2>1, <2>2 DEF OrderInv, IsCard, Due
<1>8. ASSUME NEW x \in Slots PROVE HandlerInv(x)'
  <2>1. handler'[x] = IF x = h THEN Idle ELSE handler[x]
    BY <1>4 DEF IInv, TypeOK
  <2>2. CASE x = h
    BY <2>1, <2>2 DEF HandlerInv, Idle, NoUpdate
  <2>3. CASE x # h
    BY <1>4, <2>1, <2>3 DEF IInv, HandlerInv, IsCard, Due
  <2> QED
    BY <2>2, <2>3
<1> QED
  BY <1>6, <1>7, <1>8 DEF IInv

\* A handler that decides on a row: what it is to commit or tell has to be sound
\* when it decides, for Stripe never takes a charge back.
LEMMA DecideStep ==
    ASSUME IInv, NEW h \in Slots, NEW o \in Orders, NEW pc \in {"provider", "commit"},
           NEW after \in {"end", "url", "tell"}, NEW new \in Payment,
           new.status # Absent \/ new.status = payment[o].status,
           Decide(h, o, pc, new, after),
           UNCHANGED <<emitted, commands, snapshot, payment, told, stripe, forced, refunds, crashes, history>>,
           seen' \subseteq Orders \X WebhookEvent,
           emitted[o] # {},
           after = "tell" => stripe[o] \in Charged,
           new.status = "SUCCEEDED" /\ IsCard(o) => Due(o)
    PROVE  IInv'
<1>1. TypeOK
  BY DEF IInv
<1>2. PICK a \in Handler :
        /\ handler' = [handler EXCEPT ![h] = a]
        /\ a.pc = pc /\ a.order = o /\ a.after = after
        /\ a.update.status \in {"same", new.status}
  BY <1>1, DecideType
<1>3. /\ refunds' \in [Orders -> 0..RefundCap] /\ crashes' \in 0..MaxCrashes
      /\ skipped' \subseteq Orders \X OrderEvent /\ overlaps' \in [Orders -> 0..MaxOverlaps]
  BY <1>1 DEF TypeOK, history
<1> QED
  BY <1>2, <1>3, HandlerStep

\* ... and so with a command, which settles only what is due.
LEMMA CarryStep ==
    ASSUME IInv, NEW h \in Slots, NEW o \in Orders, NEW pc \in {"provider", "commit"},
           NEW new \in Payment, new.status # Absent, Carry(h, o, pc, new),
           UNCHANGED <<outside, snapshot, payment, told, seen, refunds, crashes, skipped>>,
           commands[o] # {}
    PROVE  IInv'
<1>1. TypeOK /\ OrderInv(o) /\ payment[o] \in Payment
  BY DEF IInv, TypeOK
<1>2. PICK a \in Handler :
        /\ handler' = [handler EXCEPT ![h] = a]
        /\ a.pc = pc /\ a.order = o /\ a.after = "end"
        /\ a.update = Changes(payment[o], new)
  BY <1>1, CarryType
<1>3. /\ refunds' \in [Orders -> 0..RefundCap] /\ crashes' \in 0..MaxCrashes
      /\ skipped' \subseteq Orders \X OrderEvent /\ overlaps' \in [Orders -> 0..MaxOverlaps]
      /\ seen' \subseteq Orders \X WebhookEvent
  BY <1>1, CarryType DEF TypeOK
<1>4. emitted[o] # {} /\ (IsCard(o) => Due(o))
  BY <1>1 DEF OrderInv
<1> QED
  BY <1>2, <1>3, <1>4, HandlerStep DEF outside

LEMMA CommandIInv ==
    ASSUME IInv, NEW h \in Slots, NEW o \in Orders, CapturePayment(h, o) \/ RefundPayment(h, o)
    PROVE  IInv'
<1>1. TypeOK
  BY DEF IInv
<1>2. /\ With(o, "SUCCEEDED") \in Payment /\ With(o, "SUCCEEDED").status # Absent
      /\ With(o, "REFUNDED") \in Payment /\ With(o, "REFUNDED").status # Absent
  BY <1>1, WithType, AbsentAssumption DEF PaymentTxStatus
<1>3. CASE CapturePayment(h, o)
  BY <1>2, <1>3, CarryStep DEF CapturePayment
<1>4. CASE RefundPayment(h, o)
  BY <1>2, <1>4, CarryStep DEF RefundPayment
<1> QED
  BY <1>3, <1>4

LEMMA CallRefundIInv ==
    ASSUME IInv, NEW h \in Slots, CallRefund(h)
    PROVE  IInv'
<1> DEFINE a == [handler[h] EXCEPT !.pc = "commit"]
<1>1. handler[h].pc = "provider" /\ HandlerInv(h) /\ handler[h] \in Handler
  BY DEF CallRefund, IInv, TypeOK
<1>2. /\ a \in Handler /\ a.pc = "commit" /\ a.order = handler[h].order
      /\ a.after = handler[h].after /\ a.update = handler[h].update
  BY <1>1 DEF Handler
<1>3. handler' = [handler EXCEPT ![h] = a]
  BY DEF CallRefund
<1>4. /\ UNCHANGED <<emitted, commands, snapshot, payment, told, stripe, forced>>
      /\ seen' \subseteq Orders \X WebhookEvent /\ crashes' \in 0..MaxCrashes
      /\ skipped' \subseteq Orders \X OrderEvent /\ overlaps' \in [Orders -> 0..MaxOverlaps]
  BY DEF CallRefund, outside, IInv, TypeOK, history
<1>5. refunds' \in [Orders -> 0..RefundCap]
  <2> DEFINE o == handler[h].order
  <2>1. o \in Orders
    BY <1>1 DEF HandlerInv
  <2>2. \/ refunds' = refunds
        \/ refunds[o] # RefundCap /\ refunds' = [refunds EXCEPT ![o] = refunds[o] + 1]
    BY DEF CallRefund
  <2>3. refunds \in [Orders -> 0..RefundCap] /\ RefundCap \in Nat
    BY BoundsAssumption DEF IInv, TypeOK, RefundCap
  <2> HIDE DEF o
  <2> QED
    BY <2>1, <2>2, <2>3
<1>6. /\ a.order \in Orders /\ emitted[a.order] # {}
      /\ a.after = "tell" => stripe[a.order] \in Charged
      /\ a.update.status = "SUCCEEDED" /\ IsCard(a.order) => Due(a.order)
  BY <1>1, <1>2 DEF HandlerInv
<1> HIDE DEF a
<1> QED
  BY <1>2, <1>3, <1>4, <1>5, <1>6, HandlerStep

LEMMA ResumePaymentIInv ==
    ASSUME IInv, NEW h \in Slots, NEW o \in Orders, ResumePayment(h, o)
    PROVE  IInv'
<1>1. TypeOK /\ OrderInv(o)
  BY DEF IInv
<1>2. PICK new \in Authorized(o, "session") :
        Decide(h, o, "commit", new, IF new.ref = "session" THEN "url" ELSE "end")
  BY DEF ResumePayment
<1>3. new \in Payment /\ new.status \in {"AUTHORIZED", "FAILED"}
  BY AuthorizedType DEF Ref
<1>4. /\ UNCHANGED <<emitted, commands, snapshot, payment, told, stripe, forced, seen, refunds, crashes, history>>
      /\ seen' \subseteq Orders \X WebhookEvent
      /\ emitted[o] # {}
  BY <1>1 DEF ResumePayment, outside, TypeOK, IsCard
<1>5. PICK after \in {"end", "url", "tell"} :
        after # "tell" /\ Decide(h, o, "commit", new, after)
  BY <1>2
<1> QED
  BY <1>3, <1>4, <1>5, AbsentAssumption, DecideStep DEF PaymentTxStatus

LEMMA RetryPaymentIInv ==
    ASSUME IInv, NEW h \in Slots, NEW o \in Orders, RetryPayment(h, o)
    PROVE  IInv'
<1>1. TypeOK /\ OrderInv(o)
  BY DEF IInv
<1>2. PICK new \in Authorized(o, "retry") : Decide(h, o, "commit", new, "end")
  BY DEF RetryPayment
<1>3. new \in Payment /\ new.status \in {"AUTHORIZED", "FAILED"}
  BY AuthorizedType DEF Ref
<1>4. /\ UNCHANGED <<emitted, commands, snapshot, payment, told, stripe, forced, seen, refunds, crashes, history>>
      /\ seen' \subseteq Orders \X WebhookEvent
  BY <1>1 DEF RetryPayment, outside, TypeOK
<1>5. emitted[o] # {}
  BY <1>1, AbsentAssumption DEF RetryPayment, OrderInv, NoPayment, PaymentTxStatus
<1> QED
  BY <1>2, <1>3, <1>4, <1>5, AbsentAssumption, DecideStep DEF PaymentTxStatus

LEMMA ConfirmPaymentIInv ==
    ASSUME IInv, NEW h \in Slots, NEW o \in Orders, ConfirmPayment(h, o)
    PROVE  IInv'
<1>1. payment[o] \in Payment
  BY DEF IInv, TypeOK
<1>2. PICK a \in Handler :
        /\ handler' = [handler EXCEPT ![h] = a]
        /\ a.pc = "verify" /\ a.order = o /\ a.after = "end" /\ a.update.status = "same"
  BY <1>1, EnterType DEF ConfirmPayment
<1>3. UNCHANGED <<emitted, commands, snapshot, payment, told, stripe, forced, seen, refunds, crashes, history>>
  BY DEF ConfirmPayment, outside
<1>4. /\ seen' \subseteq Orders \X WebhookEvent /\ refunds' \in [Orders -> 0..RefundCap]
      /\ crashes' \in 0..MaxCrashes
      /\ skipped' \subseteq Orders \X OrderEvent /\ overlaps' \in [Orders -> 0..MaxOverlaps]
  BY <1>3 DEF IInv, TypeOK, history
<1>5. emitted[o] # {}
  BY DEF ConfirmPayment, IsCard
<1> QED
  BY <1>2, <1>3, <1>4, <1>5, HandlerStep

LEMMA VerifyIInv ==
    ASSUME IInv, NEW h \in Slots, Verify(h)
    PROVE  IInv'
<1> DEFINE o == handler[h].order
<1>1. handler[h].pc = "verify" /\ HandlerInv(h) /\ handler[h] \in Handler
  BY DEF Verify, IInv, TypeOK
<1>2. UNCHANGED <<emitted, commands, snapshot, payment, told, stripe, forced, seen, refunds, crashes, history>>
  BY DEF Verify, outside
<1>3. /\ seen' \subseteq Orders \X WebhookEvent /\ refunds' \in [Orders -> 0..RefundCap]
      /\ crashes' \in 0..MaxCrashes
      /\ skipped' \subseteq Orders \X OrderEvent /\ overlaps' \in [Orders -> 0..MaxOverlaps]
  BY <1>2 DEF IInv, TypeOK, history
<1> DEFINE a == [handler[h] EXCEPT !.pc = "commit", !.row = NoPayment, !.after = "tell",
                                   !.update = Changes(handler[h].row, Collected)]
<1>4. CASE stripe[o] \in Charged /\ handler' = [handler EXCEPT ![h] = a]
  <2>1. Collected \in Payment /\ Collected.status # Absent
    BY AbsentAssumption DEF Collected, Payment, PaymentTxStatus, Ref
  <2>2. Changes(handler[h].row, Collected) \in Update
    BY <1>1, <2>1, ChangesType DEF Handler
  <2>3. a \in Handler /\ a.pc = "commit" /\ a.order = o
    BY <1>1, <2>2, IdleType DEF Handler
  <2>4. a.order \in Orders /\ emitted[a.order] # {} /\ stripe[a.order] \in Charged /\ Due(a.order)
    BY <1>1, <1>4, <2>3 DEF HandlerInv, Due
  <2>5. handler' = [handler EXCEPT ![h] = a]
    BY <1>4
  <2> HIDE DEF a
  <2> QED
    BY <1>2, <1>3, <2>3, <2>4, <2>5, HandlerStep
<1>5. CASE Leave(h)
  BY <1>2, <1>3, <1>5, LeaveStep
<1>6. (stripe[o] \in Charged /\ handler' = [handler EXCEPT ![h] = a]) \/ Leave(h)
  BY DEF Verify
<1> QED
  BY <1>4, <1>5, <1>6

LEMMA ReceiveWebhookIInv ==
    ASSUME IInv, NEW h \in Slots, NEW o \in Orders, NEW e \in WebhookEvent, ReceiveWebhook(h, o, e)
    PROVE  IInv'
<1>1. TypeOK /\ OrderInv(o) /\ payment[o] \in Payment /\ stripe[o] \in Stripe
  BY DEF IInv, TypeOK
<1>2. /\ UNCHANGED <<emitted, commands, snapshot, payment, told, stripe, forced, refunds, crashes, history>>
      /\ seen' \subseteq Orders \X WebhookEvent
  BY <1>1 DEF ReceiveWebhook, outside, TypeOK
<1>3. CASE ~Matches(o, e)
  <2>1. /\ UNCHANGED handler
        /\ refunds' \in [Orders -> 0..RefundCap] /\ crashes' \in 0..MaxCrashes
        /\ skipped' \subseteq Orders \X OrderEvent /\ overlaps' \in [Orders -> 0..MaxOverlaps]
    BY <1>1, <1>2, <1>3 DEF ReceiveWebhook, TypeOK, history
  <2>2. handler[h] \in Handler /\ handler' = [handler EXCEPT ![h] = handler[h]] /\ HandlerInv(h)
    BY <2>1 DEF IInv, TypeOK
  <2> DEFINE a == handler[h]
  <2>3. /\ a.pc # "idle" => a.order \in Orders /\ emitted[a.order] # {}
        /\ a.pc = "idle" => a = Idle
        /\ a.pc = "insert" => a.row.status \in {"AUTHORIZED", "FAILED"}
        /\ a.pc = "tell" \/ a.after = "tell" => stripe[a.order] \in Charged
        /\ a.update.status = "SUCCEEDED" /\ IsCard(a.order) => Due(a.order)
    BY <2>2 DEF HandlerInv
  <2>4. a \in Handler /\ handler' = [handler EXCEPT ![h] = a]
    BY <2>2
  <2> HIDE DEF a
  <2> QED
    BY <1>2, <2>1, <2>3, <2>4, HandlerStep
<1>4. CASE Matches(o, e)
  <2> DEFINE new == EventWrites(o, e)
             after == EventTells(e)
  <2>1. Decide(h, o, "commit", new, after)
    BY <1>4 DEF ReceiveWebhook
  <2>2. emitted[o] # {}
    BY <1>1, <1>4 DEF Matches, OrderInv, NoPayment
  <2>3. after \in {"end", "url", "tell"}
    BY DEF EventTells
  <2>4. /\ new \in Payment
        /\ new.status # Absent \/ new.status = payment[o].status
    BY <1>1, AbsentAssumption, WithType
       DEF EventWrites, WebhookEvent, SettlesIntent, SettlesSession, FailsIntent, FailsSession,
           Collected, Payment, PaymentTxStatus, Ref
  <2>5. e \in {"payment_intent.succeeded", "checkout.completed", "checkout.async_succeeded"}
          => stripe[o] \in Charged
    BY <1>1 DEF ReceiveWebhook, Sent, Stripe, Charged, FailsIntent
  <2>6. after = "tell" => stripe[o] \in Charged
    BY <2>5 DEF EventTells, WebhookEvent, SettlesIntent, SettlesSession, FailsIntent, FailsSession
  <2>7. new.status = "SUCCEEDED" /\ IsCard(o) => Due(o)
    <3>1. CASE e \in FailsIntent \cup FailsSession
      <4>1. new = With(o, "FAILED")
        BY <3>1 DEF EventWrites, SettlesIntent, SettlesSession, FailsIntent, FailsSession
      <4> QED
        BY <1>1, <4>1, WithType DEF PaymentTxStatus
    <3>2. CASE e = "checkout.completed_unpaid"
      <4>1. new = [payment[o] EXCEPT !.ref = "intent"]
        BY <3>2 DEF EventWrites, SettlesIntent, SettlesSession, FailsIntent, FailsSession
      <4> QED
        BY <1>1, <4>1 DEF OrderInv, Payment
    <3> QED
      BY <2>5, <3>1, <3>2 DEF Due, WebhookEvent, SettlesIntent, SettlesSession, FailsIntent, FailsSession
  <2> HIDE DEF new, after
  <2> QED
    BY <1>2, <2>1, <2>2, <2>3, <2>4, <2>6, <2>7, DecideStep
<1> QED
  BY <1>3, <1>4

\* The commit writes what was sound when it was decided, over whatever the row
\* has become since.
LEMMA CommitPaymentIInv ==
    ASSUME IInv, NEW h \in Slots, CommitPayment(h)
    PROVE  IInv'
<1> DEFINE o == handler[h].order
           upd == handler[h].update
<1>1. handler[h].pc = "commit" /\ HandlerInv(h) /\ handler[h] \in Handler
  BY DEF CommitPayment, IInv, TypeOK
<1>2. /\ o \in Orders /\ emitted[o] # {}
      /\ upd \in Update
      /\ handler[h].after = "tell" => stripe[o] \in Charged
      /\ upd.status = "SUCCEEDED" /\ IsCard(o) => Due(o)
  BY <1>1 DEF HandlerInv, Handler
<1>3. /\ payment' = [payment EXCEPT ![o] = Written(payment[o], upd)]
      /\ UNCHANGED <<emitted, commands, forced, snapshot, told, seen, refunds, crashes, history>>
  BY DEF CommitPayment
<1>4. stripe' = stripe \/ (stripe[o] = "none" /\ stripe' = [stripe EXCEPT ![o] = "open"])
  BY DEF CommitPayment
<1>5. PICK a \in Handler :
        /\ handler' = [handler EXCEPT ![h] = a]
        /\ a.update.status = "same" /\ a.after = "end"
        /\ \/ a = Idle
           \/ a.pc = "tell" /\ a.order = o /\ stripe[o] \in Charged
  <2>1. CASE handler[h].after = "tell"
    <3>1. Enter(h, o, "tell", NoPayment)
      BY <2>1 DEF CommitPayment
    <3> HIDE DEF o
    <3> QED
      BY <1>2, <2>1, <3>1, IdleType, EnterType
  <2>2. CASE handler[h].after # "tell"
    BY <2>2, IdleType DEF CommitPayment, Leave, Idle, NoUpdate
  <2> QED
    BY <2>1, <2>2
<1> HIDE DEF o, upd
<1>6. \A x \in Orders : stripe[x] \in Charged => stripe'[x] \in Charged
  BY <1>2, <1>4 DEF IInv, TypeOK, Charged
<1>7. payment[o] \in Payment /\ OrderInv(o)
  BY <1>2 DEF IInv, TypeOK
<1>8. /\ Written(payment[o], upd) \in Payment
      /\ Written(payment[o], upd).status = IF upd.status # "same" THEN upd.status ELSE payment[o].status
  BY <1>2, <1>7, WrittenType
<1>9. TypeOK'
  BY <1>2, <1>3, <1>4, <1>5, <1>8 DEF IInv, TypeOK, Stripe, history
<1>10. ASSUME NEW x \in Orders PROVE OrderInv(x)'
  <2>1. OrderInv(x)
    BY DEF IInv
  <2>2. CASE x = o
    <3>1. payment'[x] = Written(payment[o], upd)
      BY <1>2, <1>3, <2>2 DEF IInv, TypeOK
    <3>2. IsCard(x)' <=> IsCard(x)
      BY <1>3 DEF IsCard
    <3>3. payment'[x].status = "SUCCEEDED" /\ IsCard(x) => Due(x)
      BY <1>2, <1>8, <2>1, <2>2, <3>1 DEF OrderInv
    <3> QED
      BY <1>2, <1>3, <1>6, <2>1, <2>2, <3>2, <3>3 DEF OrderInv, Due
  <2>3. CASE x # o
    <3>1. payment'[x] = payment[x]
      BY <1>2, <1>3, <2>3 DEF IInv, TypeOK
    <3> QED
      BY <1>3, <1>6, <2>1, <3>1 DEF OrderInv, IsCard, Due
  <2> QED
    BY <2>2, <2>3
<1>11. ASSUME NEW x \in Slots PROVE HandlerInv(x)'
  <2>1. handler'[x] = IF x = h THEN a ELSE handler[x]
    BY <1>5 DEF IInv, TypeOK
  <2>2. CASE x = h
    BY <1>2, <1>3, <1>5, <1>6, <2>1, <2>2 DEF HandlerInv, Idle, IsCard
  <2>3. CASE x # h
    <3>1. HandlerInv(x)
      BY DEF IInv
    <3>2. CASE handler[x].pc = "idle"
      BY <2>1, <2>3, <3>1, <3>2 DEF HandlerInv, Idle, NoUpdate
    <3>3. CASE handler[x].pc # "idle"
      BY <1>3, <1>6, <2>1, <2>3, <3>1, <3>3 DEF HandlerInv, IsCard, Due
    <3> QED
      BY <3>2, <3>3
  <2> QED
    BY <2>2, <2>3
<1> QED
  BY <1>9, <1>10, <1>11 DEF IInv

LEMMA TellOrdersIInv ==
    ASSUME IInv, NEW h \in Slots, TellOrders(h)
    PROVE  IInv'
<1> DEFINE o == handler[h].order
<1>1. handler[h].pc = "tell" /\ HandlerInv(h)
  BY DEF TellOrders, IInv
<1>2. o \in Orders /\ stripe[o] \in Charged
  BY <1>1 DEF HandlerInv
<1>3. /\ told' = [told EXCEPT ![o] = TRUE]
      /\ handler' = [handler EXCEPT ![h] = Idle]
      /\ UNCHANGED <<emitted, commands, stripe, forced, snapshot, payment, seen, refunds, crashes, history>>
  BY DEF TellOrders, Leave, outside
<1> HIDE DEF o
<1>4. TypeOK'
  BY <1>2, <1>3, IdleType DEF IInv, TypeOK, history
<1>5. ASSUME NEW x \in Orders PROVE OrderInv(x)'
  <2>1. told'[x] => told[x] \/ x = o
    BY <1>2, <1>3 DEF IInv, TypeOK
  <2>2. OrderInv(x)
    BY DEF IInv
  <2> QED
    BY <1>2, <1>3, <2>1, <2>2 DEF OrderInv, IsCard, Due
<1>6. ASSUME NEW x \in Slots PROVE HandlerInv(x)'
  <2>1. handler'[x] = IF x = h THEN Idle ELSE handler[x]
    BY <1>3 DEF IInv, TypeOK
  <2>2. HandlerInv(x)
    BY DEF IInv
  <2>3. CASE x = h
    BY <2>1, <2>3 DEF HandlerInv, Idle, NoUpdate
  <2>4. CASE x # h
    BY <1>3, <2>1, <2>2, <2>4 DEF HandlerInv, IsCard, Due
  <2> QED
    BY <2>3, <2>4
<1> QED
  BY <1>4, <1>5, <1>6 DEF IInv

LEMMA CrashIInv ==
    ASSUME IInv, NEW h \in Slots, Crash(h)
    PROVE  IInv'
<1>1. crashes' \in 0..MaxCrashes
  BY BoundsAssumption DEF Crash, IInv, TypeOK
<1>2. UNCHANGED <<emitted, commands, snapshot, payment, told, stripe, forced, seen, refunds, history>>
  BY DEF Crash, outside
<1> QED
  BY <1>1, <1>2, LeaveStep DEF Crash

LEMMA SkipOrderEventIInv ==
    ASSUME IInv, NEW o \in Orders, NEW s \in OrderEvent, SkipOrderEvent(o, s)
    PROVE  IInv'
<1>1. /\ UNCHANGED <<emitted, commands, stripe, forced, snapshot, payment, told, seen, refunds, handler, crashes, overlaps>>
      /\ skipped' = skipped \cup {<<o, s>>}
  BY DEF SkipOrderEvent, outside
<1> QED
  BY <1>1 DEF IInv, TypeOK, OrderInv, HandlerInv, IsCard, Due

-----------------------------------------------------------------------------
(* The theorems.                                                           *)

LEMMA NextIInv == IInv /\ [Next]_vars => IInv'
<1> SUFFICES ASSUME IInv, [Next]_vars PROVE IInv'
  OBVIOUS
<1>1. ASSUME NEW o \in Orders, PlaceOrder(o) \/ OrderPaid(o) \/ OrderMovesOn(o) \/ Pay(o)
      PROVE  IInv'
  BY <1>1, OutsideStep
<1>2. ASSUME NEW h \in Slots, NEW o \in Orders, Consume(h, o)
      PROVE  IInv'
  BY <1>2, ApplyOrderEventIInv, CommandIInv DEF Consume
<1>3. ASSUME NEW h \in Slots, NEW o \in Orders, Serve(h, o)
      PROVE  IInv'
  BY <1>3, ResumePaymentIInv, RetryPaymentIInv, ConfirmPaymentIInv, ReceiveWebhookIInv DEF Serve
<1>4. ASSUME NEW h \in Slots, Proceed(h) \/ Crash(h)
      PROVE  IInv'
  BY <1>4, CreatePaymentIInv, InsertPaymentIInv, CallRefundIInv, VerifyIInv, CommitPaymentIInv,
     TellOrdersIInv, CrashIInv DEF Proceed
<1>5. CASE UNCHANGED vars
  BY <1>5 DEF vars, IInv, TypeOK, OrderInv, HandlerInv, IsCard, Due
<1> QED
  BY <1>1, <1>2, <1>3, <1>4, <1>5, SkipOrderEventIInv DEF Next

\* The inductive invariant of the payments service.
THEOREM Invariance == Spec => []IInv
BY InitIInv, NextIInv, PTL DEF Spec

\* Rows, copies, outbox and handlers only ever hold the values the columns and
\* the code allow; no handler outruns the order it works on.
THEOREM TypeCorrect == Spec => []TypeOK
<1>1. IInv => TypeOK
  BY DEF IInv
<1> QED
  BY <1>1, Invariance, PTL

\* Nothing is booked as collected from a card Stripe did not charge, however
\* many webhook calls, confirmations, commands and crashes overlap: unless
\* somebody put the order to PAYMENT_SUCCESS by hand through /status.
THEOREM CollectedIsCharged == Spec => []NothingCollectedUnpaid
<1>1. IInv => NothingCollectedUnpaid
  BY DEF IInv, OrderInv, NothingCollectedUnpaid, Due
<1> QED
  BY <1>1, Invariance, PTL

\* The orders service is never told of a payment Stripe has not taken.
THEOREM ToldIsCharged == Spec => []ToldOnlyIfPaid
<1>1. IInv => ToldOnlyIfPaid
  BY DEF IInv, OrderInv, ToldOnlyIfPaid
<1> QED
  BY <1>1, Invariance, PTL

-----------------------------------------------------------------------------
(* Cash orders: how often the money goes back.                             *)

\* The row of a cash order never names a session or an intent, and is never
\* FAILED: no webhook event finds it, and no retry takes it.
CashRow(o) ==
    payment[o].ref = "none" /\ payment[o].status \in {Absent, "AUTHORIZED", "SUCCEEDED", "REFUNDED"}

\* A handler's record, if it works on a cash order.
CashRecord(a) ==
    a.pc # "idle" /\ ~IsCard(a.order) =>
        /\ a.pc \in {"create", "insert", "provider", "commit"} /\ a.after = "end"
        /\ a.pc = "insert" => a.row = [status |-> "AUTHORIZED", ref |-> "none"]
        /\ a.pc \in {"create", "insert"} => a.began = "none"
        /\ a.pc \in {"provider", "commit"} =>
              /\ a.began # "none" /\ a.update.ref = "same"
              /\ payment[a.order].status # Absent
        /\ a.pc = "provider" => a.update.status = "REFUNDED"
        /\ a.pc = "commit" => a.update.status \in {"SUCCEEDED", "REFUNDED"}

\* What may still give money back: a refund on its way to the provider, and a
\* settle begun beside another command, which may overwrite REFUNDED.
Owes(a, o) ==
    /\ a.order = o
    /\ \/ a.pc = "provider"
       \/ a.began = "beside" /\ a.update.status = "SUCCEEDED"

Owing(o) == {h \in Slots : Owes(handler[h], o)}

Spent(o) == refunds[o] + Cardinality(Owing(o))
Budget(o) == crashes + overlaps[o]

\* Is a command at work that began alone and is to write that status?
First(o, status) ==
    \E h \in Slots : handler[h].began = "alone" /\ handler[h].order = o /\ handler[h].update.status = status

\* One refund is free; it is spent while the row says REFUNDED, or is about to,
\* except that a settle begun alone may still take that back.
CashCount(o) ==
    /\ Spent(o) <= Budget(o) + 1
    /\ \/ payment[o].status # "REFUNDED" /\ ~First(o, "REFUNDED")
       \/ First(o, "SUCCEEDED")
       => Spent(o) <= Budget(o)

Works(h, o) == handler[h].began # "none" /\ handler[h].order = o

\* Without overlaps there is at most one command at work, on a row that has not
\* been refunded.
CashSolo(o) ==
    overlaps[o] = 0 =>
        /\ \A x, y \in Slots : Works(x, o) /\ Works(y, o) => x = y
        /\ AtWork(o) => payment[o].status # "REFUNDED"

CashOrder(o) == CashRow(o) /\ CashCount(o) /\ CashSolo(o)

CashInv ==
    /\ \A o \in Orders : ~IsCard(o) => CashOrder(o)
    /\ \A h \in Slots : CashRecord(handler[h])

LEMMA SlotsFinite == IsFiniteSet(Slots)
BY SlotsAssumption, FS_Union DEF Slots

LEMMA OwingNat ==
    ASSUME NEW o
    PROVE  IsFiniteSet(Owing(o)) /\ Cardinality(Owing(o)) \in Nat
<1>1. IsFiniteSet(Owing(o))
  BY SlotsFinite, FS_Subset DEF Owing
<1> QED
  BY <1>1, FS_CardinalityType

\* How the count moves with one handler's record.
LEMMA OwingStep ==
    ASSUME IInv, NEW h \in Slots, NEW a, handler' = [handler EXCEPT ![h] = a], NEW o
    PROVE  /\ Cardinality(Owing(o)) \in Nat /\ Cardinality(Owing(o)') \in Nat
           /\ (Owes(a, o) <=> Owes(handler[h], o)) => Cardinality(Owing(o)') = Cardinality(Owing(o))
           /\ Owes(a, o) /\ ~Owes(handler[h], o) => Cardinality(Owing(o)') = Cardinality(Owing(o)) + 1
           /\ ~Owes(a, o) /\ Owes(handler[h], o) => Cardinality(Owing(o)') = Cardinality(Owing(o)) - 1
<1>1. \A x \in Slots : handler'[x] = IF x = h THEN a ELSE handler[x]
  BY DEF IInv, TypeOK
<1>2. IsFiniteSet(Owing(o)) /\ Cardinality(Owing(o)) \in Nat
  BY OwingNat
<1>3. Owing(o)' = {x \in Slots : Owes(handler'[x], o)}
  BY DEF Owing, Owes
<1>4. CASE Owes(a, o) <=> Owes(handler[h], o)
  <2>1. Owing(o)' = Owing(o)
    BY <1>1, <1>3, <1>4 DEF Owing
  <2> QED
    BY <1>2, <1>4, <2>1
<1>5. CASE Owes(a, o) /\ ~Owes(handler[h], o)
  <2>1. Owing(o)' = Owing(o) \cup {h} /\ h \notin Owing(o)
    BY <1>1, <1>3, <1>5 DEF Owing
  <2>2. Cardinality(Owing(o)') = Cardinality(Owing(o)) + 1
    BY <1>2, <2>1, FS_AddElement
  <2> QED
    BY <1>2, <1>5, <2>2
<1>6. CASE ~Owes(a, o) /\ Owes(handler[h], o)
  <2>1. Owing(o)' = Owing(o) \ {h} /\ h \in Owing(o)
    BY <1>1, <1>3, <1>6 DEF Owing
  <2>2. Cardinality(Owing(o)') = Cardinality(Owing(o)) - 1 /\ Cardinality(Owing(o)') \in Nat
    BY <1>2, <2>1, FS_RemoveElement, FS_CardinalityType
  <2> QED
    BY <1>2, <1>6, <2>2
<1> QED
  BY <1>4, <1>5, <1>6

\* A step of one handler concerns the order it works on alone.
LEMMA CashStep ==
    ASSUME IInv, CashInv, NEW h \in Slots, NEW a, handler' = [handler EXCEPT ![h] = a],
           NEW o \in Orders, UNCHANGED emitted,
           handler[h] = Idle \/ handler[h].order = o, a = Idle \/ a.order = o,
           \A x \in Orders : x # o => /\ payment'[x] = payment[x] /\ refunds'[x] = refunds[x]
                                      /\ overlaps'[x] = overlaps[x],
           crashes' >= crashes, crashes' \in Nat,
           ~IsCard(o) => CashOrder(o)' /\ (payment[o].status # Absent => payment'[o].status # Absent),
           CashRecord(a)'
    PROVE  CashInv'
<1>1. \A x \in Slots : handler'[x] = IF x = h THEN a ELSE handler[x]
  BY DEF IInv, TypeOK
<1>2. \A x : IsCard(x)' <=> IsCard(x)
  BY DEF IsCard
<1>3. ASSUME NEW x \in Orders, x # o, ~IsCard(x) PROVE CashOrder(x)'
  <2>1. CashRow(x) /\ CashCount(x) /\ CashSolo(x)
    BY <1>3 DEF CashInv, CashOrder
  <2>2. /\ x # Absent /\ crashes \in Nat /\ refunds[x] \in Nat /\ overlaps[x] \in Nat
    BY <1>3, AbsentAssumption, BoundsAssumption DEF IInv, TypeOK, RefundCap
  <2>3. ~Owes(a, x) /\ ~Owes(handler[h], x)
    BY <1>3, <2>2 DEF Owes, Idle
  <2>4. Cardinality(Owing(x)') = Cardinality(Owing(x)) /\ Cardinality(Owing(x)) \in Nat
    BY <2>3, OwingStep
  <2>5. \A y \in Slots : handler'[y].order = x <=> handler[y].order = x
    BY <1>1, <1>3, <2>2 DEF Idle
  <2>6. \A y \in Slots : handler[y].order = x => handler'[y] = handler[y]
    BY <1>1, <1>3, <2>2 DEF Idle
  <2>7. /\ \A s : First(x, s)' <=> First(x, s)
        /\ AtWork(x)' <=> AtWork(x)
    BY <2>5, <2>6 DEF First, AtWork
  <2>8. CashRow(x)'
    BY <1>3, <2>1 DEF CashRow
  <2>9. CashCount(x)'
    BY <1>3, <2>1, <2>2, <2>4, <2>7 DEF CashCount, Spent, Budget
  <2>10. CashSolo(x)'
    BY <1>3, <2>1, <2>5, <2>6, <2>7 DEF CashSolo, Works
  <2> QED
    BY <2>8, <2>9, <2>10 DEF CashOrder
<1>4. ASSUME NEW y \in Slots PROVE CashRecord(handler[y])'
  <2>1. CASE y = h
    BY <1>1, <2>1 DEF CashRecord
  <2>2. CASE y # h
    <3>1. CashRecord(handler[y]) /\ handler'[y] = handler[y]
      BY <1>1, <2>2 DEF CashInv
    <3>2. handler[y].pc # "idle" => handler[y].order \in Orders
      BY DEF IInv, HandlerInv
    <3> QED
      BY <1>2, <3>1, <3>2 DEF CashRecord
  <2> QED
    BY <2>1, <2>2
<1> QED
  BY <1>2, <1>3, <1>4 DEF CashInv

\* A handler that works on a card order, or ends such work, says nothing of cash.
LEMMA CashCard ==
    ASSUME IInv, CashInv, NEW h \in Slots, NEW a, handler' = [handler EXCEPT ![h] = a],
           NEW o \in Orders, IsCard(o), UNCHANGED emitted,
           handler[h] = Idle \/ handler[h].order = o, a = Idle \/ a.order = o,
           \A x \in Orders : x # o => /\ payment'[x] = payment[x] /\ refunds'[x] = refunds[x]
                                      /\ overlaps'[x] = overlaps[x],
           crashes' >= crashes, crashes' \in Nat
    PROVE  CashInv'
<1>1. CashRecord(a)'
  <2>1. IsCard(o)'
    BY DEF IsCard
  <2>2. Idle.pc = "idle"
    BY DEF Idle
  <2> QED
    BY <2>1, <2>2 DEF CashRecord
<1> QED
  BY <1>1, CashStep

\* A step of a handler that carries no command, before and after: at most it
\* inserts the row.
LEMMA CashPlain ==
    ASSUME IInv, CashInv, NEW h \in Slots, NEW a, handler' = [handler EXCEPT ![h] = a],
           NEW o \in Orders, UNCHANGED <<emitted, refunds, overlaps, crashes>>,
           handler[h] = Idle \/ handler[h].order = o, a = Idle \/ a.order = o,
           handler[h].began = "none", handler[h].pc # "provider",
           a.began = "none", a.pc # "provider",
           \A x \in Orders : x # o => payment'[x] = payment[x],
           \/ payment'[o] = payment[o]
           \/ payment[o].status = Absent /\ payment'[o] = [status |-> "AUTHORIZED", ref |-> "none"],
           ~IsCard(o) => CashRecord(a)'
    PROVE  CashInv'
<1>1. \A x \in Slots : handler'[x] = IF x = h THEN a ELSE handler[x]
  BY DEF IInv, TypeOK
<1>2. crashes \in Nat /\ refunds[o] \in Nat /\ overlaps[o] \in Nat
  BY BoundsAssumption DEF IInv, TypeOK, RefundCap
<1>5. /\ crashes' >= crashes /\ crashes' \in Nat
      /\ \A x \in Orders : x # o => /\ payment'[x] = payment[x] /\ refunds'[x] = refunds[x]
                                 /\ overlaps'[x] = overlaps[x]
  BY <1>2
<1>3. CASE IsCard(o)
  BY <1>3, <1>5, CashCard
<1>4. CASE ~IsCard(o)
  <2>1. CashRow(o) /\ CashCount(o) /\ CashSolo(o)
    BY <1>4 DEF CashInv, CashOrder
  <2>2. Cardinality(Owing(o)') = Cardinality(Owing(o)) /\ Cardinality(Owing(o)) \in Nat
    <3>1. ~Owes(a, o) /\ ~Owes(handler[h], o)
      BY DEF Owes
    <3> QED
      BY <3>1, OwingStep
  <2>3. /\ \A s : First(o, s)' <=> First(o, s)
        /\ AtWork(o)' <=> AtWork(o)
    BY <1>1 DEF First, AtWork
  <2>4. /\ payment[o].status # Absent => payment'[o].status # Absent
        /\ payment'[o].status = "REFUNDED" <=> payment[o].status = "REFUNDED"
    BY AbsentAssumption DEF PaymentTxStatus
  <2>5. CashRow(o)'
    BY <2>1 DEF CashRow
  <2>6. CashCount(o)'
    BY <2>1, <2>2, <2>3, <2>4 DEF CashCount, Spent, Budget
  <2>7. CashSolo(o)'
    BY <1>1, <2>1, <2>3, <2>4 DEF CashSolo, Works
  <2>8. CashOrder(o)' /\ CashRecord(a)'
    BY <1>4, <2>5, <2>6, <2>7 DEF CashOrder
  <2> QED
    BY <1>5, <2>4, <2>8, CashStep
<1> QED
  BY <1>3, <1>4

LEMMA CashOutside ==
    ASSUME IInv, CashInv, NEW o \in Orders,
           PlaceOrder(o) \/ OrderPaid(o) \/ OrderMovesOn(o) \/ Pay(o)
    PROVE  CashInv'
<1>1. UNCHANGED <<payment, refunds, handler, crashes, overlaps>>
  BY DEF PlaceOrder, OrderPaid, OrderMovesOn, Pay, history
<1>2. \A x \in Orders : IsCard(x) => IsCard(x)'
  BY DEF PlaceOrder, OrderPaid, OrderMovesOn, Pay, IsCard, IInv, TypeOK
<1>3. ASSUME NEW x \in Orders, ~IsCard(x)' PROVE CashOrder(x)'
  BY <1>1, <1>2, <1>3 DEF CashInv, CashOrder, CashRow, CashCount, CashSolo, Spent, Budget, Owing, Owes, First, AtWork, Works
<1>4. ASSUME NEW h \in Slots PROVE CashRecord(handler[h])'
  <2>1. handler[h].pc # "idle" => handler[h].order \in Orders
    BY DEF IInv, HandlerInv
  <2> QED
    BY <1>1, <1>2, <2>1 DEF CashInv, CashRecord
<1> QED
  BY <1>3, <1>4 DEF CashInv

\* What a handler enters with, and decides.
LEMMA EnterRecord ==
    ASSUME NEW o, NEW pc, NEW new
    PROVE  LET a == [Idle EXCEPT !.pc = pc, !.order = o, !.row = new] IN
           a.pc = pc /\ a.order = o /\ a.row = new /\ a.after = "end" /\ a.began = "none"
BY DEF Idle

LEMMA DecideRecord ==
    ASSUME NEW o, NEW pc, NEW after, NEW upd
    PROVE  LET a == [Idle EXCEPT !.pc = pc, !.order = o, !.update = upd, !.after = after] IN
           a.pc = pc /\ a.order = o /\ a.update = upd /\ a.after = after
BY DEF Idle

LEMMA IdleRecord ==
    /\ Idle.pc = "idle" /\ Idle.began = "none" /\ CashRecord(Idle) /\ CashRecord(Idle)'
    /\ \A o \in Orders : Idle.order # o
BY AbsentAssumption DEF Idle, CashRecord

LEMMA CashApplyOrderEvent ==
    ASSUME IInv, CashInv, NEW h \in Slots, NEW o \in Orders, NEW s \in OrderEvent, ApplyOrderEvent(h, o, s)
    PROVE  CashInv'
<1>1. handler[h] = Idle /\ UNCHANGED <<emitted, payment, refunds, crashes, overlaps>>
  BY DEF ApplyOrderEvent, outside, history, IInv, HandlerInv
<1>2. CASE s \in PAYABLE_STATUSES
  <2> DEFINE a == [Idle EXCEPT !.pc = "create", !.order = o, !.row = NoPayment]
  <2>1. handler' = [handler EXCEPT ![h] = a]
    BY <1>2 DEF ApplyOrderEvent, Enter
  <2>2. a.pc = "create" /\ a.order = o /\ a.after = "end" /\ a.began = "none"
    BY EnterRecord
  <2> HIDE DEF a
  <2>3. CashRecord(a)'
    BY <2>2 DEF CashRecord
  <2> QED
    BY <1>1, <2>1, <2>2, <2>3, IdleRecord, CashPlain
<1>3. CASE s \notin PAYABLE_STATUSES
  <2>1. handler' = [handler EXCEPT ![h] = Idle]
    BY <1>1, <1>3 DEF ApplyOrderEvent, IInv, TypeOK
  <2> QED
    BY <1>1, <2>1, IdleRecord, CashPlain
<1> QED
  BY <1>2, <1>3

\* A command that begins alone spends the free refund, or is a settle; one that
\* begins beside another pays for what it owes.
LEMMA CashCarry ==
    ASSUME IInv, CashInv, NEW h \in Slots, NEW o \in Orders, handler[h].pc = "idle",
           NEW pc, NEW s, \/ pc = "provider" /\ s = "REFUNDED"
                          \/ pc = "commit" /\ s = "SUCCEEDED",
           Carry(h, o, pc, With(o, s)),
           payment[o].status \in PaymentTxStatus \ {"REFUNDED", s},
           UNCHANGED <<emitted, payment, refunds, crashes>>
    PROVE  CashInv'
<1>1. PICK a \in Handler :
        /\ handler' = [handler EXCEPT ![h] = a]
        /\ a.pc = pc /\ a.order = o /\ a.after = "end"
        /\ a.update = Changes(payment[o], With(o, s))
        /\ a.began = IF IsCard(o) THEN "none" ELSE IF AtWork(o) THEN "beside" ELSE "alone"
  <2>1. With(o, s) \in Payment /\ With(o, s).status = s
    BY WithType DEF IInv, PaymentTxStatus
  <2> QED
    BY <2>1, AbsentAssumption, CarryType DEF IInv, PaymentTxStatus
<1>2. a.update = [status |-> s, ref |-> "same"]
  BY <1>1 DEF Changes, With, IInv, TypeOK, Payment
<1>3. handler[h] = Idle
  BY DEF IInv, HandlerInv
<1>4. /\ AtWork(o) => overlaps' = [overlaps EXCEPT ![o] = overlaps[o] + 1]
      /\ ~AtWork(o) => overlaps' = overlaps
  BY DEF Carry
<1>5. /\ crashes \in Nat /\ refunds[o] \in Nat /\ overlaps[o] \in Nat
      /\ \A x \in Orders : x # o => overlaps'[x] = overlaps[x]
      /\ overlaps'[o] = IF AtWork(o) THEN overlaps[o] + 1 ELSE overlaps[o]
  BY <1>4, BoundsAssumption DEF IInv, TypeOK, RefundCap
<1>9. /\ crashes' >= crashes /\ crashes' \in Nat
      /\ \A x \in Orders : x # o => /\ payment'[x] = payment[x] /\ refunds'[x] = refunds[x]
                                 /\ overlaps'[x] = overlaps[x]
  BY <1>5
<1>6. \A x \in Slots : handler'[x] = IF x = h THEN a ELSE handler[x]
  BY <1>1 DEF IInv, TypeOK
<1>7. CASE ~IsCard(o)
  <2>1. CashRow(o) /\ CashCount(o) /\ CashSolo(o) /\ payment[o].status # Absent
    BY <1>7, AbsentAssumption DEF CashInv, CashOrder
  <2>2. CashRow(o)' /\ AtWork(o)'
    BY <1>1, <1>6, <1>7, <2>1 DEF CashRow, AtWork
  <2>3. ~Owes(handler[h], o)
    BY <1>3, IdleRecord DEF Owes
  <2>4. CASE AtWork(o)
    <3>1. a.began = "beside" /\ Owes(a, o)
      BY <1>1, <1>2, <1>7, <2>4 DEF Owes
    <3>2. Cardinality(Owing(o)') = Cardinality(Owing(o)) + 1 /\ Cardinality(Owing(o)) \in Nat
      BY <1>1, <2>3, <3>1, OwingStep
    <3>3. \A x : First(o, x)' <=> First(o, x)
      BY <1>3, <1>6, <3>1, IdleRecord DEF First
    <3>4. CashCount(o)'
      BY <1>5, <2>1, <2>4, <3>2, <3>3 DEF CashCount, Spent, Budget
    <3>5. CashSolo(o)'
      BY <1>5, <2>4 DEF CashSolo
    <3>6. CashRecord(a)' /\ CashOrder(o)'
      BY <1>1, <1>2, <2>1, <2>2, <3>1, <3>4, <3>5 DEF CashOrder, CashRecord
    <3> QED
      BY <1>1, <1>3, <1>9, <2>1, <3>6, CashStep
  <2>5. CASE ~AtWork(o)
    <3>1. a.began = "alone" /\ (Owes(a, o) <=> pc = "provider")
      BY <1>1, <1>7, <2>5 DEF Owes
    <3>2. /\ pc = "provider" => Cardinality(Owing(o)') = Cardinality(Owing(o)) + 1
          /\ pc # "provider" => Cardinality(Owing(o)') = Cardinality(Owing(o))
          /\ Cardinality(Owing(o)) \in Nat
      <4>1. CASE pc = "provider"
        BY <1>1, <2>3, <3>1, <4>1, OwingStep
      <4>2. CASE pc # "provider"
        BY <1>1, <2>3, <3>1, <4>2, OwingStep
      <4> QED
        BY <4>1, <4>2
    <3>3. \A x : ~First(o, x)
      BY <2>5 DEF First, AtWork
    <3>4. First(o, s)' /\ (s = "REFUNDED" => ~First(o, "SUCCEEDED")')
      BY <1>1, <1>2, <1>6, <2>5, <3>1 DEF First, AtWork
    <3>5. Spent(o) <= Budget(o)
      BY <2>1, <3>3 DEF CashCount
    <3>6. CashCount(o)'
      BY <1>5, <2>5, <3>2, <3>4, <3>5 DEF CashCount, Spent, Budget
    <3>7. CashSolo(o)'
      <4>1. \A x \in Slots : Works(x, o)' => x = h
        BY <1>6, <2>5 DEF Works, AtWork
      <4> QED
        BY <4>1 DEF CashSolo
    <3>8. CashRecord(a)' /\ CashOrder(o)'
      BY <1>1, <1>2, <2>1, <2>2, <3>1, <3>6, <3>7 DEF CashOrder, CashRecord
    <3> QED
      BY <1>1, <1>3, <1>9, <2>1, <3>8, CashStep
  <2> QED
    BY <2>4, <2>5
<1>8. CASE IsCard(o)
  BY <1>1, <1>3, <1>8, <1>9, CashCard
<1> QED
  BY <1>7, <1>8

LEMMA CashConsume ==
    ASSUME IInv, CashInv, NEW h \in Slots, NEW o \in Orders, Consume(h, o)
    PROVE  CashInv'
<1>1. CASE CapturePayment(h, o)
  <2>1. payment[o].status \in PaymentTxStatus \ {"REFUNDED", "SUCCEEDED"}
    BY <1>1 DEF CapturePayment, CAPTURABLE, PaymentTxStatus
  <2> QED
    BY <1>1, <2>1, CashCarry DEF CapturePayment, outside
<1>2. CASE RefundPayment(h, o)
  <2>1. payment[o].status \in PaymentTxStatus \ {"REFUNDED", "REFUNDED"}
    BY <1>2 DEF RefundPayment, PaymentTxStatus
  <2> QED
    BY <1>2, <2>1, CashCarry DEF RefundPayment, outside
<1> QED
  BY <1>1, <1>2, CashApplyOrderEvent DEF Consume

LEMMA CashServe ==
    ASSUME IInv, CashInv, NEW h \in Slots, NEW o \in Orders, Serve(h, o)
    PROVE  CashInv'
<1>1. /\ handler[h] = Idle /\ UNCHANGED <<emitted, payment, refunds, crashes, overlaps>>
      /\ crashes' >= crashes /\ crashes' \in Nat
  <2>1. handler[h].pc = "idle" /\ UNCHANGED <<emitted, payment, refunds, crashes, overlaps>>
    BY DEF Serve, ResumePayment, RetryPayment, ConfirmPayment, ReceiveWebhook, outside, history
  <2> QED
    BY <2>1 DEF IInv, HandlerInv, TypeOK
<1>2. ASSUME NEW a, handler' = [handler EXCEPT ![h] = a], a.order = o, IsCard(o)
      PROVE  CashInv'
  BY <1>1, <1>2, CashCard
<1>3. ASSUME NEW new, NEW after, Decide(h, o, "commit", new, after), IsCard(o)
      PROVE  CashInv'
  <2> DEFINE a == [Idle EXCEPT !.pc = "commit", !.order = o, !.update = Changes(payment[o], new), !.after = after]
  <2>1. handler' = [handler EXCEPT ![h] = a] /\ a.order = o
    BY <1>3, DecideRecord DEF Decide
  <2> HIDE DEF a
  <2> QED
    BY <1>2, <1>3, <2>1
<1>4. CASE ResumePayment(h, o)
  BY <1>3, <1>4 DEF ResumePayment
<1>5. CASE RetryPayment(h, o)
  <2>1. IsCard(o)
    BY <1>5, AbsentAssumption DEF RetryPayment, CashInv, CashOrder, CashRow, PaymentTxStatus
  <2> QED
    BY <1>3, <1>5, <2>1 DEF RetryPayment
<1>6. CASE ConfirmPayment(h, o)
  <2> DEFINE a == [Idle EXCEPT !.pc = "verify", !.order = o, !.row = payment[o]]
  <2>1. handler' = [handler EXCEPT ![h] = a] /\ a.order = o /\ IsCard(o)
    BY <1>6, EnterRecord DEF ConfirmPayment, Enter
  <2> HIDE DEF a
  <2> QED
    BY <1>2, <2>1
<1>7. ASSUME NEW e \in WebhookEvent, ReceiveWebhook(h, o, e) PROVE CashInv'
  <2>1. CASE Matches(o, e)
    <3>1. IsCard(o)
      BY <2>1 DEF Matches, CashInv, CashOrder, CashRow
    <3> QED
      BY <1>3, <1>7, <2>1, <3>1 DEF ReceiveWebhook
  <2>2. CASE ~Matches(o, e)
    <3>1. handler' = [handler EXCEPT ![h] = Idle]
      BY <1>1, <1>7, <2>2 DEF ReceiveWebhook, IInv, TypeOK
    <3> QED
      BY <1>1, <3>1, IdleRecord, CashPlain
  <2> QED
    BY <2>1, <2>2
<1> QED
  BY <1>4, <1>5, <1>6, <1>7 DEF Serve

\* The refund on its way has arrived: what was owed is counted.
LEMMA CashCallRefund ==
    ASSUME IInv, CashInv, NEW h \in Slots, CallRefund(h)
    PROVE  CashInv'
<1>1. PICK o \in Orders : o = handler[h].order
  BY DEF CallRefund, IInv, HandlerInv
<1>2. PICK a : a = [handler[h] EXCEPT !.pc = "commit"]
  OBVIOUS
<1>3. /\ handler[h].pc = "provider" /\ UNCHANGED <<emitted, payment, crashes, overlaps>>
      /\ handler' = [handler EXCEPT ![h] = a]
      /\ a.pc = "commit" /\ a.order = o /\ a.began = handler[h].began /\ a.after = handler[h].after
      /\ a.update = handler[h].update
  BY <1>1, <1>2 DEF CallRefund, outside, history, IInv, TypeOK, Handler
<1>4. /\ crashes \in Nat /\ crashes' \in Nat /\ crashes' >= crashes
      /\ refunds[o] \in Nat /\ overlaps[o] \in Nat /\ refunds'[o] \in Nat
      /\ refunds'[o] <= refunds[o] + 1
      /\ \A x \in Orders : x # o => /\ payment'[x] = payment[x] /\ refunds'[x] = refunds[x]
                                    /\ overlaps'[x] = overlaps[x]
  BY <1>1, <1>3, BoundsAssumption DEF CallRefund, IInv, TypeOK, RefundCap
<1>5. CASE IsCard(o)
  BY <1>1, <1>3, <1>4, <1>5, CashCard
<1>6. CASE ~IsCard(o)
  <2>1. CashRow(o) /\ CashCount(o) /\ CashSolo(o) /\ CashRecord(handler[h])
    BY <1>6 DEF CashInv, CashOrder
  <2>2. \A x \in Slots : handler'[x] = IF x = h THEN a ELSE handler[x]
    BY <1>3 DEF IInv, TypeOK
  <2>3. /\ \A s : First(o, s)' <=> First(o, s)
        /\ AtWork(o)' <=> AtWork(o)
        /\ \A x \in Slots : Works(x, o)' <=> Works(x, o)
    BY <1>1, <1>3, <2>2 DEF First, AtWork, Works
  <2>4. handler[h].update.status = "REFUNDED" /\ payment[o].status # Absent
    BY <1>1, <1>3, <1>6, <2>1 DEF CashRecord
  <2>5. Cardinality(Owing(o)') = Cardinality(Owing(o)) - 1 /\ Cardinality(Owing(o)) \in Nat
    <3>1. Owes(handler[h], o) /\ ~Owes(a, o)
      BY <1>1, <1>3, <2>4 DEF Owes
    <3> QED
      BY <1>3, <3>1, OwingStep
  <2>6. CashCount(o)'
    BY <1>3, <1>4, <2>1, <2>3, <2>5 DEF CashCount, Spent, Budget
  <2>7. CashSolo(o)' /\ CashRow(o)'
    BY <1>3, <2>1, <2>3 DEF CashSolo, CashRow
  <2>8. CashRecord(a)'
    BY <1>1, <1>3, <1>6, <2>1, <2>4 DEF CashRecord
  <2> QED
    BY <1>1, <1>3, <1>4, <2>4, <2>6, <2>7, <2>8, CashStep DEF CashOrder
<1> QED
  BY <1>5, <1>6

\* The command's commit: a late settle gives the spent refund back, and has
\* paid for it when it began.
LEMMA CashCommit ==
    ASSUME IInv, CashInv, NEW h \in Slots, CommitPayment(h)
    PROVE  CashInv'
<1>1. PICK o \in Orders : o = handler[h].order
  BY DEF CommitPayment, IInv, HandlerInv
<1>2. /\ handler[h].pc = "commit" /\ UNCHANGED <<emitted, refunds, crashes, overlaps>>
      /\ payment' = [payment EXCEPT ![o] = Written(payment[o], handler[h].update)]
  BY <1>1 DEF CommitPayment, history
<1>3. PICK a : /\ handler' = [handler EXCEPT ![h] = a]
               /\ IF handler[h].after = "tell" THEN a.order = o ELSE a = Idle
  <2>1. CASE handler[h].after = "tell"
    <3> DEFINE a == [Idle EXCEPT !.pc = "tell", !.order = o, !.row = NoPayment]
    <3>1. handler' = [handler EXCEPT ![h] = a] /\ a.order = o
      BY <1>1, <2>1, EnterRecord DEF CommitPayment, Enter
    <3> HIDE DEF a
    <3> QED
      BY <2>1, <3>1
  <2>2. CASE handler[h].after # "tell"
    BY <2>2 DEF CommitPayment, Leave
  <2> QED
    BY <2>1, <2>2
<1>4. /\ crashes \in Nat /\ crashes' \in Nat /\ crashes' >= crashes
      /\ refunds[o] \in Nat /\ overlaps[o] \in Nat
      /\ \A x \in Orders : x # o => /\ payment'[x] = payment[x] /\ refunds'[x] = refunds[x]
                                    /\ overlaps'[x] = overlaps[x]
      /\ payment'[o] = Written(payment[o], handler[h].update)
  BY <1>2, BoundsAssumption DEF IInv, TypeOK, RefundCap
<1>5. CASE IsCard(o)
  BY <1>1, <1>2, <1>3, <1>4, <1>5, CashCard
<1>6. CASE ~IsCard(o)
  <2>1. CashRow(o) /\ CashCount(o) /\ CashSolo(o) /\ CashRecord(handler[h])
    BY <1>6 DEF CashInv, CashOrder
  <2>2. /\ handler[h].began # "none" /\ handler[h].update.ref = "same" /\ handler[h].after = "end"
        /\ handler[h].update.status \in {"SUCCEEDED", "REFUNDED"} /\ payment[o].status # Absent
        /\ handler[h].began \in {"alone", "beside"}
    BY <1>1, <1>2, <1>6, <2>1 DEF CashRecord, IInv, TypeOK, Handler
  <2>3. handler' = [handler EXCEPT ![h] = Idle] /\ a = Idle
    BY <1>3, <2>2
  <2>4. \A x \in Slots : handler'[x] = IF x = h THEN Idle ELSE handler[x]
    BY <2>3 DEF IInv, TypeOK
  <2>5. payment'[o].status = handler[h].update.status /\ payment'[o].ref = payment[o].ref
    BY <1>4, <2>2 DEF Written
  <2>6. CashRow(o)'
    BY <2>1, <2>2, <2>5 DEF CashRow
  <2>7. /\ First(o, "SUCCEEDED")' => First(o, "SUCCEEDED")
        /\ \A x \in Slots : Works(x, o)' => Works(x, o) /\ x # h
    BY <2>4, IdleRecord DEF First, Works
  <2>8. CashSolo(o)'
    <3>1. Works(h, o)
      BY <1>1, <2>2 DEF Works
    <3>2. overlaps[o] = 0 => ~AtWork(o)'
      BY <2>1, <2>7, <3>1 DEF CashSolo, AtWork, Works
    <3> QED
      BY <1>2, <2>1, <2>7, <3>2 DEF CashSolo
  <2>9. ~Owes(Idle, o) /\ Cardinality(Owing(o)) \in Nat
    BY IdleRecord, OwingNat DEF Owes
  <2>10. CashCount(o)'
    <3>1. CASE handler[h].update.status = "REFUNDED"
      <4>1. ~Owes(handler[h], o)
        BY <1>2, <3>1 DEF Owes
      <4>2. Cardinality(Owing(o)') = Cardinality(Owing(o))
        BY <2>3, <2>9, <4>1, OwingStep
      <4> QED
        BY <1>2, <2>1, <2>5, <2>7, <3>1, <4>2 DEF CashCount, Spent, Budget
    <3>2. CASE handler[h].update.status = "SUCCEEDED" /\ handler[h].began = "beside"
      <4>1. Owes(handler[h], o)
        BY <1>1, <3>2 DEF Owes
      <4>2. Cardinality(Owing(o)') = Cardinality(Owing(o)) - 1
        BY <2>3, <2>9, <4>1, OwingStep
      <4> QED
        BY <1>2, <1>4, <2>1, <2>9, <4>2 DEF CashCount, Spent, Budget
    <3>3. CASE handler[h].update.status = "SUCCEEDED" /\ handler[h].began = "alone"
      <4>1. ~Owes(handler[h], o) /\ First(o, "SUCCEEDED")
        BY <1>1, <1>2, <3>3 DEF Owes, First
      <4>2. Cardinality(Owing(o)') = Cardinality(Owing(o))
        BY <2>3, <2>9, <4>1, OwingStep
      <4> QED
        BY <1>2, <1>4, <2>1, <2>9, <4>1, <4>2 DEF CashCount, Spent, Budget
    <3> QED
      BY <2>2, <3>1, <3>2, <3>3
  <2>11. payment'[o].status # Absent /\ CashRecord(Idle)'
    BY <2>2, <2>5, AbsentAssumption, IdleRecord DEF PaymentTxStatus
  <2> QED
    BY <1>1, <1>2, <1>4, <2>3, <2>6, <2>8, <2>10, <2>11, CashStep DEF CashOrder
<1> QED
  BY <1>5, <1>6

LEMMA CashCreate ==
    ASSUME IInv, CashInv, NEW h \in Slots, CreatePayment(h)
    PROVE  CashInv'
<1>1. PICK o \in Orders : o = handler[h].order
  BY DEF CreatePayment, IInv, HandlerInv
<1>2. /\ handler[h].pc = "create"
      /\ UNCHANGED <<emitted, payment, refunds, crashes, overlaps>>
      /\ crashes' >= crashes /\ crashes' \in Nat
  BY DEF CreatePayment, outside, history, IInv, TypeOK
<1>3. PICK a : /\ handler' = [handler EXCEPT ![h] = a]
               /\ \/ a = Idle
                  \/ /\ a.pc = "insert" /\ a.order = o /\ a.after = "end" /\ a.began = "none"
                     /\ a.row \in Authorized(o, "first")
  <2>1. CASE payment[o] # NoPayment
    BY <1>1, <2>1 DEF CreatePayment, Leave
  <2>2. CASE payment[o] = NoPayment
    <3>1. PICK new \in Authorized(o, "first") : Enter(h, o, "insert", new)
      BY <1>1, <2>2 DEF CreatePayment
    <3> DEFINE a == [Idle EXCEPT !.pc = "insert", !.order = o, !.row = new]
    <3>2. /\ handler' = [handler EXCEPT ![h] = a] /\ a.pc = "insert" /\ a.order = o /\ a.row = new
          /\ a.after = "end" /\ a.began = "none"
      BY <3>1, EnterRecord DEF Enter
    <3> HIDE DEF a
    <3> QED
      BY <3>2
  <2> QED
    BY <2>1, <2>2
<1>4. a = Idle \/ a.order = o
  BY <1>3
<1>5. CASE IsCard(o)
  BY <1>1, <1>2, <1>3, <1>4, <1>5, CashCard
<1>6. CASE ~IsCard(o)
  <2>1. handler[h].began = "none"
    BY <1>1, <1>2, <1>6 DEF CashInv, CashRecord
  <2>2. CashRecord(a)' /\ a.began = "none" /\ a.pc # "provider"
    BY <1>3, <1>6, IdleRecord DEF CashRecord, Authorized
  <2> QED
    BY <1>1, <1>2, <1>3, <1>4, <2>1, <2>2, CashPlain
<1> QED
  BY <1>5, <1>6

LEMMA CashInsert ==
    ASSUME IInv, CashInv, NEW h \in Slots, InsertPayment(h)
    PROVE  CashInv'
<1>1. PICK o \in Orders : o = handler[h].order
  BY DEF InsertPayment, IInv, HandlerInv
<1>2. /\ handler[h].pc = "insert"
      /\ UNCHANGED <<emitted, refunds, crashes, overlaps>>
      /\ crashes' >= crashes /\ crashes' \in Nat
      /\ handler' = [handler EXCEPT ![h] = Idle]
      /\ \A x \in Orders : x # o => payment'[x] = payment[x]
      /\ \/ payment'[o] = payment[o]
         \/ payment[o] = NoPayment /\ payment'[o] = handler[h].row
  BY <1>1 DEF InsertPayment, Leave, outside, history, IInv, TypeOK
<1>3. CASE IsCard(o)
  BY <1>1, <1>2, <1>3, CashCard
<1>4. CASE ~IsCard(o)
  <2>1. handler[h].began = "none" /\ handler[h].row = [status |-> "AUTHORIZED", ref |-> "none"]
    BY <1>1, <1>2, <1>4 DEF CashInv, CashRecord
  <2>2. NoPayment.status = Absent
    BY DEF NoPayment
  <2> QED
    BY <1>1, <1>2, <2>1, <2>2, IdleRecord, CashPlain
<1> QED
  BY <1>3, <1>4

\* Only card payments are verified, or told of.
LEMMA CashCardEnds ==
    ASSUME IInv, CashInv, NEW h \in Slots, Verify(h) \/ TellOrders(h)
    PROVE  CashInv'
<1>1. PICK o \in Orders : o = handler[h].order
  BY DEF Verify, TellOrders, IInv, HandlerInv
<1>2. /\ handler[h].pc \in {"verify", "tell"}
      /\ UNCHANGED <<emitted, payment, refunds, crashes, overlaps>>
      /\ crashes' >= crashes /\ crashes' \in Nat
  BY DEF Verify, TellOrders, outside, history, IInv, TypeOK
<1>3. PICK a : handler' = [handler EXCEPT ![h] = a] /\ (a = Idle \/ a.order = o)
  <2>1. CASE Leave(h)
    BY <2>1 DEF Leave
  <2>2. CASE ~Leave(h)
    <3> DEFINE a == [handler[h] EXCEPT !.pc = "commit", !.row = NoPayment, !.after = "tell",
                                       !.update = Changes(handler[h].row, Collected)]
    <3>1. handler' = [handler EXCEPT ![h] = a] /\ a.order = o
      BY <1>1, <2>2 DEF Verify, TellOrders, IInv, TypeOK, Handler
    <3> HIDE DEF a
    <3> QED
      BY <3>1
  <2> QED
    BY <2>1, <2>2
<1>4. IsCard(o)
  BY <1>1, <1>2 DEF CashInv, CashRecord
<1> QED
  BY <1>1, <1>2, <1>3, <1>4, CashCard

\* A lost command of a cash order adds to the budget.
LEMMA CashCrash ==
    ASSUME IInv, CashInv, NEW h \in Slots, Crash(h)
    PROVE  CashInv'
<1>1. PICK o \in Orders : o = handler[h].order
  BY DEF Crash, IInv, HandlerInv
<1>2. /\ handler[h].pc # "idle" /\ UNCHANGED <<emitted, payment, refunds, overlaps>>
      /\ handler' = [handler EXCEPT ![h] = Idle]
      /\ crashes \in Nat /\ refunds[o] \in Nat /\ overlaps[o] \in Nat
      /\ crashes' = IF handler[h].began = "none" THEN crashes ELSE crashes + 1
  BY <1>1, BoundsAssumption DEF Crash, Leave, outside, history, IInv, TypeOK, RefundCap
<1>3. /\ crashes' >= crashes /\ crashes' \in Nat
      /\ \A x \in Orders : x # o => /\ payment'[x] = payment[x] /\ refunds'[x] = refunds[x]
                                    /\ overlaps'[x] = overlaps[x]
  BY <1>2
<1>4. CASE IsCard(o)
  BY <1>1, <1>2, <1>3, <1>4, CashCard
<1>5. CASE ~IsCard(o) /\ handler[h].began = "none"
  <2>1. crashes' = crashes /\ handler[h].pc # "provider"
    BY <1>1, <1>2, <1>5 DEF CashInv, CashRecord
  <2> QED
    BY <1>1, <1>2, <1>3, <1>5, <2>1, IdleRecord, CashPlain
<1>6. CASE ~IsCard(o) /\ handler[h].began # "none"
  <2>1. CashRow(o) /\ CashCount(o) /\ CashSolo(o)
    BY <1>6 DEF CashInv, CashOrder
  <2>2. \A x \in Slots : handler'[x] = IF x = h THEN Idle ELSE handler[x]
    BY <1>2 DEF IInv, TypeOK
  <2>3. /\ \A x \in Slots : Works(x, o)' => Works(x, o)
        /\ AtWork(o)' => AtWork(o)
    BY <2>2, IdleRecord DEF Works, AtWork
  <2>4. Cardinality(Owing(o)') <= Cardinality(Owing(o)) /\ Cardinality(Owing(o)) \in Nat
        /\ Cardinality(Owing(o)') \in Nat
    <3>1. ~Owes(Idle, o)
      BY IdleRecord DEF Owes
    <3>2. handler' = [handler EXCEPT ![h] = Idle]
      BY <1>2
    <3>3. Cardinality(Owing(o)) \in Nat /\ Cardinality(Owing(o)') \in Nat
      BY <3>2, OwingStep
    <3>4. CASE Owes(handler[h], o)
      <4>1. Cardinality(Owing(o)') = Cardinality(Owing(o)) - 1
        BY <3>1, <3>2, <3>4, OwingStep
      <4> QED
        BY <3>3, <4>1
    <3>5. CASE ~Owes(handler[h], o)
      <4>1. Cardinality(Owing(o)') = Cardinality(Owing(o))
        BY <3>1, <3>2, <3>5, OwingStep
      <4> QED
        BY <3>3, <4>1
    <3> QED
      BY <3>4, <3>5
  <2>5. CashCount(o)'
    BY <1>2, <1>6, <2>1, <2>4 DEF CashCount, Spent, Budget
  <2>6. CashRow(o)' /\ CashSolo(o)'
    BY <1>2, <2>1, <2>3 DEF CashRow, CashSolo
  <2> QED
    BY <1>1, <1>2, <1>3, <2>5, <2>6, IdleRecord, CashStep DEF CashOrder
<1> QED
  BY <1>4, <1>5, <1>6

LEMMA CashNext == IInv /\ CashInv /\ [Next]_vars => CashInv'
<1> SUFFICES ASSUME IInv, CashInv, [Next]_vars
             PROVE  CashInv'
  OBVIOUS
<1>1. ASSUME NEW h \in Slots, Proceed(h) PROVE CashInv'
  BY <1>1, CashCreate, CashInsert, CashCallRefund, CashCardEnds, CashCommit DEF Proceed
<1>2. CASE UNCHANGED <<emitted, payment, refunds, handler, crashes, overlaps>>
  BY <1>2 DEF CashInv, CashRecord, CashOrder, CashRow, CashCount, CashSolo, Spent, Budget, Owing, Owes, First, AtWork, Works, IsCard
<1>3. ASSUME NEW o \in Orders, NEW s \in OrderEvent, SkipOrderEvent(o, s) PROVE CashInv'
  BY <1>2, <1>3 DEF SkipOrderEvent, outside
<1>4. CASE UNCHANGED vars
  BY <1>2, <1>4 DEF vars
<1> QED
  BY <1>1, <1>3, <1>4, CashOutside, CashConsume, CashServe, CashCrash DEF Next

LEMMA CashInit == Init => CashInv
<1> SUFFICES ASSUME Init PROVE CashInv
  OBVIOUS
<1>1. \A h \in Slots : handler[h] = Idle
  BY DEF Init
<1>2. \A o \in Orders : Owing(o) = {} /\ ~AtWork(o)
  BY <1>1, IdleRecord DEF Owing, Owes, AtWork
<1>3. \A o \in Orders : CashOrder(o)
  <2> SUFFICES ASSUME NEW o \in Orders PROVE CashOrder(o)
    OBVIOUS
  <2>1. payment[o] = NoPayment /\ refunds[o] = 0 /\ overlaps[o] = 0 /\ crashes = 0
    BY DEF Init
  <2>2. Spent(o) = 0 /\ Budget(o) = 0
    BY <1>2, <2>1, FS_EmptySet DEF Spent, Budget
  <2>3. CashRow(o)
    BY <2>1 DEF CashRow, NoPayment
  <2>4. CashCount(o)
    BY <2>2 DEF CashCount
  <2>5. CashSolo(o)
    BY <1>2 DEF CashSolo, AtWork, Works
  <2> QED
    BY <2>3, <2>4, <2>5 DEF CashOrder
<1> QED
  BY <1>1, <1>3, IdleRecord DEF CashInv

\* The money of a COD order goes back once, and at most once more for each
\* handler lost on the way and each command begun beside another of the order.
THEOREM CashRefundedOnceAlways == Spec => []CashRefundedOnce
<1>1. IInv /\ CashInv => CashRefundedOnce
  <2> SUFFICES ASSUME IInv, CashInv, NEW o \in Orders, ~IsCard(o)
               PROVE  refunds[o] <= 1 + crashes + overlaps[o]
    BY DEF CashRefundedOnce
  <2>1. Spent(o) <= Budget(o) + 1
    BY DEF CashInv, CashOrder, CashCount
  <2>2. crashes \in Nat /\ refunds[o] \in Nat /\ overlaps[o] \in Nat
    BY BoundsAssumption DEF IInv, TypeOK, RefundCap
  <2> QED
    BY <2>1, <2>2, OwingNat DEF Spent, Budget
<1>2. Spec => []IInv
  BY Invariance
<1> QED
  BY <1>1, <1>2, CashNext, CashInit, PTL DEF Spec

\* A refunded COD order is never booked as collected again, as long as no two
\* commands of it were at work at once.
THEOREM CashRefundFinalAlways == Spec => CashRefundFinal
<1> DEFINE Final == \A o \in Orders : ~IsCard(o) /\ payment[o].status = "REFUNDED" /\ overlaps[o] = 0
                                         => payment'[o].status = "REFUNDED"
<1>1. IInv /\ CashInv /\ [Next]_vars => [Final]_vars
  <2> SUFFICES ASSUME IInv, CashInv, [Next]_vars, NEW o \in Orders,
                      ~IsCard(o), payment[o].status = "REFUNDED", overlaps[o] = 0
               PROVE  payment'[o].status = "REFUNDED"
    OBVIOUS
  <2>1. ~AtWork(o)
    BY DEF CashInv, CashOrder, CashSolo
  <2>2. ASSUME NEW h \in Slots, InsertPayment(h) PROVE payment'[o] = payment[o]
    <3>1. payment[o] # NoPayment
      BY AbsentAssumption DEF NoPayment, PaymentTxStatus
    <3> QED
      BY <2>2, <3>1 DEF InsertPayment, IInv, TypeOK
  <2>3. ASSUME NEW h \in Slots, CommitPayment(h) PROVE payment'[o] = payment[o]
    <3>1. handler[h].pc = "commit"
      BY <2>3 DEF CommitPayment
    <3>2. handler[h].order # o
      BY <2>1, <3>1 DEF CashInv, CashRecord, AtWork
    <3> QED
      BY <2>3, <3>2 DEF CommitPayment, IInv, TypeOK
  <2>4. CASE UNCHANGED payment
    BY <2>4
  <2>5. UNCHANGED payment \/ \E h \in Slots : InsertPayment(h) \/ CommitPayment(h)
    <3>1. ASSUME NEW x \in Orders, PlaceOrder(x) \/ OrderPaid(x) \/ OrderMovesOn(x) \/ Pay(x)
          PROVE  UNCHANGED payment
      BY <3>1 DEF PlaceOrder, OrderPaid, OrderMovesOn, Pay
    <3>2. ASSUME NEW h \in Slots, NEW x \in Orders, Consume(h, x)
          PROVE  UNCHANGED payment
      BY <3>2 DEF Consume, ApplyOrderEvent, CapturePayment, RefundPayment
    <3>3. ASSUME NEW h \in Slots, NEW x \in Orders, Serve(h, x)
          PROVE  UNCHANGED payment
      BY <3>3 DEF Serve, ResumePayment, RetryPayment, ConfirmPayment, ReceiveWebhook
    <3>4. ASSUME NEW h \in Slots,
                 CreatePayment(h) \/ CallRefund(h) \/ Verify(h) \/ TellOrders(h) \/ Crash(h)
          PROVE  UNCHANGED payment
      BY <3>4 DEF CreatePayment, CallRefund, Verify, TellOrders, Crash
    <3>5. ASSUME NEW x \in Orders, NEW s \in OrderEvent, SkipOrderEvent(x, s)
          PROVE  UNCHANGED payment
      BY <3>5 DEF SkipOrderEvent
    <3>6. CASE UNCHANGED vars
      BY <3>6 DEF vars
    <3> QED
      BY <3>1, <3>2, <3>3, <3>4, <3>5, <3>6 DEF Next, Proceed
  <2> QED
    BY <2>2, <2>3, <2>4, <2>5
<1>2. Spec => []IInv
  BY Invariance
<1> QED
  BY <1>1, <1>2, CashNext, CashInit, PTL DEF Spec, CashRefundFinal

=============================================================================
