-------------------------- MODULE CheckoutProofs --------------------------
(***************************************************************************)
(* Proofs about Checkout: for any customers, kitchens, menus and stocks,   *)
(* any number of calls served at once, and any trouble.                    *)
(***************************************************************************)
EXTENDS Checkout, FiniteSetTheorems, SequenceTheorems, TLAPS

Prices0 == Prices \cup {0}
Types ==
    /\ menu \in [Items -> [price : Prices, available : BOOLEAN]]
    /\ stock \in [Tracked -> Nat] /\ supply \in [Tracked -> Int]
    /\ accepting \in [Restaurants -> BOOLEAN]
    /\ cart \in [Customers -> Cart]
    /\ lock \in [Customers -> BOOLEAN] /\ expired \in [Customers -> BOOLEAN]
    /\ seen \in [Customers -> [Items -> Prices0]]
    /\ orders \in Seq(Order)
    /\ req \in [Requests -> Request]
    /\ remote \in [Requests -> Handler]
    /\ breaker \in Breaker /\ stale \in BOOLEAN
    /\ gen \in [Customers -> Nat]
    /\ count \in [calls : Nat, edits : Nat, faults : Nat]
    /\ count.calls <= MaxCalls /\ count.edits + count.faults <= MaxTrouble

\* What a call has in hand at each of its steps.
CallOf(r) ==
    /\ r.pc \in {"lookup", "load", "save"} => r.call \in {"add", "update", "reorder"}
    /\ r.pc \in {"look up all", "clear"} => r.call = "reorder"
    /\ r.pc \in {"read cart", "insert", "empty cart", "unlock"} => r.call = "checkout"
    /\ r.pc \in {"flush", "commit"} => r.call = "cancel"
    /\ r.pc = "await" => r.call \in {"checkout", "cancel"}
InHand(r) ==
    /\ r.pc = "load" /\ r.call # "update" => r.quantity > 0 /\ r.price \in Prices
    /\ r.pc = "save" => SoundCart(r.cart)
    /\ r.pc \in {"await", "insert"} /\ r.call = "checkout" =>
          SoundCart(r.cart) /\ r.cart.price = r.shown /\ r.cart.quantity # NoLines
RequestInv(q) ==
    /\ CallOf(req[q]) /\ InHand(req[q])
    /\ req[q].pc \in {"flush", "await", "commit"} /\ req[q].call = "cancel" => req[q].order \in DOMAIN orders

\* A handler is at work on what its caller sent, or on what a caller that gave
\* up had sent; it has found the stock there is, and a release is for an order.
HandlerInv(q) ==
    LET r == req[q]
        h == remote[q]
    IN  /\ h.pc \in {"ok", "refused"} => r.pc = "await"
        /\ r.pc = "insert" => h.pc = "idle"
        /\ r.pc = "await" => h.pc # "idle" /\ h.kind = IF r.call = "checkout" THEN "reserve" ELSE "release"
        /\ r.pc = "await" /\ r.call = "checkout" => h.quantity = r.cart.quantity /\ h.price = r.cart.price
        /\ h.pc = "write" /\ h.kind = "reserve" => \A i \in Tracked : h.stock[i] >= h.quantity[i]
        /\ h.pc # "idle" /\ h.kind = "release" =>
              h.order \in DOMAIN orders /\ h.quantity = orders[h.order].quantity
        /\ h.pc # "idle" /\ count.faults = 0 => r.pc = "await"

\* Every cart is sound, and every order is of a sound cart as it was shown.
CartInv ==
    /\ \A c \in Customers : SoundCart(cart[c])
    /\ \A k \in DOMAIN orders :
          /\ orders[k].price = orders[k].shown
          /\ \A i \in Wanted(orders[k].quantity) : RestaurantOf[i] = orders[k].restaurant

\* While no lock of a customer has expired, one checkout of theirs at a time
\* is under way and holds it, and a filling of the cart that was ordered is
\* still in the cart only while that checkout is about to clear it, or died.
CheckingOut(q, c) == req[q].pc # "idle" /\ req[q].call = "checkout" /\ req[q].customer = c
ReadTheCart(q) == req[q].pc \in {"await", "insert"} /\ req[q].call = "checkout"
GenInv ==
    /\ \A k \in DOMAIN orders : orders[k].gen <= gen[orders[k].customer]
    /\ \A q \in Requests : ReadTheCart(q) => req[q].gen <= gen[req[q].customer]
OneHoldsTheLock(c) ==
    \A q \in Requests : CheckingOut(q, c) => lock[c] /\ \A p \in Requests : CheckingOut(p, c) => p = q
OrderedIsCleared(c) ==
    \A k \in DOMAIN orders : orders[k].customer = c /\ orders[k].gen = gen[c] =>
        lock[c] /\ \A q \in Requests : CheckingOut(q, c) => req[q].pc = "empty cart"
NotOrderedYet(c) ==
    \A q \in Requests, k \in DOMAIN orders :
        CheckingOut(q, c) /\ ReadTheCart(q) /\ orders[k].customer = c => orders[k].gen # req[q].gen
LockInv == \A c \in Customers : expired[c] \/ (OneHoldsTheLock(c) /\ OrderedIsCleared(c) /\ NotOrderedYet(c))

PortionInv ==
    /\ \A i \in Tracked : IsFiniteSet(Ordered(i)) /\ IsFiniteSet(Reserved(i)) /\ IsFiniteSet(PutBack(i))
    /\ NothingOversold /\ PortionsAccounted

IInv ==
    /\ Types /\ CartInv /\ GenInv /\ LockInv /\ OrderedOnce /\ PortionInv
    /\ \A q \in Requests : RequestInv(q) /\ HandlerInv(q)

-----------------------------------------------------------------------------

CountsOn ==
    /\ count' \in [calls : Nat, edits : Nat, faults : Nat] /\ count.faults <= count'.faults
    /\ count'.calls <= MaxCalls /\ count'.edits + count'.faults <= MaxTrouble

LEMMA Counting ==
  ASSUME Types
  PROVE  /\ count.calls < MaxCalls /\ Counted("calls") => CountsOn /\ count'.faults = count.faults
         /\ Fault => CountsOn /\ count'.faults > 0
         /\ Edit => CountsOn /\ count'.faults = count.faults
         /\ UNCHANGED count => CountsOn
<1>1. /\ count \in [calls : Nat, edits : Nat, faults : Nat]
      /\ count.calls <= MaxCalls /\ count.edits + count.faults <= MaxTrouble
  BY DEF Types
<1>. QED  BY <1>1, CheckoutAssumption DEF Counted, Fault, Edit, CountsOn

LEMMA RecordTypes ==
  /\ NoLines \in Quantities /\ NoLines \in [Items -> Prices0] /\ EmptyCart \in Cart /\ SoundCart(EmptyCart)
  /\ NoRequest \in Request /\ NoRequest.pc = "idle" /\ NoRequest.call = "add"
  /\ NoHandler \in Handler /\ NoHandler.pc = "idle" /\ NoHandler.kind = "reserve"
<1>1. PICK c \in Customers, i \in Items : c = (CHOOSE w \in Customers : TRUE) /\ i = CHOOSE j \in Items : TRUE
  BY CheckoutAssumption
<1>2. NoLines \in Quantities /\ NoLines \in [Items -> Prices0] /\ NoStock \in [Tracked -> Nat]
  BY CheckoutAssumption DEF NoLines, Quantities, Prices0, NoStock
<1>3. EmptyCart \in Cart
  BY <1>2 DEF EmptyCart, Cart, Prices0
<1>4. SoundCart(EmptyCart)
  BY DEF SoundCart, EmptyCart, NoLines, Wanted
<1>5. NoRequest \in Request /\ NoRequest.pc = "idle" /\ NoRequest.call = "add"
  BY <1>1, <1>2, <1>3, CheckoutAssumption DEF NoRequest, Request, Steps, Calls, Prices0
<1>6. NoHandler \in Handler /\ NoHandler.pc = "idle" /\ NoHandler.kind = "reserve"
  BY <1>2 DEF NoHandler, Handler, Prices0
<1>. QED  BY <1>2, <1>3, <1>4, <1>5, <1>6

\* A column of portions, x of them, beside others.
LEMMA Column ==
  ASSUME NEW S, IsFiniteSet(S), NEW a, NEW x \in Nat, \A n : <<a, n>> \notin S
  PROVE  /\ IsFiniteSet(S \cup ({a} \X (1..x)))
         /\ Cardinality(S \cup ({a} \X (1..x))) = Cardinality(S) + x
         /\ Cardinality(S) \in Nat
<1>1. IsFiniteSet({a}) /\ Cardinality({a}) = 1
  BY FS_Singleton
<1>2. IsFiniteSet(1..x) /\ Cardinality(1..x) = x
  <2>1. IsFiniteSet(1..x) /\ Cardinality(1..x) = IF 1 <= x THEN x - 1 + 1 ELSE 0
    BY FS_Interval
  <2>. QED  BY <2>1
<1>3. IsFiniteSet({a} \X (1..x)) /\ Cardinality({a} \X (1..x)) = x
  <2>1. IsFiniteSet({a} \X (1..x)) /\ Cardinality({a} \X (1..x)) = Cardinality({a}) * Cardinality(1..x)
    BY <1>1, <1>2, FS_Product
  <2>. QED  BY <1>1, <1>2, <2>1
<1>. DEFINE T == {a} \X (1..x)
<1>4. S \cap T = {}
  OBVIOUS
<1>5. IsFiniteSet(T) /\ Cardinality(T) = x
  BY <1>3
<1>. HIDE DEF T
<1>6. /\ IsFiniteSet(S \cup T)
      /\ Cardinality(S \cup T) = Cardinality(S) + Cardinality(T) - Cardinality(S \cap T)
  BY <1>5, FS_Union
<1>7. Cardinality(S) \in Nat /\ Cardinality(S \cap T) = 0
  BY <1>4, FS_CardinalityType, FS_EmptySet
<1>8. Cardinality(S \cup T) = Cardinality(S) + x
  BY <1>5, <1>6, <1>7
<1>. QED  BY <1>6, <1>7, <1>8 DEF T

-----------------------------------------------------------------------------

(* What a step leaves alone *)

LEMMA SlotFields ==
  ASSUME Types, NEW q \in Requests
  PROVE  /\ req[q] \in Request /\ req[q].customer \in Customers /\ req[q].gen \in Nat /\ req[q].order \in Nat
         /\ req[q].cart \in Cart /\ req[q].item \in Items /\ req[q].todo \in Quantities
         /\ req[q].quantity \in 0..MaxQty /\ req[q].shown \in [Items -> Prices0]
         /\ remote[q] \in Handler /\ remote[q].quantity \in Quantities /\ remote[q].price \in [Items -> Prices0]
         /\ remote[q].stock \in [Tracked -> Nat] /\ remote[q].order \in Nat
BY DEF Types, Request, Handler, Prices0

LEMMA OrderFields ==
  ASSUME Types
  PROVE  /\ Len(orders) \in Nat /\ DOMAIN orders = 1..Len(orders)
         /\ \A k \in DOMAIN orders :
               /\ orders[k] \in Order /\ orders[k].customer \in Customers /\ orders[k].gen \in Nat
               /\ orders[k].quantity \in Quantities /\ orders[k].returned \in Nat
               /\ orders[k].restaurant \in Restaurants \cup {NoRestaurant}
<1>1. /\ Len(orders) \in Nat /\ DOMAIN orders = 1..Len(orders) /\ \A k \in DOMAIN orders : orders[k] \in Order
  BY LenProperties, ElementOfSeq DEF Types
<1>. QED  BY <1>1 DEF Order

SlotOnly(q) == \A p \in Requests : p # q => req'[p] = req[p] /\ remote'[p] = remote[p]
OrdersKept ==
    \A k \in DOMAIN orders :
        /\ k \in DOMAIN orders' /\ orders'[k].quantity = orders[k].quantity
        /\ orders'[k].customer = orders[k].customer /\ orders'[k].gen = orders[k].gen
        /\ orders'[k].restaurant = orders[k].restaurant
        /\ orders'[k].price = orders[k].price /\ orders'[k].shown = orders[k].shown

\* A step about one slot: the others are as they were.
LEMMA SlotMoves ==
  ASSUME IInv, Types', NEW q \in Requests, SlotOnly(q), OrdersKept, count.faults <= count'.faults,
         CartInv', GenInv', LockInv', OrderedOnce', PortionInv', RequestInv(q)', HandlerInv(q)'
  PROVE  IInv'
<1>1. ASSUME NEW p \in Requests, p # q  PROVE RequestInv(p)' /\ HandlerInv(p)'
  <2>1. req'[p] = req[p] /\ remote'[p] = remote[p]
    BY <1>1 DEF SlotOnly
  <2>2. RequestInv(p)'
    BY <2>1 DEF IInv, RequestInv, OrdersKept
  <2>3. count'.faults = 0 => count.faults = 0
    BY DEF IInv, Types
  <2>4. HandlerInv(p)'
    BY <2>1, <2>3 DEF IInv, HandlerInv, OrdersKept
  <2>. QED  BY <2>2, <2>4
<1>. QED  BY <1>1 DEF IInv

\* A call that is no checkout, or a checkout that does not get further than
\* it was with the cart it read.
GenGrows == \A c \in Customers : gen[c] <= gen'[c]
StillCheckingOut(q) == \A c \in Customers : CheckingOut(q, c)' => CheckingOut(q, c)
StillReading(q) == ReadTheCart(q)' => ReadTheCart(q) /\ req'[q].gen = req[q].gen /\ req'[q].customer = req[q].customer
ClearsFirst(q) ==
    \A c \in Customers : CheckingOut(q, c)' /\ req[q].pc = "empty cart" /\ req'[q].pc # "empty cart" => gen'[c] # gen[c]
NoFurther(q) == StillCheckingOut(q) /\ StillReading(q) /\ ClearsFirst(q)
LEMMA LockStays ==
  ASSUME Types, Types', GenInv, LockInv, NEW q \in Requests, SlotOnly(q),
         OrdersKept, DOMAIN orders' = DOMAIN orders, UNCHANGED <<lock, expired>>, GenGrows, NoFurther(q)
  PROVE  GenInv' /\ LockInv'
<1>1. \A c \in Customers : gen[c] \in Nat /\ gen'[c] \in Nat /\ gen[c] <= gen'[c]
  BY DEF Types, GenGrows
<1>2. \A k \in DOMAIN orders : orders[k].customer \in Customers /\ orders[k].gen \in Nat
  BY OrderFields
<1>3. \A p \in Requests : req[p].customer \in Customers /\ req[p].gen \in Nat
  BY SlotFields
<1>4. \A k \in DOMAIN orders : orders'[k].customer = orders[k].customer /\ orders'[k].gen = orders[k].gen
  BY DEF OrdersKept
<1>5. \A p \in Requests : p # q => req'[p] = req[p]
  BY DEF SlotOnly
<1>6. GenInv'
  <2>1. \A k \in DOMAIN orders' : orders'[k].gen <= gen'[orders'[k].customer]
    <3>. SUFFICES ASSUME NEW k \in DOMAIN orders  PROVE orders'[k].gen <= gen'[orders'[k].customer]
      OBVIOUS
    <3>1. orders[k].gen <= gen[orders[k].customer]
      BY DEF GenInv
    <3>. QED  BY <1>1, <1>2, <1>4, <3>1
  <2>2. ASSUME NEW p \in Requests, ReadTheCart(p)'  PROVE req'[p].gen <= gen'[req'[p].customer]
    <3>1. ReadTheCart(p) /\ req'[p].gen = req[p].gen /\ req'[p].customer = req[p].customer
      BY <1>5, <2>2 DEF ReadTheCart, NoFurther, StillReading
    <3>2. req[p].gen <= gen[req[p].customer]
      BY <3>1 DEF GenInv
    <3>. QED  BY <1>1, <1>3, <3>1, <3>2
  <2>. QED  BY <2>1, <2>2 DEF GenInv
<1>7. ASSUME NEW c \in Customers, ~expired[c], NEW p \in Requests, CheckingOut(p, c)'
      PROVE  CheckingOut(p, c) /\ lock[c] /\ \A w \in Requests : CheckingOut(w, c)' => w = p
  <2>1. \A w \in Requests : CheckingOut(w, c)' => CheckingOut(w, c)
    BY <1>5 DEF CheckingOut, NoFurther, StillCheckingOut
  <2>. QED  BY <1>7, <2>1 DEF LockInv, OneHoldsTheLock
<1>8. ASSUME NEW c \in Customers, ~expired[c], NEW k \in DOMAIN orders, orders[k].customer = c, orders[k].gen = gen'[c]
      PROVE  lock[c] /\ \A p \in Requests : CheckingOut(p, c)' => req'[p].pc = "empty cart"
  <2>1. orders[k].gen = gen[c] /\ gen'[c] = gen[c]
    <3>1. orders[k].gen <= gen[c]
      BY <1>8 DEF GenInv
    <3>. QED  BY <1>1, <1>2, <1>8, <3>1
  <2>2. lock[c] /\ \A p \in Requests : CheckingOut(p, c) => req[p].pc = "empty cart"
    BY <1>8, <2>1 DEF LockInv, OrderedIsCleared
  <2>3. ASSUME NEW p \in Requests, CheckingOut(p, c)'  PROVE req'[p].pc = "empty cart"
    <3>1. CheckingOut(p, c)
      BY <1>7, <1>8, <2>3
    <3>2. req[p].pc = "empty cart"
      BY <2>2, <3>1
    <3>. QED  BY <1>5, <2>1, <2>3, <3>2 DEF NoFurther, ClearsFirst
  <2>. QED  BY <2>2, <2>3
<1>9. ASSUME NEW c \in Customers, ~expired[c], NEW p \in Requests, CheckingOut(p, c)', ReadTheCart(p)',
             NEW k \in DOMAIN orders, orders[k].customer = c
      PROVE  orders[k].gen # req'[p].gen
  <2>1. CheckingOut(p, c)
    BY <1>7, <1>9
  <2>2. ReadTheCart(p) /\ req'[p].gen = req[p].gen
    BY <1>5, <1>9 DEF ReadTheCart, NoFurther, StillReading
  <2>3. \A j \in DOMAIN orders : orders[j].customer = c => orders[j].gen # req[p].gen
    BY <1>9, <2>1, <2>2 DEF LockInv, NotOrderedYet
  <2>. QED  BY <1>9, <2>2, <2>3
<1>10. LockInv'
  <2>. SUFFICES ASSUME NEW c \in Customers, ~expired[c]
                PROVE  OneHoldsTheLock(c)' /\ OrderedIsCleared(c)' /\ NotOrderedYet(c)'
    BY DEF LockInv
  <2>1. OneHoldsTheLock(c)'
    BY <1>7 DEF OneHoldsTheLock
  <2>2. OrderedIsCleared(c)'
    BY <1>4, <1>8 DEF OrderedIsCleared
  <2>3. NotOrderedYet(c)'
    BY <1>4, <1>9 DEF NotOrderedYet
  <2>. QED  BY <2>1, <2>2, <2>3
<1>. QED  BY <1>6, <1>10

LEMMA OnceStays ==
  ASSUME OrderedOnce, OrdersKept, DOMAIN orders' = DOMAIN orders, UNCHANGED expired
  PROVE  OrderedOnce'
BY DEF OrderedOnce, OrdersKept

LEMMA PortionsStay ==
  ASSUME Types, Types', PortionInv, OrdersKept, DOMAIN orders' = DOMAIN orders,
         \A k \in DOMAIN orders : orders'[k].returned = orders[k].returned,
         \A p \in Requests : OnTheWay(p)' = OnTheWay(p),
         UNCHANGED <<stock, supply, stale>>, count.faults <= count'.faults
  PROVE  PortionInv'
<1>1. ASSUME NEW i \in Tracked  PROVE Ordered(i)' = Ordered(i) /\ PutBack(i)' = PutBack(i) /\ Reserved(i)' = Reserved(i)
  <2>1. Ordered(i)' = Ordered(i)
    BY DEF Ordered, OrdersKept
  <2>2. PutBack(i)' = PutBack(i)
    BY DEF PutBack, OrdersKept
  <2>3. Reserved(i)' = Reserved(i)
    BY DEF Reserved
  <2>. QED  BY <2>1, <2>2, <2>3
<1>2. count.faults > 0 => count'.faults > 0
  BY DEF Types
<1>. QED  BY <1>1, <1>2 DEF PortionInv, NothingOversold, PortionsAccounted, Taken, Supplied

-----------------------------------------------------------------------------

(* Calls, step by step *)

\* A step of a call that neither has portions nor gets any: at most its
\* record, carts, the breaker and what was seen change.
LEMMA CallMoves ==
  ASSUME IInv, NEW q \in Requests, NEW s \in Request, req' = [req EXCEPT ![q] = s],
         UNCHANGED <<kitchen, orders, remote, lock, expired>>,
         cart' \in [Customers -> Cart], \A c \in Customers : SoundCart(cart'[c]),
         seen' \in [Customers -> [Items -> Prices0]], breaker' \in Breaker,
         gen' \in [Customers -> Nat], GenGrows, NoFurther(q),
         CountsOn, req[q].pc \notin {"await", "insert"}, s.pc \notin {"await", "insert"},
         CallOf(s), InHand(s), s.pc \in {"flush", "commit"} => s.order \in DOMAIN orders
  PROVE  IInv'
<1>. USE DEF IInv, kitchen
<1>. count.faults <= count'.faults
  BY DEF CountsOn
<1>1. req' \in [Requests -> Request] /\ req'[q] = s /\ \A p \in Requests : p # q => req'[p] = req[p]
  BY DEF Types
<1>2. Types'
  BY <1>1 DEF Types, CountsOn
<1>3. SlotOnly(q) /\ OrdersKept
  BY <1>1 DEF SlotOnly, OrdersKept
<1>4. CartInv'
  BY DEF CartInv, Wanted
<1>5. GenInv' /\ LockInv' /\ OrderedOnce'
  BY <1>2, <1>3, LockStays, OnceStays
<1>6. PortionInv'
  <2>1. \A p \in Requests : OnTheWay(p)' = OnTheWay(p)
    <3>1. remote[q].pc # "ok"
      BY DEF HandlerInv
    <3>. QED  BY <1>1, <3>1 DEF OnTheWay
  <2>. QED  BY <1>2, <1>3, <2>1, PortionsStay
<1>7. RequestInv(q)'
  BY <1>1 DEF RequestInv
<1>8. HandlerInv(q)'
  <2>1. count'.faults = 0 => count.faults = 0
    BY DEF Types
  <2>. QED  BY <1>1, <2>1 DEF HandlerInv
<1>. QED  BY <1>2, <1>3, <1>4, <1>5, <1>6, <1>7, <1>8, SlotMoves

\* ... one that leaves the carts alone too.
LEMMA CallGoesOn ==
  ASSUME IInv, NEW q \in Requests, NEW s \in Request, req' = [req EXCEPT ![q] = s],
         UNCHANGED <<kitchen, orders, remote, lock, expired, cart, seen, gen>>, breaker' \in Breaker,
         NoFurther(q), CountsOn, req[q].pc \notin {"await", "insert"}, s.pc \notin {"await", "insert"},
         CallOf(s), InHand(s), s.pc \in {"flush", "commit"} => s.order \in DOMAIN orders
  PROVE  IInv'
<1>1. cart' \in [Customers -> Cart] /\ \A c \in Customers : SoundCart(cart'[c])
  BY DEF IInv, Types, CartInv
<1>2. seen' \in [Customers -> [Items -> Prices0]] /\ gen' \in [Customers -> Nat]
  BY DEF IInv, Types
<1>3. GenGrows
  BY DEF GenGrows, IInv, Types
<1>. QED  BY <1>1, <1>2, <1>3, CallMoves

\* A call that is accepted has a free slot.
LEMMA Accepted ==
  ASSUME Types, NEW q \in Requests, NEW c, NEW kind, Accept(q, c, kind)
  PROVE  req[q].pc = "idle" /\ remote[q].pc = "idle" /\ CountsOn
BY Counting DEF Accept, Free

\* The answer of a call that ends.
LEMMA CallOver == CallOf(NoRequest) /\ InHand(NoRequest)
BY RecordTypes DEF CallOf, InHand

\* A call that is no checkout when it has moved.
LEMMA NoCheckout ==
  ASSUME NEW q \in Requests, req'[q].pc = "idle" \/ req'[q].call # "checkout"
  PROVE  NoFurther(q)
BY DEF NoFurther, StillCheckingOut, StillReading, ClearsFirst, CheckingOut, ReadTheCart

LEMMA AddStarts ==
  ASSUME IInv, NEW q \in Requests, NEW c \in Customers, NEW i \in Items, StartAdd(q, c, i, 1)
  PROVE  IInv'
<1>. USE DEF IInv
<1>1. PICK s : s = [NoRequest EXCEPT !.pc = "lookup", !.call = "add", !.customer = c, !.todo = [NoLines EXCEPT ![i] = 1]]
  OBVIOUS
<1>2. [NoLines EXCEPT ![i] = 1] \in Quantities
  BY RecordTypes, CheckoutAssumption DEF Quantities
<1>3. s \in Request /\ s.pc = "lookup" /\ s.call = "add"
  BY <1>1, <1>2, RecordTypes DEF Request, Steps, Calls
<1>4. req' = [req EXCEPT ![q] = s] /\ req'[q] = s
  BY <1>1 DEF StartAdd, Types
<1>5. CallOf(s) /\ InHand(s)
  BY <1>3 DEF CallOf, InHand
<1>6. NoFurther(q)
  BY <1>3, <1>4, NoCheckout
<1>7. req[q].pc = "idle" /\ CountsOn
  BY Accepted DEF StartAdd
<1>8. breaker' \in Breaker /\ UNCHANGED <<kitchen, orders, remote, lock, expired, cart, seen, gen>>
  BY DEF StartAdd, Types
<1>. QED  BY <1>3, <1>4, <1>5, <1>6, <1>7, <1>8, CallGoesOn

LEMMA UpdateStarts ==
  ASSUME IInv, NEW q \in Requests, NEW c \in Customers, NEW i \in Items, NEW n \in 0..MaxQty, StartUpdate(q, c, i, n)
  PROVE  IInv'
<1>. USE DEF IInv
<1>1. PICK s : s = [NoRequest EXCEPT !.pc = "load", !.call = "update", !.customer = c, !.item = i, !.quantity = n]
  OBVIOUS
<1>2. s \in Request /\ s.pc = "load" /\ s.call = "update"
  BY <1>1, RecordTypes DEF Request, Steps, Calls
<1>3. req' = [req EXCEPT ![q] = s] /\ req'[q] = s
  BY <1>1 DEF StartUpdate, Types
<1>4. CallOf(s) /\ InHand(s)
  BY <1>2 DEF CallOf, InHand
<1>5. NoFurther(q)
  BY <1>2, <1>3, NoCheckout
<1>6. req[q].pc = "idle" /\ CountsOn
  BY Accepted DEF StartUpdate
<1>7. breaker' \in Breaker /\ UNCHANGED <<kitchen, orders, remote, lock, expired, cart, seen, gen>>
  BY DEF StartUpdate, Types
<1>. QED  BY <1>2, <1>3, <1>4, <1>5, <1>6, <1>7, CallGoesOn

LEMMA ReorderStarts ==
  ASSUME IInv, NEW q \in Requests, NEW k \in DOMAIN orders, StartReorder(q, k)
  PROVE  IInv'
<1>. USE DEF IInv
<1>1. PICK s : s = [NoRequest EXCEPT !.pc = "look up all", !.call = "reorder", !.customer = orders[k].customer,
                       !.todo = orders[k].quantity]
  OBVIOUS
<1>2. s \in Request /\ s.pc = "look up all" /\ s.call = "reorder"
  BY <1>1, RecordTypes, OrderFields DEF Request, Steps, Calls
<1>3. req' = [req EXCEPT ![q] = s] /\ req'[q] = s
  BY <1>1 DEF StartReorder, Types
<1>4. CallOf(s) /\ InHand(s)
  BY <1>2 DEF CallOf, InHand
<1>5. NoFurther(q)
  BY <1>2, <1>3, NoCheckout
<1>6. req[q].pc = "idle" /\ CountsOn
  BY Accepted DEF StartReorder
<1>7. breaker' \in Breaker /\ UNCHANGED <<kitchen, orders, remote, lock, expired, cart, seen, gen>>
  BY DEF StartReorder, Types
<1>. QED  BY <1>2, <1>3, <1>4, <1>5, <1>6, <1>7, CallGoesOn

LEMMA CancelStarts ==
  ASSUME IInv, NEW q \in Requests, NEW k \in DOMAIN orders, CancelRead(q, k)
  PROVE  IInv'
<1>. USE DEF IInv
<1>1. PICK s : s = [NoRequest EXCEPT !.pc = "flush", !.call = "cancel", !.customer = orders[k].customer, !.order = k]
  OBVIOUS
<1>2. s \in Request /\ s.pc = "flush" /\ s.call = "cancel" /\ s.order \in DOMAIN orders
  <2>1. k \in Nat /\ orders[k].customer \in Customers
    BY OrderFields
  <2>. QED  BY <1>1, <2>1, RecordTypes DEF Request, Steps, Calls
<1>3. req' = [req EXCEPT ![q] = s] /\ req'[q] = s
  BY <1>1 DEF CancelRead, Types
<1>4. CallOf(s) /\ InHand(s)
  BY <1>2 DEF CallOf, InHand
<1>5. NoFurther(q)
  BY <1>2, <1>3, NoCheckout
<1>6. req[q].pc = "idle" /\ CountsOn
  BY Accepted DEF CancelRead
<1>7. breaker' \in Breaker /\ UNCHANGED <<kitchen, orders, remote, lock, expired, cart, seen, gen>>
  BY DEF CancelRead, Types
<1>. QED  BY <1>2, <1>3, <1>4, <1>5, <1>6, <1>7, CallGoesOn

LEMMA BreakerTypes ==
  ASSUME NEW b \in Breaker
  PROVE  record_success(b) \in Breaker /\ record_failure(b) \in Breaker /\ cooldown_elapsed(b) \in Breaker /\ Closed \in Breaker
<1>1. Closed \in Breaker
  BY ThresholdAssumption DEF Closed, Breaker
<1>2. record_failure(b) \in Breaker
  BY ThresholdAssumption DEF record_failure, Breaker
<1>3. cooldown_elapsed(b) \in Breaker
  BY DEF cooldown_elapsed, Breaker
<1>. QED  BY <1>1, <1>2, <1>3 DEF record_success

LEMMA LooksUp ==
  ASSUME IInv, NEW q \in Requests, Lookup(q)
  PROVE  IInv'
<1>. USE DEF IInv
<1>1. PICK i \in Wanted(req[q].todo) :
         req' = [req EXCEPT ![q] = IF menu[i].available
                                     THEN [req[q] EXCEPT !.pc = "load", !.item = i, !.price = menu[i].price,
                                                    !.quantity = req[q].todo[i]]
                                     ELSE NoRequest]
  BY DEF Lookup
<1>2. /\ i \in Items /\ menu[i].price \in Prices /\ req[q].todo[i] \in 0..MaxQty /\ req[q].todo[i] > 0
      /\ req[q] \in Request /\ req[q].pc = "lookup" /\ req[q].call \in {"add", "update", "reorder"}
  <2>1. i \in Items /\ req[q].todo[i] > 0 /\ req[q] \in Request /\ req[q].pc = "lookup"
    BY SlotFields DEF Wanted, Lookup
  <2>2. req[q].todo[i] \in 0..MaxQty
    BY <2>1, SlotFields DEF Quantities
  <2>3. menu[i].price \in Prices
    BY <2>1 DEF Types
  <2>4. req[q].call \in {"add", "update", "reorder"}
    BY <2>1 DEF RequestInv, CallOf
  <2>. QED  BY <2>1, <2>2, <2>3, <2>4
<1>3. PICK s \in Request : /\ req' = [req EXCEPT ![q] = s] /\ s.pc \in {"load", "idle"} /\ s.call # "checkout"
                           /\ CallOf(s) /\ InHand(s)
  <2>1. CASE menu[i].available
    <3>1. PICK s : s = [req[q] EXCEPT !.pc = "load", !.item = i, !.price = menu[i].price, !.quantity = req[q].todo[i]]
      OBVIOUS
    <3>2. /\ s \in Request /\ s.pc = "load" /\ s.call = req[q].call /\ s.quantity = req[q].todo[i]
          /\ s.price = menu[i].price
      BY <1>2, <3>1 DEF Request, Steps
    <3>3. CallOf(s) /\ InHand(s) /\ s.call # "checkout"
      BY <1>2, <3>2 DEF CallOf, InHand
    <3>. QED  BY <1>1, <2>1, <3>1, <3>2, <3>3
  <2>2. CASE ~menu[i].available
    BY <1>1, <2>2, RecordTypes, CallOver
  <2>. QED  BY <2>1, <2>2
<1>4. req'[q] = s
  BY <1>3 DEF Types
<1>5. NoFurther(q)
  BY <1>3, <1>4, NoCheckout
<1>6. CountsOn /\ breaker' \in Breaker /\ UNCHANGED <<kitchen, orders, remote, lock, expired, cart, seen, gen>>
  BY Counting, BreakerTypes DEF Lookup, Types
<1>. QED  BY <1>2, <1>3, <1>5, <1>6, CallGoesOn

LEMMA LookupEnds ==
  ASSUME IInv, NEW q \in Requests, LookupFails(q)
  PROVE  IInv'
<1>. USE DEF IInv
<1>1. req[q].pc \notin {"await", "insert"} /\ req' = [req EXCEPT ![q] = NoRequest] /\ req'[q] = NoRequest
  BY DEF LookupFails, End, Types
<1>2. NoFurther(q)
  BY <1>1, NoCheckout, RecordTypes
<1>3. CountsOn /\ breaker' \in Breaker /\ UNCHANGED <<kitchen, orders, remote, lock, expired, cart, seen, gen>>
  BY Counting, BreakerTypes DEF LookupFails, Types
<1>. QED  BY <1>1, <1>2, <1>3, CallOver, RecordTypes, CallGoesOn

LEMMA LooksUpAll ==
  ASSUME IInv, NEW q \in Requests, LookUpAll(q)
  PROVE  IInv'
<1>. USE DEF IInv
<1>1. PICK carried \in SUBSET Items :
         req' = [req EXCEPT ![q] = [req[q] EXCEPT !.pc = "clear",
                                      !.todo = [i \in Items |-> IF i \in carried THEN req[q].todo[i] ELSE 0]]]
  BY DEF LookUpAll, Wanted
<1>2. PICK todo \in Quantities : todo = [i \in Items |-> IF i \in carried THEN req[q].todo[i] ELSE 0]
  <2>1. 0 \in 0..MaxQty /\ \A i \in Items : req[q].todo[i] \in 0..MaxQty
    BY SlotFields, CheckoutAssumption DEF Quantities
  <2>. QED  BY <2>1 DEF Quantities
<1>3. PICK s : s = [req[q] EXCEPT !.pc = "clear", !.todo = todo]
  OBVIOUS
<1>4. /\ req[q] \in Request /\ req[q].pc = "look up all" /\ req[q].call = "reorder"
  BY SlotFields DEF LookUpAll, RequestInv, CallOf
<1>5. s \in Request /\ s.pc = "clear" /\ s.call = "reorder"
  BY <1>3, <1>4 DEF Request, Steps
<1>6. req' = [req EXCEPT ![q] = s] /\ req'[q] = s
  BY <1>1, <1>2, <1>3 DEF Types
<1>7. CallOf(s) /\ InHand(s) /\ NoFurther(q)
  BY <1>5, <1>6, NoCheckout DEF CallOf, InHand
<1>8. CountsOn /\ breaker' \in Breaker /\ UNCHANGED <<kitchen, orders, remote, lock, expired, cart, seen, gen>>
  BY Counting, BreakerTypes DEF LookUpAll, Types
<1>. QED  BY <1>4, <1>5, <1>6, <1>7, <1>8, CallGoesOn

(* The cart in memory, and back in Redis *)

LEMMA CartFields ==
  ASSUME NEW data \in Cart
  PROVE  /\ data.quantity \in [Items -> 0..MaxQty] /\ data.price \in [Items -> Prices0]
         /\ data.restaurant \in Restaurants \cup {NoRestaurant}
         /\ \A i \in Items : data.quantity[i] \in Nat /\ data.price[i] \in Nat
<1>1. /\ data.quantity \in [Items -> 0..MaxQty] /\ data.price \in [Items -> Prices0]
      /\ data.restaurant \in Restaurants \cup {NoRestaurant}
  BY DEF Cart, Quantities, Prices0
<1>2. Prices0 \subseteq Nat /\ 0..MaxQty \subseteq Nat
  BY CheckoutAssumption DEF Prices0
<1>. QED  BY <1>1, <1>2

LEMMA LineAdded ==
  ASSUME NEW data \in Cart, SoundCart(data), NEW i \in Items, NEW n \in 0..MaxQty, NEW p \in Prices,
         n > 0, data.quantity[i] + n <= MaxQty, OneKitchen(data, i)
  PROVE  AddLine(data, i, n, p) \in Cart /\ SoundCart(AddLine(data, i, n, p))
<1>1. PICK new : new = AddLine(data, i, n, p)
  OBVIOUS
<1>2. /\ new.restaurant = RestaurantOf[i] /\ new.quantity = [data.quantity EXCEPT ![i] = data.quantity[i] + n]
      /\ new.price = [data.price EXCEPT ![i] = p]
      /\ new = [restaurant |-> new.restaurant, quantity |-> new.quantity, price |-> new.price]
  BY <1>1 DEF AddLine
<1>3. data.quantity[i] + n \in 0..MaxQty /\ data.quantity[i] + n > 0 /\ p \in Nat /\ p > 0 /\ p \in Prices0
  BY CartFields, CheckoutAssumption DEF Prices0
<1>4. new.quantity \in [Items -> 0..MaxQty] /\ new.price \in [Items -> Prices0] /\ new.restaurant \in Restaurants
  BY <1>2, <1>3, CartFields, CheckoutAssumption
<1>5. new \in Cart
  BY <1>2, <1>4 DEF Cart, Quantities, Prices0
<1>6. /\ new.quantity[i] = data.quantity[i] + n /\ new.price[i] = p
      /\ \A j \in Items : j # i => new.quantity[j] = data.quantity[j] /\ new.price[j] = data.price[j]
  BY <1>2, CartFields
<1>7. \A j \in Items : new.quantity[j] > 0 <=> new.price[j] > 0
  BY <1>3, <1>6 DEF SoundCart
<1>8. ASSUME NEW j \in Wanted(new.quantity)  PROVE RestaurantOf[j] = new.restaurant
  <2>1. CASE j = i
    BY <1>2, <2>1
  <2>2. CASE j # i
    <3>1. j \in Items /\ j \in Wanted(data.quantity)
      BY <1>6, <1>8, <2>2 DEF Wanted
    <3>2. RestaurantOf[j] = data.restaurant /\ RestaurantOf[j] \in Restaurants
      BY <3>1, CheckoutAssumption DEF SoundCart
    <3>. QED  BY <1>2, <3>2, CheckoutAssumption DEF OneKitchen
  <2>. QED  BY <2>1, <2>2
<1>9. new.quantity # NoLines
  <2>1. NoLines[i] = 0
    BY DEF NoLines
  <2>. QED  BY <1>3, <1>6, <2>1
<1>. QED  BY <1>1, <1>5, <1>7, <1>8, <1>9 DEF SoundCart

LEMMA LineSet ==
  ASSUME NEW data \in Cart, SoundCart(data), NEW i \in Items, NEW n \in 0..MaxQty, data.quantity[i] > 0
  PROVE  SetLine(data, i, n) \in Cart /\ SoundCart(SetLine(data, i, n))
<1>1. PICK new : new = SetLine(data, i, n)
  OBVIOUS
<1>2. /\ new.quantity = [data.quantity EXCEPT ![i] = n]
      /\ new.restaurant = IF new.quantity = NoLines THEN NoRestaurant ELSE data.restaurant
      /\ new.price = IF n = 0 THEN [data.price EXCEPT ![i] = 0] ELSE data.price
      /\ new = [restaurant |-> new.restaurant, quantity |-> new.quantity, price |-> new.price]
  BY <1>1 DEF SetLine
<1>3. 0 \in Prices0 /\ n \in Nat
  BY CheckoutAssumption DEF Prices0
<1>4. new.quantity \in [Items -> 0..MaxQty] /\ new.price \in [Items -> Prices0] /\ new.restaurant \in Restaurants \cup {NoRestaurant}
  BY <1>2, <1>3, CartFields
<1>5. new \in Cart
  BY <1>2, <1>4 DEF Cart, Quantities, Prices0
<1>6. /\ new.quantity[i] = n /\ new.price[i] = IF n = 0 THEN 0 ELSE data.price[i]
      /\ \A j \in Items : j # i => new.quantity[j] = data.quantity[j] /\ new.price[j] = data.price[j]
  BY <1>2, CartFields
<1>7. \A j \in Items : new.quantity[j] > 0 <=> new.price[j] > 0
  BY <1>3, <1>6, CartFields DEF SoundCart
<1>8. ASSUME NEW j \in Wanted(new.quantity)  PROVE RestaurantOf[j] = new.restaurant
  <2>1. j \in Items /\ new.quantity[j] > 0
    BY <1>8 DEF Wanted
  <2>2. j \in Wanted(data.quantity) /\ new.quantity # NoLines
    BY <1>6, <2>1 DEF Wanted, NoLines
  <2>. QED  BY <1>2, <2>2 DEF SoundCart
<1>. QED  BY <1>1, <1>2, <1>5, <1>7, <1>8 DEF SoundCart

LEMMA Loads ==
  ASSUME IInv, NEW q \in Requests, Load(q)
  PROVE  IInv'
<1>. USE DEF IInv
<1>. DEFINE r == req[q]
            data == cart[r.customer]
<1>1. /\ r \in Request /\ r.pc = "load" /\ r.call \in {"add", "update", "reorder"} /\ r.customer \in Customers
      /\ data \in Cart /\ SoundCart(data) /\ r.item \in Items /\ r.quantity \in 0..MaxQty
      /\ r.call # "update" => r.quantity > 0 /\ r.price \in Prices
  <2>1. r \in Request /\ r.customer \in Customers /\ r.item \in Items /\ r.quantity \in 0..MaxQty
    BY SlotFields
  <2>2. data \in Cart /\ SoundCart(data)
    BY <2>1 DEF Types, CartInv
  <2>3. r.pc = "load"
    BY DEF Load
  <2>4. r.call \in {"add", "update", "reorder"} /\ (r.call # "update" => r.quantity > 0 /\ r.price \in Prices)
    BY <2>3 DEF RequestInv, CallOf, InHand
  <2>. QED  BY <2>1, <2>2, <2>3, <2>4
<1>2. PICK s \in Request : /\ req' = [req EXCEPT ![q] = s] /\ s.pc \in {"save", "idle"} /\ s.call # "checkout"
                           /\ CallOf(s) /\ InHand(s)
  <2>1. ASSUME NEW new \in Cart, SoundCart(new), req' = [req EXCEPT ![q] = [r EXCEPT !.pc = "save", !.cart = new]]
        PROVE  \E s \in Request : /\ req' = [req EXCEPT ![q] = s] /\ s.pc \in {"save", "idle"} /\ s.call # "checkout"
                                  /\ CallOf(s) /\ InHand(s)
    <3>1. PICK s : s = [r EXCEPT !.pc = "save", !.cart = new]
      OBVIOUS
    <3>2. s \in Request /\ s.pc = "save" /\ s.call = r.call /\ s.cart = new
      BY <1>1, <3>1 DEF Request, Steps
    <3>3. CallOf(s) /\ InHand(s) /\ s.call # "checkout"
      BY <1>1, <2>1, <3>2 DEF CallOf, InHand
    <3>. QED  BY <2>1, <3>1, <3>2, <3>3
  <2>2. CASE /\ r.call \in {"add", "reorder"} /\ OneKitchen(data, r.item) /\ data.quantity[r.item] + r.quantity <= MaxQty
             /\ req' = [req EXCEPT ![q] = [r EXCEPT !.pc = "save", !.cart = AddLine(data, r.item, r.quantity, r.price)]]
    BY <1>1, <2>1, <2>2, LineAdded
  <2>3. CASE /\ r.call = "update" /\ data.quantity[r.item] > 0
             /\ req' = [req EXCEPT ![q] = [r EXCEPT !.pc = "save", !.cart = SetLine(data, r.item, r.quantity)]]
    BY <1>1, <2>1, <2>3, LineSet
  <2>4. CASE End(q)
    BY <2>4, RecordTypes, CallOver DEF End
  <2>. QED  BY <2>2, <2>3, <2>4 DEF Load
<1>3. req'[q] = s
  BY <1>2 DEF Types
<1>4. NoFurther(q)
  BY <1>2, <1>3, NoCheckout
<1>5. CountsOn /\ breaker' \in Breaker /\ UNCHANGED <<kitchen, orders, remote, lock, expired, cart, seen, gen>>
  BY Counting DEF Load, Types
<1>. QED  BY <1>1, <1>2, <1>4, <1>5, CallGoesOn

LEMMA Saves ==
  ASSUME IInv, NEW q \in Requests, Save(q)
  PROVE  IInv'
<1>. USE DEF IInv
<1>. DEFINE r == req[q]
            left == [r.todo EXCEPT ![r.item] = 0]
<1>1. /\ r \in Request /\ r.pc = "save" /\ r.call \in {"add", "update", "reorder"} /\ r.customer \in Customers
      /\ r.cart \in Cart /\ SoundCart(r.cart) /\ left \in Quantities
  <2>1. left \in Quantities
    BY SlotFields, CheckoutAssumption DEF Quantities
  <2>2. r.pc = "save"
    BY DEF Save
  <2>. QED  BY <2>1, <2>2, SlotFields DEF RequestInv, CallOf, InHand
<1>2. /\ cart' \in [Customers -> Cart] /\ \A c \in Customers : SoundCart(cart'[c])
  <2>1. cart' = [cart EXCEPT ![r.customer] = r.cart]
    BY DEF Save
  <2>. QED  BY <1>1, <2>1 DEF Types, CartInv
<1>3. PICK s \in Request : /\ req' = [req EXCEPT ![q] = s] /\ s.pc \in {"lookup", "idle"} /\ s.call # "checkout"
                           /\ CallOf(s) /\ InHand(s)
  <2>1. CASE left = NoLines
    BY <2>1, RecordTypes, CallOver DEF Save, End
  <2>2. CASE left # NoLines
    <3>1. PICK s : s = [r EXCEPT !.pc = "lookup", !.todo = left]
      OBVIOUS
    <3>2. s \in Request /\ s.pc = "lookup" /\ s.call = r.call
      BY <1>1, <3>1 DEF Request, Steps
    <3>3. CallOf(s) /\ InHand(s) /\ s.call # "checkout"
      BY <1>1, <3>2 DEF CallOf, InHand
    <3>4. req' = [req EXCEPT ![q] = s]
      BY <2>2, <3>1 DEF Save
    <3>. QED  BY <3>2, <3>3, <3>4
  <2>. QED  BY <2>1, <2>2
<1>4. req'[q] = s
  BY <1>3 DEF Types
<1>5. NoFurther(q)
  BY <1>3, <1>4, NoCheckout
<1>6. seen' \in [Customers -> [Items -> Prices0]]
  <2>1. price_hash(r.cart) \in [Items -> Prices0]
    BY <1>1, CartFields DEF price_hash
  <2>. QED  BY <1>1, <2>1 DEF Save, Types
<1>7. CountsOn /\ breaker' \in Breaker /\ UNCHANGED <<kitchen, orders, remote, lock, expired>>
  BY Counting DEF Save, Types
<1>8. gen' \in [Customers -> Nat] /\ GenGrows
  BY DEF Save, GenGrows, Types
<1>. QED  BY <1>1, <1>2, <1>3, <1>5, <1>6, <1>7, <1>8, CallMoves

LEMMA Cleared ==
  ASSUME IInv, NEW c \in Customers, clear_cart(c)
  PROVE  /\ cart' \in [Customers -> Cart] /\ \A w \in Customers : SoundCart(cart'[w])
         /\ gen' \in [Customers -> Nat] /\ GenGrows /\ gen'[c] # gen[c]
<1>1. cart' \in [Customers -> Cart] /\ \A w \in Customers : SoundCart(cart'[w])
  BY RecordTypes DEF clear_cart, IInv, Types, CartInv
<1>2. gen \in [Customers -> Nat] /\ gen' = [gen EXCEPT ![c] = @ + 1]
  BY DEF clear_cart, IInv, Types
<1>3. gen' \in [Customers -> Nat] /\ \A w \in Customers : gen[w] <= gen'[w]
  BY ONLY <1>2, c \in Customers
<1>4. gen'[c] # gen[c]
  BY ONLY <1>2, c \in Customers
<1>. QED  BY <1>1, <1>3, <1>4 DEF GenGrows

LEMMA ReorderClears ==
  ASSUME IInv, NEW q \in Requests, ClearForReorder(q)
  PROVE  IInv'
<1>. USE DEF IInv
<1>1. /\ req[q] \in Request /\ req[q].pc = "clear" /\ req[q].call = "reorder" /\ req[q].customer \in Customers
      /\ clear_cart(req[q].customer)
  BY SlotFields DEF ClearForReorder, RequestInv, CallOf
<1>2. PICK s \in Request : /\ req' = [req EXCEPT ![q] = s] /\ s.pc \in {"lookup", "idle"} /\ s.call # "checkout"
                           /\ CallOf(s) /\ InHand(s)
  <2>1. CASE req[q].todo = NoLines
    BY <2>1, RecordTypes, CallOver DEF ClearForReorder, End
  <2>2. CASE req[q].todo # NoLines
    <3>1. PICK s : s = [req[q] EXCEPT !.pc = "lookup"]
      OBVIOUS
    <3>2. s \in Request /\ s.pc = "lookup" /\ s.call = "reorder"
      BY <1>1, <3>1 DEF Request, Steps
    <3>3. CallOf(s) /\ InHand(s)
      BY <3>2 DEF CallOf, InHand
    <3>4. req' = [req EXCEPT ![q] = s]
      BY <2>2, <3>1 DEF ClearForReorder
    <3>. QED  BY <3>2, <3>3, <3>4
  <2>. QED  BY <2>1, <2>2
<1>3. req'[q] = s
  BY <1>2 DEF Types
<1>4. NoFurther(q)
  BY <1>2, <1>3, NoCheckout
<1>5. CountsOn /\ breaker' \in Breaker /\ seen' \in [Customers -> [Items -> Prices0]]
      /\ UNCHANGED <<kitchen, orders, remote, lock, expired>>
  BY Counting DEF ClearForReorder, Types
<1>. QED  BY <1>1, <1>2, <1>4, <1>5, Cleared, CallMoves

LEMMA CheckoutClears ==
  ASSUME IInv, NEW q \in Requests, EmptyTheCart(q)
  PROVE  IInv'
<1>. USE DEF IInv
<1>1. /\ req[q] \in Request /\ req[q].pc = "empty cart" /\ req[q].call = "checkout" /\ req[q].customer \in Customers
      /\ clear_cart(req[q].customer)
  BY SlotFields DEF EmptyTheCart, RequestInv, CallOf
<1>2. PICK s : s = [req[q] EXCEPT !.pc = "unlock"]
  OBVIOUS
<1>3. s \in Request /\ s.pc = "unlock" /\ s.call = "checkout" /\ s.customer = req[q].customer
  BY <1>1, <1>2 DEF Request, Steps
<1>4. req' = [req EXCEPT ![q] = s] /\ req'[q] = s
  BY <1>2 DEF EmptyTheCart, Types
<1>5. CallOf(s) /\ InHand(s)
  BY <1>3 DEF CallOf, InHand
<1>6. gen'[req[q].customer] # gen[req[q].customer]
  BY <1>1, Cleared
<1>7. NoFurther(q)
  BY <1>1, <1>3, <1>4, <1>6 DEF NoFurther, StillCheckingOut, StillReading, ClearsFirst, CheckingOut, ReadTheCart
<1>8. CountsOn /\ breaker' \in Breaker /\ seen' \in [Customers -> [Items -> Prices0]]
      /\ UNCHANGED <<kitchen, orders, remote, lock, expired>>
  BY Counting DEF EmptyTheCart, Types
<1>. QED  BY <1>1, <1>3, <1>4, <1>5, <1>7, <1>8, Cleared, CallMoves

(* Checkout *)

Elsewhere == UNCHANGED <<kitchen, orders, cart, seen, gen, expired>>
Moves(q, s, h) ==
    /\ s \in Request /\ req' = [req EXCEPT ![q] = s]
    /\ h \in Handler /\ remote' = [remote EXCEPT ![q] = h]
    /\ Elsewhere /\ breaker' \in Breaker /\ lock' \in [Customers -> BOOLEAN] /\ CountsOn

LEMMA SlotTypes ==
  ASSUME Types, NEW q \in Requests, NEW s, NEW h, Moves(q, s, h)
  PROVE  /\ Types' /\ req'[q] = s /\ remote'[q] = h /\ SlotOnly(q) /\ OrdersKept
         /\ DOMAIN orders' = DOMAIN orders /\ GenGrows
         /\ count'.faults = 0 => count.faults = 0
<1>. USE DEF Moves
<1>1. /\ req' \in [Requests -> Request] /\ req'[q] = s /\ \A p \in Requests : p # q => req'[p] = req[p]
      /\ remote' \in [Requests -> Handler] /\ remote'[q] = h /\ \A p \in Requests : p # q => remote'[p] = remote[p]
  BY DEF Types
<1>2. Types'
  BY <1>1 DEF Types, CountsOn, Elsewhere, kitchen
<1>3. GenGrows
  BY DEF Types, GenGrows, Elsewhere
<1>4. SlotOnly(q) /\ OrdersKept /\ DOMAIN orders' = DOMAIN orders
  BY <1>1 DEF SlotOnly, OrdersKept, Elsewhere
<1>5. count'.faults = 0 => count.faults = 0
  BY DEF CountsOn, Types
<1>. QED  BY <1>1, <1>2, <1>3, <1>4, <1>5

LEMMA CartsStay ==
  ASSUME CartInv, UNCHANGED <<cart, orders>>
  PROVE  CartInv'
BY DEF CartInv, Wanted

\* A call and its handler move, the portions between them accounted for.
LEMMA SlotGoesOn ==
  ASSUME IInv, NEW q \in Requests, NEW s \in Request, NEW h \in Handler, Elsewhere, UNCHANGED lock,
         req' = [req EXCEPT ![q] = s], remote' = [remote EXCEPT ![q] = h], breaker' \in Breaker, CountsOn,
         NoFurther(q), CallOf(s), InHand(s), s.pc \in {"flush", "await", "commit"} /\ s.call = "cancel" => s.order \in DOMAIN orders,
         PortionInv', HandlerInv(q)'
  PROVE  IInv'
<1>. USE DEF IInv
<1>0. lock' \in [Customers -> BOOLEAN]
  BY DEF Types
<1>1. /\ Types' /\ req'[q] = s /\ remote'[q] = h /\ SlotOnly(q) /\ OrdersKept
      /\ DOMAIN orders' = DOMAIN orders /\ GenGrows
  <2>1. Moves(q, s, h)
    BY <1>0 DEF Moves
  <2>. QED  BY <2>1, SlotTypes
<1>2. UNCHANGED <<cart, orders, expired>>
  BY DEF Elsewhere
<1>3. CartInv'
  BY <1>2, CartsStay
<1>4. GenInv' /\ LockInv' /\ OrderedOnce'
  BY <1>1, <1>2, LockStays, OnceStays
<1>5. RequestInv(q)'
  BY <1>1 DEF RequestInv
<1>6. count.faults <= count'.faults
  BY DEF CountsOn
<1>. QED  BY <1>1, <1>3, <1>4, <1>5, <1>6, SlotMoves

\* After a fault nobody may be left to account for a reservation.
LEMMA PortionsForgotten ==
  ASSUME Types, Types', PortionInv, UNCHANGED <<kitchen, orders>>, count'.faults > 0,
         \A p \in Requests : OnTheWay(p)' \in {OnTheWay(p), NoLines}
  PROVE  PortionInv'
<1>1. ASSUME NEW i \in Tracked  PROVE Ordered(i)' = Ordered(i) /\ PutBack(i)' = PutBack(i) /\ Reserved(i)' \subseteq Reserved(i)
  <2>1. Ordered(i)' = Ordered(i) /\ PutBack(i)' = PutBack(i)
    BY DEF Ordered, PutBack
  <2>2. ASSUME NEW p \in Requests, NEW n \in 1..MaxQty, n <= OnTheWay(p)'[i]  PROVE n <= OnTheWay(p)[i]
    <3>1. NoLines[i] = 0
      BY CheckoutAssumption DEF NoLines
    <3>. QED  BY <2>2, <3>1
  <2>3. Reserved(i)' \subseteq Reserved(i)
    BY <2>2 DEF Reserved
  <2>. QED  BY <2>1, <2>3
<1>2. ASSUME NEW i \in Tracked
      PROVE  /\ IsFiniteSet(Ordered(i)') /\ IsFiniteSet(PutBack(i)') /\ IsFiniteSet(Reserved(i)')
             /\ Taken(i)' <= Taken(i) /\ Taken(i)' \in Int /\ Taken(i) \in Int /\ Supplied(i)' = Supplied(i) /\ Supplied(i) \in Int
  <2>1. IsFiniteSet(Ordered(i)) /\ IsFiniteSet(PutBack(i)) /\ IsFiniteSet(Reserved(i))
    BY DEF PortionInv
  <2>2. /\ Cardinality(Ordered(i)) \in Nat /\ Cardinality(PutBack(i)) \in Nat /\ Cardinality(Reserved(i)) \in Nat
    BY <2>1, FS_CardinalityType
  <2>3. IsFiniteSet(Reserved(i)') /\ Cardinality(Reserved(i)') <= Cardinality(Reserved(i)) /\ Cardinality(Reserved(i)') \in Nat
    BY <1>1, <2>1, FS_Subset, FS_CardinalityType
  <2>4. supply[i] \in Int /\ supply' = supply
    BY DEF Types, kitchen
  <2>. QED  BY <1>1, <2>1, <2>2, <2>3, <2>4 DEF Taken, Supplied
<1>3. NothingOversold'
  <2>. SUFFICES ASSUME ~stale, NEW i \in Tracked  PROVE stock[i] + Taken(i)' <= Supplied(i)'
    BY DEF NothingOversold, kitchen
  <2>1. stock[i] + Taken(i) <= Supplied(i) /\ stock[i] \in Nat
    BY DEF PortionInv, NothingOversold, Types
  <2>. QED  BY <1>2, <2>1
<1>4. PortionsAccounted'
  BY DEF PortionsAccounted
<1>. QED  BY <1>2, <1>3, <1>4 DEF PortionInv

LEMMA CheckoutStarts ==
  ASSUME IInv, NEW q \in Requests, NEW c \in Customers, StartCheckout(q, c)
  PROVE  IInv'
<1>. USE DEF IInv
<1>1. PICK shown \in {seen[c], price_hash(cart[c])} :
         req' = [req EXCEPT ![q] = [NoRequest EXCEPT !.pc = "read cart", !.call = "checkout",
                                                    !.customer = c, !.shown = shown]]
  BY DEF StartCheckout
<1>2. PICK s : s = [NoRequest EXCEPT !.pc = "read cart", !.call = "checkout", !.customer = c, !.shown = shown]
  OBVIOUS
<1>3. s \in Request /\ s.pc = "read cart" /\ s.call = "checkout" /\ s.customer = c
  <2>1. seen[c] \in [Items -> Prices0] /\ cart[c] \in Cart
    BY DEF Types
  <2>2. shown \in [Items -> Prices0]
    BY <2>1, CartFields DEF price_hash
  <2>. QED  BY <1>2, <2>2, RecordTypes DEF Request, Steps, Calls, Prices0
<1>4. req' = [req EXCEPT ![q] = s] /\ remote' = [remote EXCEPT ![q] = remote[q]] /\ remote[q] \in Handler
  BY <1>1, <1>2, SlotFields DEF StartCheckout, Types
<1>5. /\ req[q].pc = "idle" /\ remote[q].pc = "idle" /\ CountsOn /\ ~lock[c] /\ UNCHANGED <<orders, remote, gen, cart, expired>>
      /\ UNCHANGED <<stock, supply, stale>>
      /\ lock' = [lock EXCEPT ![c] = TRUE] /\ lock' \in [Customers -> BOOLEAN] /\ breaker' \in Breaker /\ Elsewhere
  BY Accepted DEF StartCheckout, Types, Elsewhere, kitchen
<1>6. /\ Types' /\ req'[q] = s /\ remote'[q] = remote[q] /\ SlotOnly(q) /\ OrdersKept
      /\ DOMAIN orders' = DOMAIN orders /\ GenGrows
  <2>1. Moves(q, s, remote[q])
    BY <1>3, <1>4, <1>5 DEF Moves
  <2>. QED  BY <2>1, SlotTypes
<1>7. \A p \in Requests : p # q => req'[p] = req[p]
  BY <1>6 DEF SlotOnly
<1>8. GenInv'
  BY <1>3, <1>5, <1>6, <1>7 DEF GenInv, ReadTheCart
<1>9. ASSUME NEW w \in Customers, ~expired[w]
      PROVE  OneHoldsTheLock(w)' /\ OrderedIsCleared(w)' /\ NotOrderedYet(w)'
  <2>1. OneHoldsTheLock(w) /\ OrderedIsCleared(w) /\ NotOrderedYet(w)
    BY <1>9 DEF LockInv
  <2>2. ~ReadTheCart(q)' /\ (CheckingOut(q, w)' => w = c)
    BY <1>3, <1>6 DEF ReadTheCart, CheckingOut
  <2>3. \A p \in Requests : p # q => /\ CheckingOut(p, w)' = CheckingOut(p, w) /\ ReadTheCart(p)' = ReadTheCart(p)
                                     /\ req'[p] = req[p]
    BY <1>7 DEF ReadTheCart, CheckingOut
  <2>4. NotOrderedYet(w)'
    BY <1>5, <2>1, <2>2, <2>3 DEF NotOrderedYet
  <2>5. CASE w = c
    <3>1. /\ \A p \in Requests : ~CheckingOut(p, w)
          /\ \A k \in DOMAIN orders : orders[k].customer = w => orders[k].gen # gen[w]
      BY <1>5, <2>1, <2>5 DEF OneHoldsTheLock, OrderedIsCleared
    <3>2. lock'[w] = TRUE
      BY <1>5, <2>5 DEF Types
    <3>3. OneHoldsTheLock(w)'
      BY <2>3, <3>1, <3>2 DEF OneHoldsTheLock
    <3>4. OrderedIsCleared(w)'
      BY <1>5, <3>1 DEF OrderedIsCleared
    <3>. QED  BY <2>4, <3>3, <3>4
  <2>6. CASE w # c
    <3>1. lock'[w] = lock[w] /\ ~CheckingOut(q, w)' /\ ~CheckingOut(q, w)
      BY <1>5, <2>2, <2>6 DEF Types, CheckingOut
    <3>2. OneHoldsTheLock(w)'
      BY <2>1, <2>3, <3>1 DEF OneHoldsTheLock
    <3>3. OrderedIsCleared(w)'
      BY <1>5, <2>1, <2>3, <3>1 DEF OrderedIsCleared
    <3>. QED  BY <2>4, <3>2, <3>3
  <2>. QED  BY <2>5, <2>6
<1>10. LockInv'
  BY <1>5, <1>9 DEF LockInv
<1>11. OrderedOnce' /\ CartInv'
  BY <1>5, <1>6, OnceStays, CartsStay
<1>12. \A p \in Requests : OnTheWay(p)' = OnTheWay(p)
  BY <1>3, <1>5, <1>6, <1>7 DEF OnTheWay
<1>13. count.faults <= count'.faults
  BY <1>5 DEF CountsOn
<1>14. \A k \in DOMAIN orders : orders'[k].returned = orders[k].returned
  BY <1>5
<1>15. PortionInv'
  BY <1>5, <1>6, <1>12, <1>13, <1>14, PortionsStay
<1>16. RequestInv(q)'
  BY <1>3, <1>6 DEF RequestInv, CallOf, InHand
<1>17. HandlerInv(q)'
  BY <1>3, <1>5, <1>6 DEF HandlerInv
<1>. QED  BY <1>6, <1>8, <1>10, <1>11, <1>13, <1>15, <1>16, <1>17, SlotMoves

\* The order read from Redis goes out to be validated, or the checkout ends.
LEMMA CartRead ==
  ASSUME IInv, NEW q \in Requests, ReadCart(q)
  PROVE  IInv'
<1>. USE DEF IInv
<1>. DEFINE r == req[q]
            data == cart[r.customer]
<1>1. /\ r \in Request /\ r.pc = "read cart" /\ r.call = "checkout" /\ r.customer \in Customers
      /\ data \in Cart /\ SoundCart(data) /\ gen[r.customer] \in Nat
  BY SlotFields DEF ReadCart, RequestInv, CallOf, Types, CartInv
<1>2. /\ UNCHANGED <<orders, cart, gen, lock, expired, stock, supply, stale>> /\ Elsewhere
      /\ CountsOn /\ breaker' \in Breaker /\ count' = count /\ lock' \in [Customers -> BOOLEAN]
  BY Counting DEF ReadCart, Elsewhere, kitchen, Types
<1>3. \A k \in DOMAIN orders : orders'[k].returned = orders[k].returned
  BY <1>2
<1>4. remote[q].pc \notin {"ok", "refused"} /\ remote[q] \in Handler
  BY <1>1, SlotFields DEF HandlerInv
<1>5. CASE /\ req' = [req EXCEPT ![q] = [r EXCEPT !.pc = "await", !.cart = data, !.gen = gen[r.customer]]]
           /\ remote' = [remote EXCEPT ![q] = [NoHandler EXCEPT !.pc = "read", !.restaurant = data.restaurant,
                                                               !.quantity = data.quantity, !.price = data.price]]
           /\ r.shown = price_hash(data) /\ data.quantity # NoLines
  <2>1. PICK s, h : /\ s = [r EXCEPT !.pc = "await", !.cart = data, !.gen = gen[r.customer]]
                    /\ h = [NoHandler EXCEPT !.pc = "read", !.restaurant = data.restaurant,
                                             !.quantity = data.quantity, !.price = data.price]
    OBVIOUS
  <2>2. /\ s \in Request /\ s.pc = "await" /\ s.call = "checkout" /\ s.customer = r.customer
        /\ s.cart = data /\ s.gen = gen[r.customer] /\ s.shown = r.shown
    BY <1>1, <2>1 DEF Request, Steps
  <2>3. /\ h \in Handler /\ h.pc = "read" /\ h.kind = "reserve" /\ h.quantity = data.quantity /\ h.price = data.price
    BY <1>1, <2>1, RecordTypes, CartFields DEF Handler, Quantities, Prices0
  <2>4. req' = [req EXCEPT ![q] = s] /\ remote' = [remote EXCEPT ![q] = h]
    BY <1>5, <2>1
  <2>5. /\ Types' /\ req'[q] = s /\ remote'[q] = h /\ SlotOnly(q) /\ OrdersKept
        /\ DOMAIN orders' = DOMAIN orders /\ GenGrows
    <3>1. Moves(q, s, h)
      BY <1>2, <2>2, <2>3, <2>4 DEF Moves
    <3>. QED  BY <3>1, SlotTypes
  <2>6. \A p \in Requests : p # q => req'[p] = req[p] /\ remote'[p] = remote[p]
    BY <2>5 DEF SlotOnly
  <2>7. GenInv'
    <3>1. \A k \in DOMAIN orders' : orders'[k].gen <= gen'[orders'[k].customer]
      BY <1>2 DEF GenInv
    <3>2. req'[q].gen <= gen'[req'[q].customer]
      <4>1. req'[q].gen = gen[r.customer] /\ req'[q].customer = r.customer /\ gen' = gen
        BY <1>2, <2>2, <2>5
      <4>2. PICK n \in Nat : n = gen[r.customer]
        BY <1>1
      <4>. QED  BY <4>1, <4>2
    <3>3. ASSUME NEW p \in Requests, p # q, ReadTheCart(p)'  PROVE req'[p].gen <= gen'[req'[p].customer]
      BY <1>2, <2>6, <3>3 DEF GenInv, ReadTheCart
    <3>. QED  BY <3>1, <3>2, <3>3 DEF GenInv
  <2>8. ASSUME NEW c \in Customers, ~expired[c]
        PROVE  OneHoldsTheLock(c)' /\ OrderedIsCleared(c)' /\ NotOrderedYet(c)'
    <3>1. OneHoldsTheLock(c) /\ OrderedIsCleared(c) /\ NotOrderedYet(c)
      BY <2>8 DEF LockInv
    <3>2. \A p \in Requests : CheckingOut(p, c)' = CheckingOut(p, c)
      BY <1>1, <2>2, <2>5, <2>6 DEF CheckingOut
    <3>3. CheckingOut(q, c) => \A k \in DOMAIN orders : orders[k].customer = c => orders[k].gen # gen[c]
      BY <1>1, <3>1 DEF OrderedIsCleared
    <3>4. OneHoldsTheLock(c)'
      BY <1>2, <3>1, <3>2 DEF OneHoldsTheLock
    <3>5. OrderedIsCleared(c)'
      BY <1>2, <2>6, <3>1, <3>2, <3>3 DEF OrderedIsCleared
    <3>6. NotOrderedYet(c)'
      <4>. SUFFICES ASSUME NEW p \in Requests, NEW k \in DOMAIN orders, CheckingOut(p, c)', ReadTheCart(p)', orders[k].customer = c
                    PROVE  orders[k].gen # req'[p].gen
        BY <1>2 DEF NotOrderedYet
      <4>1. CASE p = q
        <5>1. CheckingOut(q, c) /\ c = r.customer
          BY <3>2, <4>1 DEF CheckingOut
        <5>. QED  BY <2>2, <2>5, <3>3, <4>1, <5>1
      <4>2. CASE p # q
        BY <2>6, <3>1, <3>2, <4>2 DEF NotOrderedYet, ReadTheCart
      <4>. QED  BY <4>1, <4>2
    <3>. QED  BY <3>4, <3>5, <3>6
  <2>9. LockInv'
    BY <1>2, <2>8 DEF LockInv
  <2>10. \A p \in Requests : OnTheWay(p)' = OnTheWay(p)
    <3>1. OnTheWay(q)' = NoLines /\ OnTheWay(q) = NoLines
      BY <1>1, <1>4, <2>2, <2>3, <2>5 DEF OnTheWay
    <3>. QED  BY <2>6, <3>1 DEF OnTheWay
  <2>11. count.faults <= count'.faults
    BY <1>2 DEF CountsOn
  <2>12. PortionInv'
    BY <1>2, <1>3, <2>5, <2>10, <2>11, PortionsStay
  <2>13. RequestInv(q)'
    BY <1>1, <1>5, <2>2, <2>5 DEF RequestInv, CallOf, InHand, price_hash
  <2>14. HandlerInv(q)'
    BY <2>2, <2>3, <2>5 DEF HandlerInv
  <2>15. OrderedOnce' /\ CartInv'
    BY <1>2, <2>5, OnceStays, CartsStay
  <2>. QED  BY <2>5, <2>7, <2>9, <2>11, <2>12, <2>13, <2>14, <2>15, SlotMoves
<1>6. CASE req' = [req EXCEPT ![q].pc = "unlock"] /\ UNCHANGED remote
  <2>1. PICK s : s = [r EXCEPT !.pc = "unlock"]
    OBVIOUS
  <2>2. s \in Request /\ s.pc = "unlock" /\ s.call = "checkout" /\ s.customer = r.customer
    BY <1>1, <2>1 DEF Request, Steps
  <2>3. req' = [req EXCEPT ![q] = s] /\ req'[q] = s
    BY <1>6, <2>1 DEF Types
  <2>4. CallOf(s) /\ InHand(s)
    BY <2>2 DEF CallOf, InHand
  <2>5. NoFurther(q)
    BY <1>1, <2>2, <2>3 DEF NoFurther, StillCheckingOut, StillReading, ClearsFirst, CheckingOut, ReadTheCart
  <2>6. UNCHANGED <<kitchen, orders, remote, lock, expired, cart, seen, gen>>
    BY <1>6 DEF ReadCart
  <2>. QED  BY <1>1, <1>2, <2>2, <2>3, <2>4, <2>5, <2>6, CallGoesOn
<1>. QED  BY <1>5, <1>6 DEF ReadCart

\* A call that keeps to the cart it read.
LEMMA KeepsItsCart ==
  ASSUME NEW q \in Requests, req[q].pc \notin {"idle", "empty cart"},
         req'[q].call = req[q].call, req'[q].customer = req[q].customer, req'[q].gen = req[q].gen,
         req'[q].pc \in {"await", "insert"} => req[q].pc \in {"await", "insert"}
  PROVE  NoFurther(q)
BY DEF NoFurther, StillCheckingOut, StillReading, ClearsFirst, CheckingOut, ReadTheCart

LEMMA Receives ==
  ASSUME IInv, NEW q \in Requests, Receive(q)
  PROVE  IInv'
<1>. USE DEF IInv
<1>. DEFINE r == req[q]
            h == remote[q]
<1>1. /\ r \in Request /\ r.pc = "await" /\ r.call \in {"checkout", "cancel"} /\ r.cart \in Cart
      /\ h \in Handler /\ h.pc \in {"ok", "refused"}
  BY SlotFields DEF Receive, RequestInv, CallOf
<1>2. /\ r.call = "checkout" => /\ SoundCart(r.cart) /\ r.cart.price = r.shown /\ r.cart.quantity # NoLines /\ h.kind = "reserve"
                                /\ h.quantity = r.cart.quantity /\ h.price = r.cart.price
      /\ r.call = "cancel" => r.order \in DOMAIN orders /\ h.kind = "release"
  BY <1>1 DEF RequestInv, InHand, HandlerInv
<1>3. /\ UNCHANGED <<orders, lock, expired, stock, supply, stale>> /\ Elsewhere
      /\ CountsOn /\ breaker' \in Breaker /\ remote' = [remote EXCEPT ![q] = NoHandler] /\ NoHandler \in Handler
      /\ lock' \in [Customers -> BOOLEAN]
  BY Counting, BreakerTypes, RecordTypes DEF Receive, Elsewhere, kitchen, Types
<1>4. PICK s \in Request :
         /\ req' = [req EXCEPT ![q] = s] /\ s.call = r.call /\ s.customer = r.customer /\ s.gen = r.gen /\ s.order = r.order
         /\ s.cart.quantity = r.cart.quantity /\ CallOf(s) /\ InHand(s)
         /\ s.pc = IF r.call = "cancel" THEN "commit" ELSE IF h.pc = "ok" THEN "insert" ELSE "unlock"
  <2>1. CASE r.call = "cancel"
    <3>1. PICK s : s = [r EXCEPT !.pc = "commit"]
      OBVIOUS
    <3>2. /\ s \in Request /\ s.pc = "commit" /\ s.call = r.call /\ s.customer = r.customer /\ s.gen = r.gen /\ s.order = r.order
          /\ s.cart = r.cart
      BY <1>1, <3>1 DEF Request, Steps
    <3>3. CallOf(s) /\ InHand(s)
      BY <2>1, <3>2 DEF CallOf, InHand
    <3>4. req' = [req EXCEPT ![q] = s]
      BY <2>1, <3>1 DEF Receive
    <3>. QED  BY <2>1, <3>2, <3>3, <3>4
  <2>2. CASE r.call = "checkout" /\ h.pc = "ok"
    <3>1. PICK s : s = [r EXCEPT !.pc = "insert", !.cart.price = h.price]
      OBVIOUS
    <3>2. /\ s \in Request /\ s.pc = "insert" /\ s.call = r.call /\ s.customer = r.customer /\ s.gen = r.gen /\ s.order = r.order
          /\ s.cart = r.cart /\ s.shown = r.shown
      <4>1. [r.cart EXCEPT !.price = h.price] = r.cart
        BY <1>1, <1>2, <2>2 DEF Cart
      <4>. QED  BY <1>1, <3>1, <4>1 DEF Request, Steps
    <3>3. CallOf(s) /\ InHand(s)
      BY <1>2, <2>2, <3>2 DEF CallOf, InHand
    <3>4. req' = [req EXCEPT ![q] = s]
      BY <2>2, <3>1 DEF Receive
    <3>. QED  BY <2>2, <3>2, <3>3, <3>4
  <2>3. CASE r.call = "checkout" /\ h.pc = "refused"
    <3>1. PICK s : s = [r EXCEPT !.pc = "unlock"]
      OBVIOUS
    <3>2. /\ s \in Request /\ s.pc = "unlock" /\ s.call = r.call /\ s.customer = r.customer /\ s.gen = r.gen /\ s.order = r.order
          /\ s.cart = r.cart
      BY <1>1, <3>1 DEF Request, Steps
    <3>3. CallOf(s) /\ InHand(s)
      BY <2>3, <3>2 DEF CallOf, InHand
    <3>4. req' = [req EXCEPT ![q] = s]
      BY <2>3, <3>1 DEF Receive
    <3>. QED  BY <2>3, <3>2, <3>3, <3>4
  <2>. QED  BY <1>1, <2>1, <2>2, <2>3
<1>5. /\ Types' /\ req'[q] = s /\ remote'[q] = NoHandler /\ SlotOnly(q) /\ OrdersKept
      /\ DOMAIN orders' = DOMAIN orders
  <2>1. Moves(q, s, NoHandler)
    BY <1>3, <1>4 DEF Moves
  <2>. QED  BY <2>1, SlotTypes
<1>6. NoFurther(q)
  BY <1>1, <1>4, <1>5, KeepsItsCart
<1>7. \A p \in Requests : OnTheWay(p)' = OnTheWay(p)
  <2>1. OnTheWay(q)' = IF s.pc = "insert" THEN s.cart.quantity ELSE NoLines
    BY <1>5, RecordTypes DEF OnTheWay
  <2>2. OnTheWay(q) = IF s.pc = "insert" THEN s.cart.quantity ELSE NoLines
    BY <1>1, <1>2, <1>4 DEF OnTheWay
  <2>. QED  BY <1>5, <2>1, <2>2 DEF OnTheWay, SlotOnly
<1>8. PortionInv'
  <2>1. count.faults <= count'.faults
    BY <1>3 DEF CountsOn
  <2>2. \A k \in DOMAIN orders : orders'[k].returned = orders[k].returned
    BY <1>3
  <2>. QED  BY <1>3, <1>5, <1>7, <2>1, <2>2, PortionsStay
<1>9. HandlerInv(q)'
  BY <1>4, <1>5, RecordTypes DEF HandlerInv
<1>. QED  BY <1>1, <1>2, <1>3, <1>4, <1>6, <1>8, <1>9, SlotGoesOn

LEMMA TimesOut ==
  ASSUME IInv, NEW q \in Requests, Timeout(q)
  PROVE  IInv'
<1>. USE DEF IInv
<1>. DEFINE r == req[q]
<1>1. /\ r \in Request /\ r.pc = "await" /\ r.call \in {"checkout", "cancel"} /\ r.cart \in Cart
      /\ r.call = "cancel" => r.order \in DOMAIN orders
  BY SlotFields DEF Timeout, RequestInv, CallOf
<1>2. /\ UNCHANGED <<orders, lock, expired, kitchen>> /\ Elsewhere
      /\ CountsOn /\ count'.faults > 0 /\ breaker' \in Breaker /\ lock' \in [Customers -> BOOLEAN]
  BY Counting, BreakerTypes DEF Timeout, Elsewhere, Types
<1>3. PICK s : s = [r EXCEPT !.pc = IF r.call = "cancel" THEN "commit" ELSE "unlock"]
  OBVIOUS
<1>4. /\ s \in Request /\ s.call = r.call /\ s.customer = r.customer /\ s.gen = r.gen /\ s.order = r.order
      /\ s.pc = IF r.call = "cancel" THEN "commit" ELSE "unlock"
  BY <1>1, <1>3 DEF Request, Steps
<1>5. req' = [req EXCEPT ![q] = s]
  BY <1>3 DEF Timeout
<1>6. PICK h \in Handler : /\ remote' = [remote EXCEPT ![q] = h]
                           /\ \/ h = NoHandler
                              \/ h = remote[q] /\ h.pc \in {"read", "write"}
  <2>1. CASE remote' = [remote EXCEPT ![q] = NoHandler]
    BY <2>1, RecordTypes
  <2>2. CASE remote[q].pc \in {"read", "write"} /\ remote' = remote
    <3>1. remote' = [remote EXCEPT ![q] = remote[q]] /\ remote[q] \in Handler
      BY <2>2, SlotFields DEF Types
    <3>. QED  BY <2>2, <3>1
  <2>. QED  BY <2>1, <2>2 DEF Timeout
<1>7. /\ Types' /\ req'[q] = s /\ remote'[q] = h /\ SlotOnly(q)
  <2>1. Moves(q, s, h)
    BY <1>2, <1>4, <1>5, <1>6 DEF Moves
  <2>. QED  BY <2>1, SlotTypes
<1>8. CallOf(s) /\ InHand(s)
  BY <1>1, <1>4 DEF CallOf, InHand
<1>9. NoFurther(q)
  BY <1>1, <1>4, <1>7, KeepsItsCart
<1>10. PortionInv'
  <2>1. OnTheWay(q)' = NoLines
    BY <1>4, <1>6, <1>7, RecordTypes DEF OnTheWay
  <2>2. \A p \in Requests : OnTheWay(p)' \in {OnTheWay(p), NoLines}
    BY <1>7, <2>1 DEF OnTheWay, SlotOnly
  <2>. QED  BY <1>2, <1>7, <2>2, PortionsForgotten
<1>11. HandlerInv(q)'
  BY <1>2, <1>4, <1>6, <1>7, RecordTypes DEF HandlerInv
<1>. QED  BY <1>1, <1>2, <1>4, <1>5, <1>6, <1>8, <1>9, <1>10, <1>11, SlotGoesOn

LEMMA InsertEnds ==
  ASSUME IInv, NEW q \in Requests, InsertFails(q)
  PROVE  IInv'
<1>. USE DEF IInv
<1>. DEFINE r == req[q]
<1>1. r \in Request /\ r.pc = "insert" /\ r.call = "checkout" /\ remote[q].pc = "idle" /\ remote[q] \in Handler
  BY SlotFields DEF InsertFails, RequestInv, CallOf, HandlerInv
<1>2. /\ UNCHANGED <<orders, lock, expired, kitchen>> /\ Elsewhere /\ remote' = [remote EXCEPT ![q] = remote[q]]
      /\ CountsOn /\ count'.faults > 0 /\ breaker' \in Breaker /\ lock' \in [Customers -> BOOLEAN]
  BY Counting DEF InsertFails, Elsewhere, Types
<1>3. PICK s : s = [r EXCEPT !.pc = "unlock"]
  OBVIOUS
<1>4. s \in Request /\ s.call = "checkout" /\ s.customer = r.customer /\ s.gen = r.gen /\ s.pc = "unlock"
  BY <1>1, <1>3 DEF Request, Steps
<1>5. req' = [req EXCEPT ![q] = s]
  BY <1>3 DEF InsertFails
<1>6. Types' /\ req'[q] = s /\ remote'[q] = remote[q] /\ SlotOnly(q)
  <2>1. Moves(q, s, remote[q])
    BY <1>1, <1>2, <1>4, <1>5 DEF Moves
  <2>. QED  BY <2>1, SlotTypes
<1>7. CallOf(s) /\ InHand(s)
  BY <1>4 DEF CallOf, InHand
<1>8. NoFurther(q)
  BY <1>1, <1>4, <1>6, KeepsItsCart
<1>9. PortionInv'
  <2>1. OnTheWay(q)' = NoLines
    BY <1>1, <1>4, <1>6 DEF OnTheWay
  <2>2. \A p \in Requests : OnTheWay(p)' \in {OnTheWay(p), NoLines}
    BY <1>6, <2>1 DEF OnTheWay, SlotOnly
  <2>. QED  BY <1>2, <1>6, <2>2, PortionsForgotten
<1>10. HandlerInv(q)'
  BY <1>1, <1>4, <1>6 DEF HandlerInv
<1>. QED  BY <1>1, <1>2, <1>4, <1>5, <1>7, <1>8, <1>9, <1>10, SlotGoesOn

\* The key is deleted, and none of the customer's checkouts is left.
LEMMA Unlocks ==
  ASSUME IInv, NEW q \in Requests, Unlock(q)
  PROVE  IInv'
<1>. USE DEF IInv
<1>. DEFINE d == req[q].customer
<1>1. /\ req[q].pc = "unlock" /\ req[q].call = "checkout" /\ d \in Customers
      /\ remote[q] \in Handler /\ remote[q].pc \notin {"ok", "refused"}
  BY SlotFields DEF Unlock, RequestInv, CallOf, HandlerInv
<1>2. /\ UNCHANGED <<orders, cart, gen, expired, stock, supply, stale>> /\ Elsewhere /\ CountsOn /\ breaker' \in Breaker
      /\ remote' = [remote EXCEPT ![q] = remote[q]] /\ req' = [req EXCEPT ![q] = NoRequest]
      /\ lock' = [lock EXCEPT ![d] = FALSE] /\ lock' \in [Customers -> BOOLEAN]
  BY Counting DEF Unlock, End, Elsewhere, kitchen, Types
<1>3. NoRequest \in Request /\ NoRequest.pc = "idle"
  BY RecordTypes
<1>4. /\ Types' /\ req'[q] = NoRequest /\ remote'[q] = remote[q] /\ SlotOnly(q) /\ OrdersKept
      /\ DOMAIN orders' = DOMAIN orders
      /\ count'.faults = 0 => count.faults = 0
  <2>1. Moves(q, NoRequest, remote[q])
    BY <1>1, <1>2, <1>3 DEF Moves
  <2>. QED  BY <2>1, SlotTypes
<1>5. \A p \in Requests : p # q => req'[p] = req[p]
  BY <1>4 DEF SlotOnly
<1>6. GenInv'
  BY <1>2, <1>3, <1>4, <1>5 DEF GenInv, ReadTheCart
<1>7. ASSUME NEW c \in Customers, ~expired[c]
      PROVE  OneHoldsTheLock(c)' /\ OrderedIsCleared(c)' /\ NotOrderedYet(c)'
  <2>1. OneHoldsTheLock(c) /\ OrderedIsCleared(c) /\ NotOrderedYet(c)
    BY <1>7 DEF LockInv
  <2>2. ~CheckingOut(q, c)' /\ \A p \in Requests : CheckingOut(p, c)' => CheckingOut(p, c) /\ req'[p] = req[p] /\ p # q
    BY <1>3, <1>4, <1>5 DEF CheckingOut
  <2>3. NotOrderedYet(c)'
    BY <1>2, <2>1, <2>2 DEF NotOrderedYet, ReadTheCart
  <2>4. CASE c = d
    <3>1. CheckingOut(q, c)
      BY <1>1, <2>4 DEF CheckingOut
    <3>2. \A p \in Requests : ~CheckingOut(p, c)'
      BY <2>1, <2>2, <3>1 DEF OneHoldsTheLock
    <3>3. \A k \in DOMAIN orders : orders[k].customer = c => orders[k].gen # gen[c]
      BY <1>1, <2>1, <3>1 DEF OrderedIsCleared
    <3>4. OneHoldsTheLock(c)'
      BY <3>2 DEF OneHoldsTheLock
    <3>5. OrderedIsCleared(c)'
      BY <1>2, <3>3 DEF OrderedIsCleared
    <3>. QED  BY <2>3, <3>4, <3>5
  <2>5. CASE c # d
    <3>1. lock'[c] = lock[c]
      BY <1>2, <2>5 DEF Types
    <3>2. OneHoldsTheLock(c)'
      BY <2>1, <2>2, <3>1 DEF OneHoldsTheLock
    <3>3. OrderedIsCleared(c)'
      BY <1>2, <2>1, <2>2, <3>1 DEF OrderedIsCleared
    <3>. QED  BY <2>3, <3>2, <3>3
  <2>. QED  BY <2>4, <2>5
<1>8. LockInv'
  BY <1>2, <1>7 DEF LockInv
<1>9. OrderedOnce' /\ CartInv'
  BY <1>2, <1>4, OnceStays, CartsStay
<1>10. count.faults <= count'.faults
  BY <1>2 DEF CountsOn
<1>11. PortionInv'
  <2>1. \A p \in Requests : OnTheWay(p)' = OnTheWay(p)
    BY <1>1, <1>3, <1>4 DEF OnTheWay, SlotOnly
  <2>2. \A k \in DOMAIN orders : orders'[k].returned = orders[k].returned
    BY <1>2
  <2>. QED  BY <1>2, <1>4, <1>10, <2>1, <2>2, PortionsStay
<1>12. RequestInv(q)'
  BY <1>3, <1>4, CallOver DEF RequestInv
<1>13. HandlerInv(q)'
  BY <1>1, <1>2, <1>3, <1>4 DEF HandlerInv
<1>. QED  BY <1>4, <1>6, <1>8, <1>9, <1>10, <1>11, <1>12, <1>13, SlotMoves

\* The row's lock is taken; what goes out is for the order that is cancelled.
LEMMA Flushes ==
  ASSUME IInv, NEW q \in Requests, CancelFlushes(q)
  PROVE  IInv'
<1>. USE DEF IInv
<1>. DEFINE r == req[q]
            k == req[q].order
<1>1. /\ r \in Request /\ r.pc = "flush" /\ r.call = "cancel" /\ k \in DOMAIN orders
      /\ remote[q] \in Handler /\ remote[q].pc \notin {"ok", "refused"}
  BY SlotFields DEF CancelFlushes, RequestInv, CallOf, HandlerInv
<1>2. /\ UNCHANGED <<orders, lock, stock, supply, stale>> /\ Elsewhere /\ CountsOn /\ breaker' \in Breaker /\ UNCHANGED count
      /\ lock' \in [Customers -> BOOLEAN]
  BY Counting DEF CancelFlushes, Elsewhere, kitchen, Types
<1>3. PICK s : /\ s = [r EXCEPT !.pc = s.pc] /\ s.pc \in {"commit", "await"}
               /\ req' = [req EXCEPT ![q] = s]
               /\ s.pc = "commit" => remote' = remote
               /\ s.pc = "await" => remote' = [remote EXCEPT ![q] =
                    [NoHandler EXCEPT !.pc = "read", !.kind = "release", !.order = k, !.restaurant = orders[k].restaurant,
                                      !.quantity = orders[k].quantity, !.price = orders[k].price]]
  <2>1. CASE is_open(breaker)
    <3>1. PICK s : s = [r EXCEPT !.pc = "commit"]
      OBVIOUS
    <3>2. s.pc = "commit"
      BY <1>1, <3>1 DEF Request
    <3>. QED  BY <2>1, <3>1, <3>2 DEF CancelFlushes
  <2>2. CASE ~is_open(breaker)
    <3>1. PICK s : s = [r EXCEPT !.pc = "await"]
      OBVIOUS
    <3>2. s.pc = "await"
      BY <1>1, <3>1 DEF Request
    <3>. QED  BY <2>2, <3>1, <3>2 DEF CancelFlushes
  <2>. QED  BY <2>1, <2>2
<1>4. s \in Request /\ s.call = "cancel" /\ s.order = k /\ req' = [req EXCEPT ![q] = s]
  BY <1>1, <1>3 DEF Request, Steps
<1>5. PICK h \in Handler : /\ remote' = [remote EXCEPT ![q] = h]
                           /\ s.pc = "commit" => h = remote[q]
                           /\ s.pc = "await" => h.pc = "read" /\ h.kind = "release" /\ h.order = k /\ h.quantity = orders[k].quantity
  <2>1. CASE s.pc = "commit"
    <3>1. remote' = [remote EXCEPT ![q] = remote[q]]
      BY <1>3, <2>1 DEF Types
    <3>. QED  BY <1>1, <2>1, <3>1
  <2>2. CASE s.pc = "await"
    <3>1. PICK h : h = [NoHandler EXCEPT !.pc = "read", !.kind = "release", !.order = k, !.restaurant = orders[k].restaurant,
                                      !.quantity = orders[k].quantity, !.price = orders[k].price]
      OBVIOUS
    <3>2. orders[k] \in Order
      BY <1>1, OrderFields
    <3>3. /\ k \in Nat /\ orders[k].restaurant \in Restaurants /\ orders[k].quantity \in Quantities
          /\ orders[k].price \in [Items -> Prices \cup {0}]
      BY <1>1, <3>2, SlotFields DEF Order
    <3>4. h \in Handler /\ h.pc = "read" /\ h.kind = "release" /\ h.order = k /\ h.quantity = orders[k].quantity
      BY <3>1, <3>3, RecordTypes DEF Handler
    <3>. QED  BY <1>3, <2>2, <3>1, <3>4
  <2>. QED  BY <1>3, <2>1, <2>2
<1>6. /\ Types' /\ req'[q] = s /\ remote'[q] = h /\ SlotOnly(q) /\ OrdersKept
      /\ DOMAIN orders' = DOMAIN orders
  <2>1. Moves(q, s, h)
    BY <1>2, <1>4, <1>5 DEF Moves
  <2>. QED  BY <2>1, SlotTypes
<1>7. CallOf(s) /\ InHand(s)
  BY <1>3, <1>4 DEF CallOf, InHand
<1>8. NoFurther(q)
  BY <1>4, <1>6, NoCheckout
<1>9. PortionInv'
  <2>1. OnTheWay(q) = NoLines
    BY <1>1 DEF OnTheWay
  <2>2. OnTheWay(q)' = NoLines
    BY <1>1, <1>3, <1>5, <1>6 DEF OnTheWay
  <2>3. \A p \in Requests : OnTheWay(p)' = OnTheWay(p)
    BY <1>6, <2>1, <2>2 DEF OnTheWay, SlotOnly
  <2>4. count.faults <= count'.faults
    BY <1>2 DEF CountsOn
  <2>5. \A j \in DOMAIN orders : orders'[j].returned = orders[j].returned
    BY <1>2
  <2>. QED  BY <1>2, <1>6, <2>3, <2>4, <2>5, PortionsStay
<1>10. HandlerInv(q)'
  <2>1. CASE s.pc = "commit"
    <3>1. HandlerInv(q)
      OBVIOUS
    <3>. QED  BY <1>1, <1>2, <1>4, <1>5, <1>6, <2>1, <3>1 DEF HandlerInv
  <2>2. CASE s.pc = "await"
    BY <1>1, <1>2, <1>4, <1>5, <1>6, <2>2 DEF HandlerInv
  <2>. QED  BY <1>3, <2>1, <2>2
<1>. QED  BY <1>1, <1>2, <1>3, <1>4, <1>5, <1>7, <1>8, <1>9, <1>10, SlotGoesOn

\* The cancellation is committed.
LEMMA CancelEnds ==
  ASSUME IInv, NEW q \in Requests, CancelCommits(q)
  PROVE  IInv'
<1>. USE DEF IInv
<1>. DEFINE j == req[q].order
<1>1. /\ req[q].pc = "commit" /\ req[q].call = "cancel" /\ j \in Nat
      /\ remote[q] \in Handler /\ remote[q].pc \notin {"ok", "refused"}
  BY SlotFields DEF CancelCommits, RequestInv, CallOf, HandlerInv
<1>2. /\ UNCHANGED <<cart, gen, lock, expired, stock, supply, stale, remote>> /\ CountsOn /\ UNCHANGED <<count, breaker, menu, accepting, seen>>
      /\ req' = [req EXCEPT ![q] = NoRequest] /\ orders' = [orders EXCEPT ![j].live = FALSE]
  BY Counting DEF CancelCommits, End, kitchen
<1>3. NoRequest \in Request /\ NoRequest.pc = "idle"
  BY RecordTypes
<1>4. j \in DOMAIN orders
  BY <1>1 DEF RequestInv
<1>5. orders \in Seq(Order) /\ orders[j] \in Order
  BY <1>4, OrderFields DEF Types
<1>6. PICK no \in BOOLEAN : no = FALSE
  OBVIOUS
<1>7. PICK o : o = [orders[j] EXCEPT !.live = no]
  OBVIOUS
<1>8. /\ o \in Order /\ o.customer = orders[j].customer /\ o.restaurant = orders[j].restaurant
      /\ o.quantity = orders[j].quantity /\ o.price = orders[j].price /\ o.shown = orders[j].shown
      /\ o.gen = orders[j].gen /\ o.returned = orders[j].returned
  BY <1>5, <1>7 DEF Order
<1>9. orders' = [orders EXCEPT ![j] = o]
  BY <1>2, <1>6, <1>7
<1>10. orders' \in Seq(Order) /\ Len(orders') = Len(orders)
  BY <1>4, <1>5, <1>8, <1>9, ExceptSeq
<1>11. DOMAIN orders' = DOMAIN orders /\ orders'[j] = o /\ \A k \in DOMAIN orders : k # j => orders'[k] = orders[k]
  BY <1>4, <1>9
<1>12. req' \in [Requests -> Request] /\ req'[q] = NoRequest /\ \A p \in Requests : p # q => req'[p] = req[p]
  BY <1>2, <1>3 DEF Types
<1>13. Types'
  BY <1>2, <1>10, <1>12 DEF Types
<1>14. SlotOnly(q)
  BY <1>2, <1>12 DEF SlotOnly
<1>15. OrdersKept /\ \A k \in DOMAIN orders : orders'[k].returned = orders[k].returned
  BY <1>8, <1>11 DEF OrdersKept
<1>16. GenGrows /\ NoFurther(q)
  BY <1>2, <1>3, <1>12, NoCheckout DEF GenGrows, Types
<1>17. GenInv' /\ LockInv' /\ OrderedOnce'
  BY <1>2, <1>11, <1>13, <1>14, <1>15, <1>16, LockStays, OnceStays
<1>18. CartInv'
  BY <1>2, <1>11, <1>15 DEF CartInv, OrdersKept, Wanted
<1>19. count.faults <= count'.faults
  BY <1>2 DEF CountsOn
<1>20. PortionInv'
  <2>1. \A p \in Requests : OnTheWay(p)' = OnTheWay(p)
    BY <1>1, <1>2, <1>3, <1>12 DEF OnTheWay
  <2>. QED  BY <1>2, <1>11, <1>13, <1>15, <1>19, <2>1, PortionsStay
<1>21. RequestInv(q)'
  BY <1>3, <1>12, CallOver DEF RequestInv
<1>22. HandlerInv(q)'
  <2>1. HandlerInv(q)
    OBVIOUS
  <2>. QED  BY <1>1, <1>2, <1>3, <1>11, <1>12, <1>15, <2>1 DEF HandlerInv, OrdersKept
<1>. QED  BY <1>13, <1>14, <1>15, <1>17, <1>18, <1>19, <1>20, <1>21, <1>22, SlotMoves

\* The order of a cart is committed: what was reserved for it is ordered now,
\* and the filling of the cart was not ordered before.
LEMMA OrderInserted ==
  ASSUME IInv, NEW q \in Requests, InsertOrder(q)
  PROVE  IInv'
<1>. USE DEF IInv
<1>1. PICK r : r = req[q]
  OBVIOUS
<1>2. /\ r \in Request /\ r.pc = "insert" /\ r.call = "checkout" /\ r.customer \in Customers /\ r.cart \in Cart
      /\ r.shown \in [Items -> Prices0] /\ r.gen \in Nat
      /\ remote[q] \in Handler /\ remote[q].pc = "idle"
  BY <1>1, SlotFields DEF InsertOrder, RequestInv, CallOf, HandlerInv
<1>3. SoundCart(r.cart) /\ r.cart.price = r.shown /\ r.cart.quantity # NoLines /\ r.gen <= gen[r.customer]
  BY <1>1, <1>2 DEF RequestInv, InHand, GenInv, ReadTheCart
<1>4. PICK o : o = [customer |-> r.customer, restaurant |-> r.cart.restaurant,
                    quantity |-> r.cart.quantity, price |-> r.cart.price,
                    shown |-> r.shown, gen |-> r.gen, live |-> TRUE, returned |-> 0]
  OBVIOUS
<1>5. /\ o \in Order /\ o.customer = r.customer /\ o.gen = r.gen /\ o.quantity = r.cart.quantity /\ o.price = o.shown
      /\ o.returned = 0 /\ o.restaurant = r.cart.restaurant
  <2>1. PICK yes \in BOOLEAN : yes = TRUE
    OBVIOUS
  <2>2. o = [customer |-> r.customer, restaurant |-> r.cart.restaurant,
             quantity |-> r.cart.quantity, price |-> r.cart.price,
             shown |-> r.shown, gen |-> r.gen, live |-> yes, returned |-> 0]
    BY <1>4, <2>1
  <2>3. /\ r.cart.quantity \in Quantities /\ r.cart.price \in [Items -> Prices0]
        /\ \A i \in Items : r.cart.quantity[i] \in Nat
    BY <1>2, CartFields DEF Quantities
  <2>4. r.cart.restaurant \in Restaurants
    <3>1. PICK i \in Items : r.cart.quantity[i] # 0
      BY <1>3, <2>3 DEF NoLines, Quantities
    <3>2. i \in Wanted(r.cart.quantity)
      BY <2>3, <3>1 DEF Wanted
    <3>. QED  BY <1>3, <3>1, <3>2, CheckoutAssumption DEF SoundCart
  <2>5. o \in Order
    BY <1>2, <2>2, <2>3, <2>4 DEF Order, Prices0
  <2>. QED  BY <1>3, <1>4, <2>5
<1>6. PICK n : n = Len(orders) + 1
  OBVIOUS
<1>7. /\ orders' \in Seq(Order) /\ Len(orders') = n /\ orders'[n] = o /\ \A k \in 1..Len(orders) : orders'[k] = orders[k]
  <2>1. orders' = Append(orders, o) /\ orders \in Seq(Order)
    BY <1>1, <1>4 DEF InsertOrder, Types
  <2>. QED  BY <1>5, <1>6, <2>1, AppendProperties
<1>8. /\ DOMAIN orders' = DOMAIN orders \cup {n} /\ n \notin DOMAIN orders /\ \A k \in DOMAIN orders : orders'[k] = orders[k]
  <2>1. Len(orders) \in Nat /\ DOMAIN orders = 1..Len(orders)
    BY OrderFields
  <2>2. DOMAIN orders' = 1..n
    BY <1>7, LenProperties
  <2>3. 1..n = (1..Len(orders)) \cup {n} /\ n \notin 1..Len(orders)
    BY ONLY <1>6, <2>1
  <2>. QED  BY <1>7, <2>1, <2>2, <2>3
<1>9. PICK s : s = [r EXCEPT !.pc = "empty cart"]
  OBVIOUS
<1>10. /\ s \in Request /\ s.pc = "empty cart" /\ s.call = "checkout" /\ s.customer = r.customer /\ s.gen = r.gen
  BY <1>2, <1>9 DEF Request, Steps
<1>11. /\ req' \in [Requests -> Request] /\ req'[q] = s /\ \A p \in Requests : p # q => req'[p] = req[p]
  BY <1>1, <1>9, <1>10 DEF InsertOrder, Types
<1>12. /\ UNCHANGED <<cart, gen, lock, expired, stock, supply, stale, remote, count, breaker, menu, accepting, seen>>
  BY DEF InsertOrder, kitchen
<1>13. Types'
  BY <1>7, <1>11, <1>12 DEF Types
<1>14. SlotOnly(q) /\ OrdersKept /\ count.faults <= count'.faults
  BY <1>8, <1>11, <1>12 DEF SlotOnly, OrdersKept, Types
<1>15. CartInv'
  <2>1. \A i \in Wanted(o.quantity) : RestaurantOf[i] = o.restaurant
    BY <1>3, <1>5 DEF SoundCart
  <2>. QED  BY <1>5, <1>7, <1>8, <1>12, <2>1 DEF CartInv
<1>16. GenInv'
  <2>1. ASSUME NEW k \in DOMAIN orders'  PROVE orders'[k].gen <= gen'[orders'[k].customer]
    BY <1>3, <1>5, <1>7, <1>8, <1>12, <2>1 DEF GenInv
  <2>2. ASSUME NEW p \in Requests, ReadTheCart(p)'  PROVE req'[p].gen <= gen'[req'[p].customer]
    BY <1>10, <1>11, <1>12, <2>2 DEF GenInv, ReadTheCart
  <2>. QED  BY <2>1, <2>2 DEF GenInv
<1>17. ASSUME NEW c \in Customers, ~expired[c]
       PROVE  OneHoldsTheLock(c)' /\ OrderedIsCleared(c)' /\ NotOrderedYet(c)'
  <2>1. OneHoldsTheLock(c) /\ OrderedIsCleared(c) /\ NotOrderedYet(c)
    BY <1>17 DEF LockInv
  <2>2. \A p \in Requests : CheckingOut(p, c)' = CheckingOut(p, c)
    BY <1>1, <1>2, <1>10, <1>11 DEF CheckingOut
  <2>3. OneHoldsTheLock(c)'
    BY <1>12, <2>1, <2>2 DEF OneHoldsTheLock
  <2>4. CASE c = r.customer
    <3>1. CheckingOut(q, c) /\ lock[c] /\ \A p \in Requests : CheckingOut(p, c) => p = q
      BY <1>1, <1>2, <2>1, <2>4 DEF CheckingOut, OneHoldsTheLock
    <3>2. OrderedIsCleared(c)'
      BY <1>10, <1>11, <1>12, <2>2, <3>1 DEF OrderedIsCleared
    <3>3. NotOrderedYet(c)'
      BY <1>10, <1>11, <2>2, <3>1 DEF NotOrderedYet, ReadTheCart
    <3>. QED  BY <2>3, <3>2, <3>3
  <2>5. CASE c # r.customer
    <3>1. ~CheckingOut(q, c)
      BY <1>1, <2>5 DEF CheckingOut
    <3>2. \A k \in DOMAIN orders' : orders'[k].customer = c => k \in DOMAIN orders /\ orders'[k] = orders[k]
      BY <1>5, <1>7, <1>8, <2>5
    <3>3. OrderedIsCleared(c)'
      BY <1>11, <1>12, <2>1, <2>2, <3>1, <3>2 DEF OrderedIsCleared
    <3>4. NotOrderedYet(c)'
      BY <1>11, <2>1, <2>2, <3>1, <3>2 DEF NotOrderedYet, ReadTheCart
    <3>. QED  BY <2>3, <3>3, <3>4
  <2>. QED  BY <2>4, <2>5
<1>18. LockInv'
  BY <1>12, <1>17 DEF LockInv
<1>19. OrderedOnce'
  <2>1. ASSUME NEW k \in DOMAIN orders, orders[k].customer = o.customer, orders[k].gen = o.gen
        PROVE  expired[o.customer]
    <3>1. CheckingOut(q, r.customer) /\ ReadTheCart(q)
      BY <1>1, <1>2 DEF CheckingOut, ReadTheCart
    <3>. QED  BY <1>1, <1>2, <1>5, <2>1, <3>1 DEF LockInv, NotOrderedYet
  <2>. QED  BY <1>7, <1>8, <1>12, <2>1 DEF OrderedOnce
<1>20. ASSUME NEW i \in Tracked
       PROVE  /\ IsFiniteSet(Ordered(i)') /\ IsFiniteSet(PutBack(i)') /\ IsFiniteSet(Reserved(i)')
              /\ Taken(i)' = Taken(i) /\ Supplied(i)' = Supplied(i)
  <2>0. PICK x \in 0..MaxQty : x = r.cart.quantity[i]
    BY <1>2, CartFields, CheckoutAssumption
  <2>1. x \in 0..MaxQty /\ x \in Nat /\ i \in Items
    BY CheckoutAssumption
  <2>2. IsFiniteSet(Ordered(i)) /\ IsFiniteSet(PutBack(i)) /\ IsFiniteSet(Reserved(i))
    BY DEF PortionInv
  <2>3. Ordered(i)' = Ordered(i) \cup ({n} \X (1..x))
    <3>1. ASSUME NEW k \in DOMAIN orders', NEW m \in 1..MaxQty
          PROVE  m <= orders'[k].quantity[i] <=> (k \in DOMAIN orders /\ m <= orders[k].quantity[i]) \/ (k = n /\ m \in 1..x)
      BY <1>5, <1>7, <1>8, <2>0, <2>1
    <3>2. 1..x \subseteq 1..MaxQty
      BY <2>1, CheckoutAssumption
    <3>3. Ordered(i)' \subseteq Ordered(i) \cup ({n} \X (1..x))
      BY <1>8, <3>1 DEF Ordered
    <3>4. Ordered(i) \subseteq Ordered(i)' /\ {n} \X (1..x) \subseteq Ordered(i)'
      BY <1>8, <3>1, <3>2 DEF Ordered
    <3>. QED  BY <3>3, <3>4
  <2>4. \A m : <<n, m>> \notin Ordered(i)
    BY <1>8 DEF Ordered
  <2>5. IsFiniteSet(Ordered(i)') /\ Cardinality(Ordered(i)') = Cardinality(Ordered(i)) + x /\ Cardinality(Ordered(i)) \in Nat
    <3>1. /\ IsFiniteSet(Ordered(i) \cup ({n} \X (1..x)))
          /\ Cardinality(Ordered(i) \cup ({n} \X (1..x))) = Cardinality(Ordered(i)) + x /\ Cardinality(Ordered(i)) \in Nat
      BY <2>1, <2>2, <2>4, Column
    <3>. QED  BY <2>3, <3>1
  <2>6. PutBack(i)' = PutBack(i)
    <3>1. 1..orders'[n].returned = {}
      BY <1>5, <1>7
    <3>. QED  BY <1>8, <3>1 DEF PutBack
  <2>7. OnTheWay(q) = r.cart.quantity /\ OnTheWay(q)' = NoLines /\ \A p \in Requests : p # q => OnTheWay(p)' = OnTheWay(p)
    BY <1>1, <1>2, <1>10, <1>11, <1>12 DEF OnTheWay
  <2>8. NoLines[i] = 0
    BY <2>1 DEF NoLines
  <2>9. Reserved(i) = Reserved(i)' \cup ({q} \X (1..x)) /\ \A m : <<q, m>> \notin Reserved(i)'
    <3>1. ASSUME NEW p \in Requests, NEW m \in 1..MaxQty
          PROVE  m <= OnTheWay(p)[i] <=> (p # q /\ m <= OnTheWay(p)'[i]) \/ (p = q /\ m \in 1..x)
      BY <2>0, <2>1, <2>7
    <3>2. \A m \in 1..MaxQty : ~(m <= OnTheWay(q)'[i])
      BY <2>7, <2>8
    <3>3. 1..x \subseteq 1..MaxQty
      BY <2>1, CheckoutAssumption
    <3>4. \A m : <<q, m>> \notin Reserved(i)'
      BY <3>2 DEF Reserved
    <3>5. Reserved(i) \subseteq Reserved(i)' \cup ({q} \X (1..x))
      BY <3>1 DEF Reserved
    <3>6. Reserved(i)' \subseteq Reserved(i) /\ {q} \X (1..x) \subseteq Reserved(i)
      BY <3>1, <3>2, <3>3 DEF Reserved
    <3>. QED  BY <3>4, <3>5, <3>6
  <2>10. IsFiniteSet(Reserved(i)')
    BY <2>2, <2>9, FS_Subset
  <2>11. Cardinality(Reserved(i)) = Cardinality(Reserved(i)') + x /\ Cardinality(Reserved(i)') \in Nat
    <3>1. PICK R : R = Reserved(i)'
      OBVIOUS
    <3>2. Cardinality(R \cup ({q} \X (1..x))) = Cardinality(R) + x /\ Cardinality(R) \in Nat
      BY <2>1, <2>9, <2>10, <3>1, Column
    <3>. QED  BY <2>9, <3>1, <3>2
  <2>12. Taken(i)' = Taken(i)
    BY <2>1, <2>5, <2>11 DEF Taken
  <2>13. Supplied(i)' = Supplied(i)
    BY <1>12, <2>6 DEF Supplied
  <2>. QED  BY <2>2, <2>5, <2>6, <2>10, <2>12, <2>13
<1>21. PortionInv'
  BY <1>12, <1>20 DEF PortionInv, NothingOversold, PortionsAccounted
<1>22. RequestInv(q)'
  BY <1>10, <1>11 DEF RequestInv, CallOf, InHand
<1>23. HandlerInv(q)'
  <2>1. HandlerInv(q)
    OBVIOUS
  <2>. QED  BY <1>2, <1>10, <1>11, <1>12 DEF HandlerInv
<1>. QED  BY <1>13, <1>14, <1>15, <1>16, <1>18, <1>19, <1>21, <1>22, <1>23, SlotMoves

-----------------------------------------------------------------------------

(* The restaurants service *)

LEMMA HandlerLooks ==
  ASSUME IInv, NEW q \in Requests, HandlerReads(q)
  PROVE  IInv'
<1>. USE DEF IInv
<1>1. PICK r, h : r = req[q] /\ h = remote[q]
  OBVIOUS
<1>2. /\ r \in Request /\ CallOf(r) /\ InHand(r) /\ RequestInv(q) /\ HandlerInv(q)
      /\ h \in Handler /\ h.pc = "read" /\ h.quantity \in [Items -> Nat] /\ h.price \in [Items -> Prices0]
  <2>1. h.quantity \in [Items -> Nat]
    BY <1>1, SlotFields, CheckoutAssumption DEF Quantities
  <2>. QED  BY <1>1, <2>1, SlotFields DEF HandlerReads, RequestInv
<1>3. /\ UNCHANGED <<orders, lock, stock, supply, stale, req, count>> /\ Elsewhere /\ CountsOn /\ breaker' \in Breaker
      /\ lock' \in [Customers -> BOOLEAN] /\ req' = [req EXCEPT ![q] = r]
  BY <1>1, Counting DEF HandlerReads, Elsewhere, kitchen, Types
<1>4. stock \in [Tracked -> Nat] /\ \A i \in Items : menu[i].price \in Prices
  BY DEF Types
<1>5. ValidatedPrice(h) \in [Items -> Prices0]
  BY <1>4 DEF ValidatedPrice, Prices0
\* What was validated is what was sent: the cart's price of every line.
<1>6. ASSUME Orderable(h)
      PROVE  /\ \A i \in Tracked : stock[i] >= h.quantity[i]
             /\ r.pc = "await" /\ r.call = "checkout" => ValidatedPrice(h) = r.cart.price
  <2>1. ASSUME NEW i \in Tracked  PROVE stock[i] >= h.quantity[i]
    <3>1. stock[i] \in Nat /\ h.quantity[i] \in Nat /\ i \in Items
      BY <1>2, <1>4, CheckoutAssumption
    <3>2. h.quantity[i] > 0 => ~(stock[i] < h.quantity[i])
      BY <1>6, <3>1 DEF Orderable, Wanted, shortfall
    <3>. QED  BY <3>1, <3>2
  <2>2. ASSUME r.pc = "await", r.call = "checkout"  PROVE ValidatedPrice(h) = r.cart.price
    <3>1. h.price = r.cart.price /\ h.quantity = r.cart.quantity /\ SoundCart(r.cart)
      BY <1>1, <1>2, <2>2 DEF HandlerInv, InHand
    <3>2. ASSUME NEW i \in Items  PROVE ValidatedPrice(h)[i] = h.price[i]
      <4>1. CASE h.quantity[i] > 0
        BY <1>6, <4>1 DEF Orderable, Wanted, ValidatedPrice
      <4>2. CASE ~(h.quantity[i] > 0)
        <5>1. h.quantity[i] > 0 <=> h.price[i] > 0
          BY <3>1 DEF SoundCart
        <5>2. h.price[i] \in Nat
          <6>1. h.price \in [Items -> Prices0] /\ Prices0 \subseteq Nat
            BY <1>2, CheckoutAssumption DEF Prices0
          <6>. QED  BY ONLY <6>1, i \in Items
        <5>3. h.price[i] = 0
          BY ONLY <4>2, <5>1, <5>2
        <5>. QED  BY <4>2, <5>3 DEF ValidatedPrice
      <4>. QED  BY <4>1, <4>2
    <3>. QED  BY <1>2, <1>5, <3>1, <3>2
  <2>. QED  BY <2>1, <2>2
<1>7. PICK g \in Handler :
        /\ remote' = [remote EXCEPT ![q] = g]
        /\ \/ /\ g.pc = "write" /\ g.kind = h.kind /\ g.order = h.order /\ g.quantity = h.quantity
              /\ h.kind = "reserve" => /\ \A i \in Tracked : g.stock[i] >= h.quantity[i]
                                       /\ r.pc = "await" /\ r.call = "checkout" => g.price = r.cart.price
           \/ /\ r.pc = "await" /\ g.pc = "refused" /\ g.kind = h.kind /\ g.order = h.order /\ g.quantity = h.quantity
              /\ g.price = h.price
           \/ r.pc # "await" /\ g = NoHandler
  <2>1. CASE /\ remote' = [remote EXCEPT ![q] = [h EXCEPT !.pc = "write", !.stock = stock, !.price = ValidatedPrice(h)]]
             /\ h.kind = "release" \/ Orderable(h)
    <3>1. PICK g : g = [h EXCEPT !.pc = "write", !.stock = stock, !.price = ValidatedPrice(h)]
      OBVIOUS
    <3>2. /\ g \in Handler /\ g.pc = "write" /\ g.kind = h.kind /\ g.order = h.order /\ g.quantity = h.quantity
          /\ g.stock = stock /\ g.price = ValidatedPrice(h)
      BY <1>2, <1>4, <1>5, <3>1 DEF Handler, Prices0
    <3>. QED  BY <1>6, <2>1, <3>1, <3>2
  <2>2. CASE r.pc = "await" /\ remote' = [remote EXCEPT ![q] = [h EXCEPT !.pc = "refused"]]
    <3>1. PICK g : g = [h EXCEPT !.pc = "refused"]
      OBVIOUS
    <3>2. /\ g \in Handler /\ g.pc = "refused" /\ g.kind = h.kind /\ g.order = h.order /\ g.quantity = h.quantity
          /\ g.price = h.price
      BY <1>2, <3>1 DEF Handler
    <3>. QED  BY <2>2, <3>1, <3>2
  <2>3. CASE r.pc # "await" /\ remote' = [remote EXCEPT ![q] = NoHandler]
    BY <2>3, RecordTypes
  <2>. QED  BY <1>1, <2>1, <2>2, <2>3 DEF HandlerReads
<1>8. /\ Types' /\ req'[q] = r /\ remote'[q] = g /\ SlotOnly(q) /\ OrdersKept
      /\ DOMAIN orders' = DOMAIN orders
  <2>1. Moves(q, r, g)
    BY <1>2, <1>3, <1>7 DEF Moves
  <2>. QED  BY <2>1, SlotTypes
<1>9. NoFurther(q)
  BY <1>3 DEF NoFurther, StillCheckingOut, StillReading, ClearsFirst, CheckingOut, ReadTheCart
<1>10. HandlerInv(q)'
  BY <1>1, <1>2, <1>3, <1>7, <1>8, RecordTypes DEF HandlerInv
<1>11. PortionInv'
  <2>1. OnTheWay(q)' = OnTheWay(q)
    <3>1. g.pc # "ok"
      BY <1>7, RecordTypes
    <3>2. r.pc # "insert"
      BY <1>1, <1>2 DEF HandlerInv
    <3>. QED  BY <1>1, <1>2, <1>8, <3>1, <3>2 DEF OnTheWay
  <2>2. \A p \in Requests : OnTheWay(p)' = OnTheWay(p)
    BY <1>8, <2>1 DEF OnTheWay, SlotOnly
  <2>3. count.faults <= count'.faults
    BY <1>3 DEF CountsOn
  <2>4. \A j \in DOMAIN orders : orders'[j].returned = orders[j].returned
    BY <1>3
  <2>. QED  BY <1>3, <1>8, <2>2, <2>3, <2>4, PortionsStay
<1>12. r.pc \in {"flush", "await", "commit"} /\ r.call = "cancel" => r.order \in DOMAIN orders
  BY <1>1, <1>2 DEF RequestInv
<1>. QED  BY <1>2, <1>3, <1>7, <1>9, <1>10, <1>11, <1>12, SlotGoesOn

\* What a handler writes, when it did read what it replaces.
LEMMA StockMoved ==
  ASSUME Types, NEW q \in Requests, HandlerInv(q), HandlerWrites(q)
  PROVE  /\ stock' \in [Tracked -> Nat]
         /\ ~stale' => ~stale /\ \A i \in Tracked :
              stock'[i] = IF remote[q].kind = "release" THEN stock[i] + remote[q].quantity[i]
                          ELSE stock[i] - remote[q].quantity[i]
<1>1. PICK h : h = remote[q]
  OBVIOUS
<1>2. /\ h \in Handler /\ h.pc = "write" /\ h.kind \in {"reserve", "release"}
      /\ h.kind = "reserve" => \A i \in Tracked : h.stock[i] >= h.quantity[i]
  <2>1. h \in Handler /\ h.pc = "write"
    BY <1>1, SlotFields DEF HandlerWrites
  <2>2. h.kind \in {"reserve", "release"}
    BY <2>1 DEF Handler
  <2>3. h.kind = "reserve" => \A i \in Tracked : h.stock[i] >= h.quantity[i]
    BY <1>1, <2>1 DEF HandlerInv
  <2>. QED  BY <2>1, <2>2, <2>3
<1>3. \A i \in Tracked : h.quantity[i] \in Nat /\ h.stock[i] \in Nat /\ stock[i] \in Nat
  BY <1>1, SlotFields, CheckoutAssumption DEF Quantities, Types
<1>4. stock' = [i \in Tracked |-> IF h.quantity[i] > 0 THEN Moved(h, i) ELSE stock[i]]
  BY <1>1 DEF HandlerWrites
<1>5. stale' = (stale \/ \E i \in Tracked : h.quantity[i] > 0 /\ stock[i] # h.stock[i])
  BY <1>1 DEF HandlerWrites
<1>6. ASSUME NEW i \in Tracked
      PROVE  Moved(h, i) = IF h.kind = "release" THEN h.stock[i] + h.quantity[i] ELSE h.stock[i] - h.quantity[i]
  BY <1>2, <1>3 DEF Moved
<1>7. \A i \in Tracked : Moved(h, i) \in Nat
  BY <1>2, <1>3 DEF Moved
<1>8. stock' \in [Tracked -> Nat]
  BY <1>3, <1>4, <1>7
<1>9. ASSUME ~stale', NEW i \in Tracked
      PROVE  stock'[i] = IF h.kind = "release" THEN stock[i] + h.quantity[i] ELSE stock[i] - h.quantity[i]
  <2>1. CASE h.quantity[i] > 0
    BY <1>4, <1>5, <1>6, <1>9, <2>1
  <2>2. CASE ~(h.quantity[i] > 0)
    <3>1. h.quantity[i] = 0 /\ stock'[i] = stock[i] /\ stock[i] \in Nat
      BY <1>3, <1>4, <2>2
    <3>. QED  BY <3>1
  <2>. QED  BY <2>1, <2>2
<1>. QED  BY <1>1, <1>5, <1>8, <1>9

\* A new column among the portions reserved, where there was none.
LEMMA ReservedGrows ==
  ASSUME NEW q \in Requests, NEW i \in Items, NEW x \in 0..MaxQty, IsFiniteSet(Reserved(i)),
         OnTheWay(q) = NoLines, OnTheWay(q)'[i] = x, \A p \in Requests : p # q => OnTheWay(p)' = OnTheWay(p)
  PROVE  /\ IsFiniteSet(Reserved(i)') /\ Cardinality(Reserved(i)') = Cardinality(Reserved(i)) + x
         /\ Cardinality(Reserved(i)) \in Nat
<1>1. NoLines[i] = 0 /\ x \in Nat /\ 1..x \subseteq 1..MaxQty
  BY CheckoutAssumption DEF NoLines
<1>2. ASSUME NEW p \in Requests, NEW m \in 1..MaxQty
      PROVE  m <= OnTheWay(p)'[i] <=> m <= OnTheWay(p)[i] \/ (p = q /\ m \in 1..x)
  BY <1>1
<1>3. \A m \in 1..MaxQty : ~(m <= OnTheWay(q)[i])
  BY <1>1
<1>4. \A m : <<q, m>> \notin Reserved(i)
  BY <1>3 DEF Reserved
<1>5. Reserved(i)' = Reserved(i) \cup ({q} \X (1..x))
  <2>1. Reserved(i)' \subseteq Reserved(i) \cup ({q} \X (1..x))
    BY <1>2 DEF Reserved
  <2>2. Reserved(i) \subseteq Reserved(i)' /\ {q} \X (1..x) \subseteq Reserved(i)'
    BY <1>1, <1>2 DEF Reserved
  <2>. QED  BY <2>1, <2>2
<1>6. PICK S : S = Reserved(i)
  OBVIOUS
<1>7. /\ IsFiniteSet(S \cup ({q} \X (1..x)))
      /\ Cardinality(S \cup ({q} \X (1..x))) = Cardinality(S) + x /\ Cardinality(S) \in Nat
  <2>1. IsFiniteSet(S) /\ \A m : <<q, m>> \notin S
    BY <1>4, <1>6
  <2>2. x \in Nat
    BY <1>1
  <2>. QED  BY ONLY <2>1, <2>2, Column
<1>. QED  BY <1>5, <1>6, <1>7

\* One more putting back of an order's portions.
LEMMA PutBackGrows ==
  ASSUME OrdersKept, DOMAIN orders' = DOMAIN orders, NEW k \in DOMAIN orders,
         orders[k].returned \in Nat, orders'[k].returned = orders[k].returned + 1,
         \A j \in DOMAIN orders : j # k => orders'[j].returned = orders[j].returned,
         NEW i \in Items, NEW x \in Nat, orders[k].quantity[i] = x, IsFiniteSet(PutBack(i))
  PROVE  /\ IsFiniteSet(PutBack(i)') /\ Cardinality(PutBack(i)') = Cardinality(PutBack(i)) + x
         /\ Cardinality(PutBack(i)) \in Nat
<1>1. PICK n \in Nat : n = orders[k].returned
  OBVIOUS
<1>2. 1..(n + 1) = (1..n) \cup {n + 1} /\ n + 1 \notin 1..n
  BY ONLY n \in Nat
<1>3. \A j \in DOMAIN orders : orders'[j].quantity[i] = orders[j].quantity[i]
  BY DEF OrdersKept
<1>4. PICK a : a = <<k, n + 1>>
  OBVIOUS
<1>5. PutBack(i)' = PutBack(i) \cup ({a} \X (1..x))
  <2>1. PutBack(i)' \subseteq PutBack(i) \cup ({a} \X (1..x))
    <3>. SUFFICES ASSUME NEW j \in DOMAIN orders,
                         NEW p \in ({j} \X (1..orders'[j].returned)) \X (1..orders'[j].quantity[i])
                  PROVE  p \in PutBack(i) \cup ({a} \X (1..x))
      BY DEF PutBack
    <3>1. CASE j # k
      BY <1>3, <3>1 DEF PutBack
    <3>2. CASE j = k
      <4>1. PICK m \in 1..(n + 1), l \in 1..x : p = <<<<k, m>>, l>>
        BY <1>1, <1>3, <3>2
      <4>2. CASE m = n + 1
        BY <1>4, <4>1, <4>2
      <4>3. CASE m \in 1..n
        <5>1. p \in ({k} \X (1..orders[k].returned)) \X (1..orders[k].quantity[i])
          BY <1>1, <4>1, <4>3
        <5>. QED  BY <5>1 DEF PutBack
      <4>. QED  BY <1>2, <4>1, <4>2, <4>3
    <3>. QED  BY <3>1, <3>2
  <2>2. PutBack(i) \subseteq PutBack(i)'
    <3>. SUFFICES ASSUME NEW j \in DOMAIN orders,
                         NEW p \in ({j} \X (1..orders[j].returned)) \X (1..orders[j].quantity[i])
                  PROVE  p \in PutBack(i)'
      BY DEF PutBack
    <3>1. 1..orders[j].returned \subseteq 1..orders'[j].returned
      BY <1>1, <1>2
    <3>2. p \in ({j} \X (1..orders'[j].returned)) \X (1..orders'[j].quantity[i])
      BY <1>3, <3>1
    <3>. QED  BY <3>2 DEF PutBack
  <2>3. {a} \X (1..x) \subseteq PutBack(i)'
    <3>1. a \in {k} \X (1..orders'[k].returned)
      BY <1>1, <1>2, <1>4
    <3>2. {a} \X (1..x) \subseteq ({k} \X (1..orders'[k].returned)) \X (1..orders'[k].quantity[i])
      BY <1>3, <3>1
    <3>. QED  BY <3>2 DEF PutBack
  <2>. QED  BY <2>1, <2>2, <2>3
<1>6. \A m : <<a, m>> \notin PutBack(i)
  <2>1. ASSUME NEW m, NEW j \in DOMAIN orders, <<a, m>> \in ({j} \X (1..orders[j].returned)) \X (1..orders[j].quantity[i])
        PROVE  FALSE
    <3>1. k = j /\ n + 1 \in 1..orders[j].returned
      BY <1>4, <2>1
    <3>. QED  BY <1>1, <1>2, <3>1
  <2>. QED  BY <2>1 DEF PutBack
<1>7. PICK S : S = PutBack(i)
  OBVIOUS
<1>8. /\ IsFiniteSet(S \cup ({a} \X (1..x)))
      /\ Cardinality(S \cup ({a} \X (1..x))) = Cardinality(S) + x /\ Cardinality(S) \in Nat
  <2>1. IsFiniteSet(S) /\ \A m : <<a, m>> \notin S
    BY <1>6, <1>7
  <2>. QED  BY ONLY <2>1, x \in Nat, Column
<1>. QED  BY <1>5, <1>7, <1>8

\* The reservation of a checkout that waits, of one that gave up, or the
\* release of an order's portions.
LEMMA HandlerWrote ==
  ASSUME IInv, NEW q \in Requests, HandlerWrites(q)
  PROVE  IInv'
<1>. USE DEF IInv
<1>1. PICK r, h : r = req[q] /\ h = remote[q]
  OBVIOUS
<1>2. /\ r \in Request /\ RequestInv(q) /\ HandlerInv(q) /\ h \in Handler /\ h.pc = "write"
      /\ h.kind \in {"reserve", "release"} /\ \A i \in Tracked : i \in Items /\ h.quantity[i] \in 0..MaxQty
      /\ h.kind = "release" => h.order \in DOMAIN orders /\ h.quantity = orders[h.order].quantity
  <2>1. \A i \in Tracked : i \in Items /\ h.quantity[i] \in 0..MaxQty
    BY <1>1, SlotFields, CheckoutAssumption DEF Quantities
  <2>2. r \in Request /\ RequestInv(q) /\ HandlerInv(q) /\ h \in Handler /\ h.pc = "write"
    BY <1>1, SlotFields DEF HandlerWrites
  <2>3. h.kind \in {"reserve", "release"}
    BY <2>2 DEF Handler
  <2>. QED  BY <1>1, <2>1, <2>2, <2>3 DEF HandlerInv
<1>3. UNCHANGED <<menu, accepting, supply, cart, lock, seen, req, breaker, expired, gen, count>> /\ CountsOn
  BY Counting DEF HandlerWrites
<1>4. PICK g \in Handler : /\ remote' = [remote EXCEPT ![q] = g]
                           /\ r.pc = "await" => /\ g.pc = "ok" /\ g.kind = h.kind /\ g.order = h.order
                                                /\ g.quantity = h.quantity /\ g.price = h.price
                           /\ r.pc # "await" => g = NoHandler
  <2>1. CASE r.pc = "await"
    <3>1. PICK g : g = [h EXCEPT !.pc = "ok"]
      OBVIOUS
    <3>2. /\ g \in Handler /\ g.pc = "ok" /\ g.kind = h.kind /\ g.order = h.order
          /\ g.quantity = h.quantity /\ g.price = h.price
      BY <1>2, <3>1 DEF Handler
    <3>. QED  BY <1>1, <2>1, <3>1, <3>2 DEF HandlerWrites
  <2>2. CASE r.pc # "await"
    BY <1>1, <2>2, RecordTypes DEF HandlerWrites
  <2>. QED  BY <2>1, <2>2
<1>5. remote' \in [Requests -> Handler] /\ remote'[q] = g /\ \A p \in Requests : p # q => remote'[p] = remote[p]
  BY <1>4 DEF Types
<1>6. SlotOnly(q) /\ count.faults <= count'.faults
  BY <1>3, <1>5 DEF SlotOnly, CountsOn
<1>7. /\ stock' \in [Tracked -> Nat]
      /\ ~stale' => ~stale /\ \A i \in Tracked :
           stock'[i] = IF h.kind = "release" THEN stock[i] + h.quantity[i] ELSE stock[i] - h.quantity[i]
  BY <1>1, <1>2, StockMoved
<1>8. stale' \in BOOLEAN
  BY DEF HandlerWrites
<1>9. /\ orders' \in Seq(Order) /\ DOMAIN orders' = DOMAIN orders /\ OrdersKept
      /\ h.kind = "reserve" => orders' = orders
      /\ h.kind = "release" =>
           /\ orders[h.order].returned \in Nat /\ orders'[h.order].returned = orders[h.order].returned + 1
           /\ \A j \in DOMAIN orders : j # h.order => orders'[j].returned = orders[j].returned
  <2>1. CASE h.kind = "reserve"
    <3>1. orders' = orders
      BY <1>1, <2>1 DEF HandlerWrites
    <3>. QED  BY <2>1, <3>1 DEF Types, OrdersKept
  <2>2. CASE h.kind = "release"
    <3>1. PICK k : k = h.order
      OBVIOUS
    <3>2. PICK n, o : n = orders[k].returned + 1 /\ o = [orders[k] EXCEPT !.returned = n]
      OBVIOUS
    <3>3. k \in DOMAIN orders /\ orders[k] \in Order /\ orders[k].returned \in Nat /\ orders \in Seq(Order)
      BY <1>2, <2>2, <3>1, OrderFields DEF Types
    <3>4. /\ o \in Order /\ o.customer = orders[k].customer /\ o.restaurant = orders[k].restaurant
          /\ o.quantity = orders[k].quantity /\ o.price = orders[k].price /\ o.shown = orders[k].shown
          /\ o.gen = orders[k].gen /\ o.returned = n
      <4>1. n \in Nat
        BY <3>2, <3>3
      <4>2. orders[k] \in Order /\ o = [orders[k] EXCEPT !.returned = n]
        BY <3>2, <3>3
      <4>. QED  BY ONLY <4>1, <4>2 DEF Order
    <3>5. orders' = [orders EXCEPT ![k] = o]
      BY <1>1, <2>2, <3>1, <3>2 DEF HandlerWrites
    <3>6. orders' \in Seq(Order)
      BY <3>3, <3>4, <3>5, ExceptSeq, LenProperties
    <3>7. DOMAIN orders' = DOMAIN orders /\ orders'[k] = o /\ \A j \in DOMAIN orders : j # k => orders'[j] = orders[j]
      BY <3>3, <3>5
    <3>8. OrdersKept
      BY <3>4, <3>7 DEF OrdersKept
    <3>. QED  BY <2>2, <3>1, <3>2, <3>3, <3>4, <3>6, <3>7, <3>8
  <2>. QED  BY <1>2, <2>1, <2>2
<1>10. Types'
  BY <1>3, <1>5, <1>7, <1>8, <1>9 DEF Types
<1>11. GenGrows /\ NoFurther(q)
  <2>1. GenGrows
    BY <1>3 DEF GenGrows, Types
  <2>2. req' = req
    BY <1>3
  <2>. QED  BY <2>1, <2>2 DEF NoFurther, StillCheckingOut, StillReading, ClearsFirst, CheckingOut, ReadTheCart
<1>12. GenInv' /\ LockInv' /\ OrderedOnce'
  BY <1>3, <1>6, <1>9, <1>10, <1>11, LockStays, OnceStays
<1>13. CartInv'
  BY <1>3, <1>9 DEF CartInv, OrdersKept, Wanted
<1>14. \A p \in Requests : p # q => OnTheWay(p)' = OnTheWay(p)
  BY <1>3, <1>5 DEF OnTheWay
<1>15. /\ OnTheWay(q) = NoLines
       /\ OnTheWay(q)' = IF h.kind = "reserve" /\ r.pc = "await" THEN h.quantity ELSE NoLines
  <2>1. r.pc # "insert"
    BY <1>1, <1>2 DEF HandlerInv
  <2>2. OnTheWay(q) = NoLines
    BY <1>1, <1>2, <2>1 DEF OnTheWay
  <2>3. req'[q].pc # "insert"
    BY <1>1, <1>3, <2>1
  <2>4. CASE r.pc = "await"
    BY <1>2, <1>4, <1>5, <2>2, <2>3, <2>4 DEF OnTheWay
  <2>5. CASE r.pc # "await"
    BY <1>4, <1>5, <2>2, <2>3, <2>5, RecordTypes DEF OnTheWay
  <2>. QED  BY <2>4, <2>5
<1>16. ASSUME NEW i \in Tracked
       PROVE  /\ IsFiniteSet(Ordered(i)') /\ IsFiniteSet(PutBack(i)') /\ IsFiniteSet(Reserved(i)')
              /\ h.kind = "release" => /\ Taken(i)' = Taken(i) /\ Supplied(i)' = Supplied(i) + h.quantity[i]
              /\ h.kind = "reserve" => /\ Supplied(i)' = Supplied(i)
                                       /\ r.pc = "await" => Taken(i)' = Taken(i) + h.quantity[i]
                                       /\ r.pc # "await" => Taken(i)' = Taken(i)
              /\ Taken(i) \in Int /\ Supplied(i) \in Int
  <2>1. IsFiniteSet(Ordered(i)) /\ IsFiniteSet(PutBack(i)) /\ IsFiniteSet(Reserved(i))
    BY DEF PortionInv
  <2>2. Ordered(i)' = Ordered(i)
    BY <1>9 DEF Ordered, OrdersKept
  <2>3. PICK x \in 0..MaxQty : x = h.quantity[i]
    BY <1>2
  <2>4. /\ Cardinality(Ordered(i)) \in Nat /\ Cardinality(PutBack(i)) \in Nat /\ Cardinality(Reserved(i)) \in Nat
        /\ supply[i] \in Int /\ supply' = supply /\ x \in Nat
    BY <1>3, <2>1, FS_CardinalityType, CheckoutAssumption DEF Types
  <2>5. Taken(i) \in Int /\ Supplied(i) \in Int
    BY <2>4 DEF Taken, Supplied
  <2>6. h.kind = "reserve" => PutBack(i)' = PutBack(i)
    BY <1>9 DEF PutBack
  <2>7. h.kind = "release" => /\ IsFiniteSet(PutBack(i)') /\ Cardinality(PutBack(i)') = Cardinality(PutBack(i)) + x
    <3>. SUFFICES ASSUME h.kind = "release"
                  PROVE  IsFiniteSet(PutBack(i)') /\ Cardinality(PutBack(i)') = Cardinality(PutBack(i)) + x
      OBVIOUS
    <3>1. h.order \in DOMAIN orders /\ orders[h.order].quantity[i] = x /\ i \in Items
      BY <1>2, <2>3
    <3>. QED  BY <1>9, <2>1, <2>4, <3>1, PutBackGrows
  <2>8. ~(h.kind = "reserve" /\ r.pc = "await") => Reserved(i)' = Reserved(i)
    <3>. SUFFICES ASSUME ~(h.kind = "reserve" /\ r.pc = "await")  PROVE Reserved(i)' = Reserved(i)
      OBVIOUS
    <3>1. \A p \in Requests : OnTheWay(p)' = OnTheWay(p)
      BY <1>14, <1>15
    <3>. QED  BY <3>1 DEF Reserved
  <2>9. h.kind = "reserve" /\ r.pc = "await" =>
          IsFiniteSet(Reserved(i)') /\ Cardinality(Reserved(i)') = Cardinality(Reserved(i)) + x
    <3>. SUFFICES ASSUME h.kind = "reserve", r.pc = "await"
                  PROVE  IsFiniteSet(Reserved(i)') /\ Cardinality(Reserved(i)') = Cardinality(Reserved(i)) + x
      OBVIOUS
    <3>1. OnTheWay(q) = NoLines /\ OnTheWay(q)'[i] = x /\ i \in Items
      BY <1>2, <1>15, <2>3
    <3>. QED  BY <1>14, <2>1, <3>1, ReservedGrows
  <2>10. IsFiniteSet(Ordered(i)') /\ IsFiniteSet(PutBack(i)') /\ IsFiniteSet(Reserved(i)')
    BY <1>2, <2>1, <2>2, <2>6, <2>7, <2>8, <2>9
  <2>11. h.kind = "release" => Taken(i)' = Taken(i) /\ Supplied(i)' = Supplied(i) + x
    BY <2>2, <2>4, <2>7, <2>8 DEF Taken, Supplied
  <2>12. h.kind = "reserve" => Supplied(i)' = Supplied(i)
    BY <2>4, <2>6 DEF Supplied
  <2>13. h.kind = "reserve" /\ r.pc = "await" => Taken(i)' = Taken(i) + x
    BY <2>2, <2>4, <2>9 DEF Taken
  <2>14. h.kind = "reserve" /\ r.pc # "await" => Taken(i)' = Taken(i)
    BY <2>2, <2>8 DEF Taken
  <2>. QED  BY <2>3, <2>5, <2>10, <2>11, <2>12, <2>13, <2>14
<1>17. r.pc # "await" => count.faults # 0
  BY <1>1, <1>2 DEF HandlerInv
<1>18. PortionInv'
  <2>1. NothingOversold'
    <3>. SUFFICES ASSUME ~stale', NEW i \in Tracked  PROVE stock'[i] + Taken(i)' <= Supplied(i)'
      BY DEF NothingOversold
    <3>1. /\ stock[i] + Taken(i) <= Supplied(i) /\ stock[i] \in Nat /\ h.quantity[i] \in Nat
          /\ stock'[i] = IF h.kind = "release" THEN stock[i] + h.quantity[i] ELSE stock[i] - h.quantity[i]
      BY <1>2, <1>7, CheckoutAssumption DEF PortionInv, NothingOversold, Types
    <3>2. CASE h.kind = "release"
      BY <1>16, <3>1, <3>2
    <3>3. CASE h.kind = "reserve"
      BY <1>16, <3>1, <3>3
    <3>. QED  BY <1>2, <3>2, <3>3
  <2>2. PortionsAccounted'
    <3>. SUFFICES ASSUME ~stale', ~(count.faults > 0), NEW i \in Tracked  PROVE stock'[i] + Taken(i)' = Supplied(i)'
      BY <1>3 DEF PortionsAccounted
    <3>1. /\ stock[i] + Taken(i) = Supplied(i) /\ stock[i] \in Nat /\ h.quantity[i] \in Nat
          /\ stock'[i] = IF h.kind = "release" THEN stock[i] + h.quantity[i] ELSE stock[i] - h.quantity[i]
      BY <1>2, <1>7, CheckoutAssumption DEF PortionInv, PortionsAccounted, Types
    <3>2. r.pc = "await"
      BY <1>17 DEF Types
    <3>3. CASE h.kind = "release"
      BY <1>16, <3>1, <3>3
    <3>4. CASE h.kind = "reserve"
      BY <1>16, <3>1, <3>2, <3>4
    <3>. QED  BY <1>2, <3>3, <3>4
  <2>. QED  BY <1>16, <2>1, <2>2 DEF PortionInv
<1>19. RequestInv(q)'
  BY <1>2, <1>3, <1>9 DEF RequestInv
<1>20. HandlerInv(q)'
  <2>1. CASE r.pc = "await"
    BY <1>1, <1>2, <1>3, <1>4, <1>5, <1>9, <2>1 DEF HandlerInv, OrdersKept
  <2>2. CASE r.pc # "await"
    BY <1>1, <1>2, <1>3, <1>4, <1>5, <2>2, RecordTypes DEF HandlerInv
  <2>. QED  BY <2>1, <2>2
<1>. QED  BY <1>6, <1>9, <1>10, <1>12, <1>13, <1>18, <1>19, <1>20, SlotMoves

-----------------------------------------------------------------------------

(* The keys' time, crashes and the owners *)

\* A step outside the calls: kitchens, the breaker, the counters.
LEMMA AroundTheCalls ==
  ASSUME IInv, Types', PortionInv', UNCHANGED <<cart, lock, orders, req, remote, expired, gen>>,
         count.faults <= count'.faults
  PROVE  IInv'
<1>. USE DEF IInv
<1>1. CartInv' /\ OrderedOnce'
  BY CartsStay DEF OrderedOnce
<1>2. GenInv'
  BY DEF GenInv, ReadTheCart
<1>3. LockInv'
  <2>. SUFFICES ASSUME NEW c \in Customers, ~expired[c]
                PROVE  OneHoldsTheLock(c)' /\ OrderedIsCleared(c)' /\ NotOrderedYet(c)'
    BY DEF LockInv
  <2>1. OneHoldsTheLock(c) /\ OrderedIsCleared(c) /\ NotOrderedYet(c)
    BY DEF LockInv
  <2>2. OneHoldsTheLock(c)'
    BY <2>1 DEF OneHoldsTheLock, CheckingOut
  <2>3. OrderedIsCleared(c)'
    BY <2>1 DEF OrderedIsCleared, CheckingOut
  <2>4. NotOrderedYet(c)'
    BY <2>1 DEF NotOrderedYet, CheckingOut, ReadTheCart
  <2>. QED  BY <2>2, <2>3, <2>4
<1>4. count'.faults = 0 => count.faults = 0
  BY DEF Types
<1>5. \A q \in Requests : RequestInv(q)' /\ HandlerInv(q)'
  BY <1>4 DEF RequestInv, HandlerInv
<1>. QED  BY <1>1, <1>2, <1>3, <1>5

LEMMA LockEnds ==
  ASSUME IInv, NEW c \in Customers, LockExpires(c)
  PROVE  IInv'
<1>. USE DEF IInv
<1>1. UNCHANGED <<menu, accepting, stock, supply, stale, cart, seen, orders, req, remote, breaker, gen, count>>
  BY DEF LockExpires, kitchen
<1>2. expired' = [expired EXCEPT ![c] = TRUE] /\ lock' = [lock EXCEPT ![c] = FALSE]
  BY DEF LockExpires
<1>3. lock \in [Customers -> BOOLEAN] /\ expired \in [Customers -> BOOLEAN]
  BY DEF Types
<1>4. /\ lock' \in [Customers -> BOOLEAN] /\ expired' \in [Customers -> BOOLEAN]
      /\ expired'[c] /\ \A w \in Customers : w # c => lock'[w] = lock[w] /\ expired'[w] = expired[w]
  BY <1>2, <1>3
<1>5. Types'
  BY <1>1, <1>4 DEF Types
<1>6. CartInv' /\ GenInv'
  BY <1>1, CartsStay DEF GenInv, ReadTheCart
<1>7. ASSUME NEW w \in Customers, ~expired'[w]
      PROVE  OneHoldsTheLock(w)' /\ OrderedIsCleared(w)' /\ NotOrderedYet(w)'
  <2>1. lock'[w] = lock[w] /\ ~expired[w]
    BY <1>4, <1>7
  <2>2. OneHoldsTheLock(w) /\ OrderedIsCleared(w) /\ NotOrderedYet(w)
    BY <2>1 DEF LockInv
  <2>. QED  BY <1>1, <2>1, <2>2 DEF OneHoldsTheLock, OrderedIsCleared, NotOrderedYet, CheckingOut, ReadTheCart
<1>8. LockInv'
  BY <1>7 DEF LockInv
<1>9. OrderedOnce'
  BY <1>1, <1>4, OrderFields DEF OrderedOnce
<1>10. /\ OrdersKept /\ DOMAIN orders' = DOMAIN orders /\ \A k \in DOMAIN orders : orders'[k].returned = orders[k].returned
       /\ \A p \in Requests : OnTheWay(p)' = OnTheWay(p)
  BY <1>1 DEF OrdersKept, OnTheWay
<1>11. count.faults <= count'.faults
  BY <1>1 DEF Types
<1>12. PortionInv'
  BY <1>1, <1>5, <1>10, <1>11, PortionsStay
<1>13. \A q \in Requests : RequestInv(q)' /\ HandlerInv(q)'
  BY <1>1 DEF RequestInv, HandlerInv
<1>. QED  BY <1>5, <1>6, <1>8, <1>9, <1>12, <1>13

\* Every call is over; handlers that read or write go on for nobody.
LEMMA Crashes ==
  ASSUME IInv, Crash
  PROVE  IInv'
<1>. USE DEF IInv
<1>1. /\ UNCHANGED <<kitchen, menu, accepting, stock, supply, stale, cart, lock, seen, orders, expired, gen>>
      /\ CountsOn /\ count'.faults > 0 /\ breaker' = Closed /\ req' = [q \in Requests |-> NoRequest]
      /\ remote' = [q \in Requests |-> IF remote[q].pc \in {"read", "write"} THEN remote[q] ELSE NoHandler]
  BY Counting DEF Crash, kitchen
<1>2. /\ \A q \in Requests : /\ req'[q] = NoRequest
                             /\ remote'[q] = NoHandler \/ (remote'[q] = remote[q] /\ remote[q].pc \in {"read", "write"})
      /\ req' \in [Requests -> Request] /\ remote' \in [Requests -> Handler]
  BY <1>1, RecordTypes DEF Types
<1>3. breaker' \in Breaker
  BY <1>1, ThresholdAssumption DEF Closed, Breaker
<1>4. Types'
  BY <1>1, <1>2, <1>3 DEF Types, CountsOn
<1>5. CartInv' /\ OrderedOnce'
  BY <1>1, CartsStay DEF OrderedOnce
<1>6. \A q \in Requests : ~ReadTheCart(q)' /\ \A c \in Customers : ~CheckingOut(q, c)'
  BY <1>2, RecordTypes DEF ReadTheCart, CheckingOut
<1>7. GenInv'
  BY <1>1, <1>6 DEF GenInv
<1>8. LockInv'
  BY <1>1, <1>6 DEF LockInv, OneHoldsTheLock, OrderedIsCleared, NotOrderedYet
<1>9. \A p \in Requests : OnTheWay(p)' \in {OnTheWay(p), NoLines}
  BY <1>2, RecordTypes DEF OnTheWay
<1>10. PortionInv'
  BY <1>1, <1>4, <1>9, PortionsForgotten
<1>11. \A q \in Requests : RequestInv(q)'
  BY <1>2, RecordTypes, CallOver DEF RequestInv
<1>12. ASSUME NEW q \in Requests  PROVE HandlerInv(q)'
  <2>1. HandlerInv(q)
    OBVIOUS
  <2>2. CASE remote'[q] = NoHandler
    BY <1>1, <1>2, <2>2, RecordTypes DEF HandlerInv
  <2>3. CASE remote'[q] = remote[q] /\ remote[q].pc \in {"read", "write"}
    BY <1>1, <1>2, <2>1, <2>3, RecordTypes DEF HandlerInv
  <2>. QED  BY <1>2, <2>2, <2>3
<1>. QED  BY <1>4, <1>5, <1>7, <1>8, <1>10, <1>11, <1>12

LEMMA BreakerCools ==
  ASSUME IInv, CooldownElapses
  PROVE  IInv'
<1>. USE DEF IInv
<1>1. UNCHANGED <<menu, accepting, stock, supply, stale, cart, lock, seen, orders, req, remote, expired, gen, count>>
  BY DEF CooldownElapses, kitchen
<1>2. breaker' \in Breaker
  BY BreakerTypes DEF CooldownElapses, Types
<1>3. Types' /\ count.faults <= count'.faults
  BY <1>1, <1>2 DEF Types
<1>4. /\ OrdersKept /\ DOMAIN orders' = DOMAIN orders /\ \A k \in DOMAIN orders : orders'[k].returned = orders[k].returned
      /\ \A p \in Requests : OnTheWay(p)' = OnTheWay(p)
  BY <1>1 DEF OrdersKept, OnTheWay
<1>5. PortionInv'
  BY <1>1, <1>3, <1>4, PortionsStay
<1>. QED  BY <1>1, <1>3, <1>5, AroundTheCalls

LEMMA OwnerActs ==
  ASSUME IInv, Owner
  PROVE  IInv'
<1>. USE DEF IInv
<1>1. ASSUME NEW i \in Tracked, NEW n \in Nat, SetStock(i, n)  PROVE IInv'
  <2>1. /\ UNCHANGED <<menu, accepting, stale, cart, lock, seen, orders, req, remote, breaker, expired, gen>>
        /\ CountsOn /\ count'.faults = count.faults
        /\ stock' = [stock EXCEPT ![i] = n] /\ supply' = [supply EXCEPT ![i] = supply[i] + n - stock[i]]
    BY <1>1, Counting DEF SetStock
  <2>2. stock \in [Tracked -> Nat] /\ supply \in [Tracked -> Int]
    BY DEF Types
  <2>3. stock' \in [Tracked -> Nat] /\ stock'[i] = n /\ \A j \in Tracked : j # i => stock'[j] = stock[j]
    BY <2>1, <2>2
  <2>4. /\ supply' \in [Tracked -> Int] /\ supply'[i] = supply[i] + n - stock[i]
        /\ \A j \in Tracked : j # i => supply'[j] = supply[j]
    BY <2>1, <2>2
  <2>5. Types' /\ count.faults <= count'.faults
    BY <2>1, <2>3, <2>4 DEF Types, CountsOn
  <2>6. ASSUME NEW j \in Tracked
        PROVE  /\ Ordered(j)' = Ordered(j) /\ PutBack(j)' = PutBack(j) /\ Reserved(j)' = Reserved(j)
               /\ Taken(j)' = Taken(j) /\ Taken(j) \in Int /\ Supplied(j) \in Int
               /\ Supplied(j)' - stock'[j] = Supplied(j) - stock[j] /\ Supplied(j)' \in Int
    <3>1. Ordered(j)' = Ordered(j) /\ PutBack(j)' = PutBack(j) /\ Reserved(j)' = Reserved(j)
      BY <2>1 DEF Ordered, PutBack, Reserved, OnTheWay
    <3>2. Cardinality(Ordered(j)) \in Nat /\ Cardinality(PutBack(j)) \in Nat /\ Cardinality(Reserved(j)) \in Nat
      BY FS_CardinalityType DEF PortionInv
    <3>3. supply[j] \in Int /\ supply'[j] \in Int /\ stock[j] \in Nat /\ supply'[j] - stock'[j] = supply[j] - stock[j]
      BY <2>2, <2>3, <2>4
    <3>4. Taken(j)' = Taken(j) /\ Taken(j) \in Int /\ Supplied(j) \in Int
      BY <3>1, <3>2, <3>3 DEF Taken, Supplied
    <3>5. stock'[j] \in Nat
      BY <2>3
    <3>6. Supplied(j)' = supply'[j] + Cardinality(PutBack(j))
      BY <3>1 DEF Supplied
    <3>7. Supplied(j)' - stock'[j] = Supplied(j) - stock[j] /\ Supplied(j)' \in Int
      BY <3>2, <3>3, <3>5, <3>6 DEF Supplied
    <3>. QED  BY <3>1, <3>4, <3>7
  <2>7. NothingOversold'
    <3>. SUFFICES ASSUME ~stale, NEW j \in Tracked  PROVE stock'[j] + Taken(j)' <= Supplied(j)'
      BY <2>1 DEF NothingOversold
    <3>1. stock[j] + Taken(j) <= Supplied(j) /\ stock[j] \in Nat /\ stock'[j] \in Nat
      BY <2>2, <2>3 DEF PortionInv, NothingOversold
    <3>. QED  BY <2>6, <3>1
  <2>8. PortionsAccounted'
    <3>. SUFFICES ASSUME ~stale, ~(count.faults > 0), NEW j \in Tracked  PROVE stock'[j] + Taken(j)' = Supplied(j)'
      BY <2>1 DEF PortionsAccounted
    <3>1. stock[j] + Taken(j) = Supplied(j) /\ stock[j] \in Nat /\ stock'[j] \in Nat
      BY <2>2, <2>3 DEF PortionInv, PortionsAccounted
    <3>. QED  BY <2>6, <3>1
  <2>9. PortionInv'
    BY <2>6, <2>7, <2>8 DEF PortionInv
  <2>. QED  BY <2>1, <2>5, <2>9, AroundTheCalls
<1>2. ASSUME UNCHANGED <<stock, supply, stale, cart, lock, seen, orders, req, remote, breaker, expired, gen>>, Edit,
             menu' \in [Items -> [price : Prices, available : BOOLEAN]], accepting' \in [Restaurants -> BOOLEAN]
      PROVE  IInv'
  <2>1. CountsOn /\ count.faults <= count'.faults
    BY <1>2, Counting DEF CountsOn
  <2>2. Types'
    BY <1>2, <2>1 DEF Types, CountsOn
  <2>3. /\ OrdersKept /\ DOMAIN orders' = DOMAIN orders /\ \A k \in DOMAIN orders : orders'[k].returned = orders[k].returned
        /\ \A p \in Requests : OnTheWay(p)' = OnTheWay(p)
    BY <1>2 DEF OrdersKept, OnTheWay
  <2>4. PortionInv'
    BY <1>2, <2>1, <2>2, <2>3, PortionsStay
  <2>. QED  BY <1>2, <2>1, <2>2, <2>4, AroundTheCalls
<1>3. menu \in [Items -> [price : Prices, available : BOOLEAN]] /\ accepting \in [Restaurants -> BOOLEAN]
  BY DEF Types
<1>4. ASSUME NEW i \in Items, NEW p \in Prices, SetPrice(i, p)  PROVE IInv'
  <2>1. menu' \in [Items -> [price : Prices, available : BOOLEAN]]
    BY <1>3, <1>4 DEF SetPrice
  <2>. QED  BY <1>2, <1>3, <1>4, <2>1 DEF SetPrice
<1>5. ASSUME NEW i \in Items, SwitchItem(i)  PROVE IInv'
  <2>1. menu' \in [Items -> [price : Prices, available : BOOLEAN]]
    BY <1>3, <1>5 DEF SwitchItem
  <2>. QED  BY <1>2, <1>3, <1>5, <2>1 DEF SwitchItem
<1>6. ASSUME NEW w \in Restaurants, SwitchKitchen(w)  PROVE IInv'
  <2>1. accepting' \in [Restaurants -> BOOLEAN]
    BY <1>3, <1>6 DEF SwitchKitchen
  <2>. QED  BY <1>2, <1>3, <1>6, <2>1 DEF SwitchKitchen
<1>7. Edited \subseteq Items /\ RestaurantOf \in [Items -> Restaurants] /\ 0..InitialStock \subseteq Nat
  BY CheckoutAssumption
<1>. QED  BY <1>1, <1>4, <1>5, <1>6, <1>7 DEF Owner

-----------------------------------------------------------------------------

(* The whole *)

LEMMA InitIInv == Init => IInv
<1>. SUFFICES ASSUME Init  PROVE IInv
  OBVIOUS
<1>1. /\ orders = <<>> /\ stock = [i \in Tracked |-> InitialStock] /\ supply = stock
      /\ req = [q \in Requests |-> NoRequest] /\ remote = [q \in Requests |-> NoHandler]
      /\ cart \in [Customers -> InitialCarts] /\ gen = [c \in Customers |-> 0]
      /\ lock = [c \in Customers |-> FALSE] /\ expired = [c \in Customers |-> FALSE]
      /\ stale = FALSE /\ count = [calls |-> 0, edits |-> 0, faults |-> 0]
  BY DEF Init
<1>2. /\ \A q \in Requests : req[q] = NoRequest /\ remote[q] = NoHandler
      /\ DOMAIN orders = {}
  BY <1>1
<1>3. \A c \in Customers : cart[c] \in Cart /\ SoundCart(cart[c])
  BY <1>1, CartsAssumption
<1>4. Types
  <2>1. menu \in [Items -> [price : Prices, available : BOOLEAN]]
    <3>1. PICK p \in Prices : p = CHOOSE x \in Prices : TRUE
      BY CheckoutAssumption
    <3>2. menu \in [Items -> [price : {p}, available : {TRUE}]]
      BY <3>1 DEF Init
    <3>3. [price : {p}, available : {TRUE}] \subseteq [price : Prices, available : BOOLEAN]
      OBVIOUS
    <3>. QED  BY <3>2, <3>3
  <2>2. stock \in [Tracked -> Nat] /\ supply \in [Tracked -> Int]
    BY <1>1, CheckoutAssumption
  <2>3. cart \in [Customers -> Cart]
    BY <1>1, CartsAssumption
  <2>4. seen \in [Customers -> [Items -> Prices0]]
    <3>1. \A c \in Customers : price_hash(cart[c]) \in [Items -> Prices0]
      BY <1>3, CartFields DEF price_hash
    <3>. QED  BY <3>1 DEF Init
  <2>5. orders \in Seq(Order)
    BY <1>1, EmptySeq
  <2>6. req \in [Requests -> Request] /\ remote \in [Requests -> Handler]
    BY <1>1, RecordTypes
  <2>7. breaker \in Breaker
    BY ThresholdAssumption DEF Init, Closed, Breaker
  <2>8. accepting \in [Restaurants -> BOOLEAN]
    BY DEF Init
  <2>9. /\ count \in [calls : Nat, edits : Nat, faults : Nat]
        /\ count.calls <= MaxCalls /\ count.edits + count.faults <= MaxTrouble
    BY <1>1, CheckoutAssumption
  <2>10. lock \in [Customers -> BOOLEAN] /\ expired \in [Customers -> BOOLEAN] /\ stale \in BOOLEAN /\ gen \in [Customers -> Nat]
    BY <1>1
  <2>. QED  BY <2>1, <2>2, <2>3, <2>4, <2>5, <2>6, <2>7, <2>8, <2>9, <2>10 DEF Types
<1>5. CartInv /\ OrderedOnce
  BY <1>2, <1>3 DEF CartInv, OrderedOnce
<1>6. GenInv /\ LockInv
  BY <1>2, RecordTypes DEF GenInv, LockInv, OneHoldsTheLock, OrderedIsCleared, NotOrderedYet, CheckingOut, ReadTheCart
<1>7. PortionInv
  <2>1. ASSUME NEW i \in Tracked  PROVE Ordered(i) = {} /\ PutBack(i) = {} /\ Reserved(i) = {}
    <3>1. Ordered(i) = {} /\ PutBack(i) = {}
      BY <1>2 DEF Ordered, PutBack
    <3>2. NoLines[i] = 0
      BY CheckoutAssumption DEF NoLines
    <3>3. \A q \in Requests : OnTheWay(q) = NoLines
      BY <1>2, RecordTypes DEF OnTheWay
    <3>4. \A q \in Requests, n \in 1..MaxQty : ~(n <= OnTheWay(q)[i])
      BY <3>2, <3>3
    <3>. QED  BY <3>1, <3>4 DEF Reserved
  <2>2. IsFiniteSet({}) /\ Cardinality({}) = 0
    BY FS_EmptySet
  <2>3. \A i \in Tracked : supply[i] = stock[i] /\ stock[i] \in Nat
    BY <1>1, CheckoutAssumption
  <2>4. ASSUME NEW i \in Tracked  PROVE stock[i] + Taken(i) = Supplied(i) /\ stock[i] + Taken(i) \in Nat
    <3>1. Taken(i) = 0 + 0 /\ Supplied(i) = supply[i] + 0
      BY <2>1, <2>2 DEF Taken, Supplied
    <3>. QED  BY <2>3, <3>1
  <2>5. NothingOversold
    BY <2>4 DEF NothingOversold
  <2>6. PortionsAccounted
    BY <2>4 DEF PortionsAccounted
  <2>. QED  BY <2>1, <2>2, <2>5, <2>6 DEF PortionInv
<1>8. \A q \in Requests : RequestInv(q) /\ HandlerInv(q)
  BY <1>2, RecordTypes, CallOver DEF RequestInv, HandlerInv
<1>. QED  BY <1>4, <1>5, <1>6, <1>7, <1>8 DEF IInv

LEMMA NothingMoves ==
  ASSUME IInv, UNCHANGED vars
  PROVE  IInv'
<1>. USE DEF IInv
<1>1. UNCHANGED <<menu, stock, accepting, cart, lock, seen, orders, req, remote, breaker, supply, stale, expired, gen, count>>
  BY DEF vars
<1>2. Types' /\ count.faults <= count'.faults
  BY <1>1 DEF Types
<1>3. /\ OrdersKept /\ DOMAIN orders' = DOMAIN orders /\ \A k \in DOMAIN orders : orders'[k].returned = orders[k].returned
      /\ \A p \in Requests : OnTheWay(p)' = OnTheWay(p)
  BY <1>1 DEF OrdersKept, OnTheWay
<1>4. PortionInv'
  BY <1>1, <1>2, <1>3, PortionsStay
<1>. QED  BY <1>1, <1>2, <1>4, AroundTheCalls

LEMMA NextIInv == IInv /\ [Next]_vars => IInv'
<1>. SUFFICES ASSUME IInv, [Next]_vars  PROVE IInv'
  OBVIOUS
<1>1. ASSUME NEW q \in Requests, Start(q)  PROVE IInv'
  BY <1>1, AddStarts, UpdateStarts, ReorderStarts, CheckoutStarts, CancelStarts DEF Start
<1>2. ASSUME NEW q \in Requests, Serve(q)  PROVE IInv'
  <2>1. CASE Lookup(q) \/ LookupFails(q) \/ LookUpAll(q)
    BY <2>1, LooksUp, LookupEnds, LooksUpAll
  <2>2. CASE Load(q) \/ Save(q) \/ ClearForReorder(q) \/ EmptyTheCart(q)
    BY <2>2, Loads, Saves, ReorderClears, CheckoutClears
  <2>3. CASE ReadCart(q) \/ Receive(q) \/ InsertOrder(q) \/ Unlock(q)
    BY <2>3, CartRead, Receives, OrderInserted, Unlocks
  <2>4. CASE CancelFlushes(q) \/ CancelCommits(q)
    BY <2>4, Flushes, CancelEnds
  <2>5. CASE HandlerReads(q) \/ HandlerWrites(q)
    BY <2>5, HandlerLooks, HandlerWrote
  <2>. QED  BY <1>2, <2>1, <2>2, <2>3, <2>4, <2>5 DEF Serve
<1>3. ASSUME NEW q \in Requests, Timeout(q) \/ InsertFails(q)  PROVE IInv'
  BY <1>3, TimesOut, InsertEnds
<1>4. CASE Next
  BY <1>1, <1>2, <1>3, <1>4, LockEnds, OwnerActs, Crashes, BreakerCools DEF Next
<1>. QED  BY <1>4, NothingMoves

\* The invariant holds in every reachable state.
THEOREM Invariance == Spec => []IInv
BY InitIInv, NextIInv, PTL DEF Spec

\* The state keeps its types: carts stay within the quantities a line may have,
\* calls, handlers and the breaker within their records, counts within bounds.
THEOREM TypeCorrect == Spec => []TypeOK
<1>1. IInv => TypeOK
  <2>. SUFFICES ASSUME IInv  PROVE TypeOK
    OBVIOUS
  <2>1. count \in [calls : 0..MaxCalls, edits : 0..MaxTrouble, faults : 0..MaxTrouble]
    BY CheckoutAssumption DEF IInv, Types
  <2>. QED  BY <2>1 DEF IInv, Types, TypeOK, Prices0
<1>. QED  BY <1>1, Invariance, PTL

\* However checkouts, cancellations, timeouts, failed transactions, crashes and
\* owners' corrections follow each other, validate-order and release-stock never
\* let more portions be ordered or reserved than were put up and put back, as long
\* as no stock write was computed from a value another write had replaced.
THEOREM NothingOversoldAlways == Spec => []NothingOversold
<1>1. IInv => NothingOversold
  BY DEF IInv, PortionInv
<1>. QED  BY <1>1, Invariance, PTL

\* ... and before the first fault the count is exact: no portion is lost on the
\* way from the shelf to an order, nor on its way back.
THEOREM PortionsAccountedAlways == Spec => []PortionsAccounted
<1>1. IInv => PortionsAccounted
  BY DEF IInv, PortionInv
<1>. QED  BY <1>1, Invariance, PTL

\* An order of create_order_from_checkout is at the prices of the page its
\* customer confirmed and of one kitchen, for the fingerprint is compared where
\* the cart is read, the price where the menu is, and every cart is sound.
THEOREM PaidWhatWasShownAlways == Spec => []PaidWhatWasShown
<1>1. IInv => PaidWhatWasShown
  BY DEF IInv, CartInv, SoundCart, PaidWhatWasShown
<1>. QED  BY <1>1, Invariance, PTL

\* Two orders of one filling of a customer's cart need a lock that expired under
\* a checkout or after a crash: the order_lock key keeps a second click out, and what
\* was ordered is cleared before the lock is given back.
THEOREM OrderedOnceAlways == Spec => []OrderedOnce
<1>1. IInv => OrderedOnce
  BY DEF IInv
<1>. QED  BY <1>1, Invariance, PTL

-----------------------------------------------------------------------------
(* Stock, when calls do not overlap and nobody sets it by hand. *)

OneSlot == \A p, q \in Requests : p = q
NobodySetsStock == Edited \cap Tracked = {}

\* A handler about to write has the stock as it is.
ReadAsIs == ~stale /\ \A q \in Requests : remote[q].pc = "write" => remote[q].stock = stock

LEMMA ReadAsIsStep ==
  ASSUME OneSlot, NobodySetsStock, Types, ReadAsIs, [Next]_vars
  PROVE  ReadAsIs'
<1>1. ASSUME NEW q \in Requests, HandlerReads(q)
      PROVE  ReadAsIs'
  <2>1. \A p \in Requests : remote'[p].pc = "write" => remote'[p].stock = stock
    <3>1. remote \in [Requests -> Handler] /\ \A p \in Requests : p = q
      BY DEF Types, OneSlot
    <3>2. PICK h \in Handler : h = remote[q]
      BY <3>1
    <3>3. \/ remote'[q] = [h EXCEPT !.pc = "write", !.stock = stock, !.price = ValidatedPrice(h)]
          \/ remote'[q] = [h EXCEPT !.pc = "refused"]
          \/ remote'[q] = NoHandler
      BY <1>1, <3>1, <3>2 DEF HandlerReads
    <3>4. remote'[q].pc = "write" => remote'[q].stock = stock
      BY <3>2, <3>3, RecordTypes DEF Handler
    <3>. QED  BY <3>1, <3>4
  <2>. QED  BY <1>1, <2>1 DEF HandlerReads, kitchen, ReadAsIs
<1>2. ASSUME NEW q \in Requests, HandlerWrites(q)
      PROVE  ReadAsIs'
  <2>1. remote \in [Requests -> Handler] /\ \A p \in Requests : p = q
    BY DEF Types, OneSlot
  <2>2. remote[q].pc = "write" /\ remote[q].stock = stock
    BY <1>2 DEF HandlerWrites, ReadAsIs
  <2>3. ~stale'
    BY <1>2, <2>2 DEF HandlerWrites, ReadAsIs
  <2>4. remote'[q].pc # "write"
    <3>1. PICK h \in Handler : h = remote[q]
      BY <2>1
    <3>2. remote'[q] = [h EXCEPT !.pc = "ok"] \/ remote'[q] = NoHandler
      BY <1>2, <2>1, <3>1 DEF HandlerWrites
    <3>. QED  BY <3>1, <3>2, RecordTypes DEF Handler
  <2>. QED  BY <2>1, <2>3, <2>4 DEF ReadAsIs
<1>3. ASSUME UNCHANGED <<stock, stale>>,
             \A q \in Requests : remote'[q].pc = "write" => remote'[q] = remote[q]
      PROVE  ReadAsIs'
  BY <1>3 DEF ReadAsIs
<1>4. CASE UNCHANGED <<stock, stale, remote>>
  BY <1>4 DEF ReadAsIs
<1>5. ASSUME NEW q \in Requests, NEW h \in Handler, remote' = [remote EXCEPT ![q] = h], h.pc # "write",
             UNCHANGED <<stock, stale>>
      PROVE  ReadAsIs'
  <2>1. remote \in [Requests -> Handler]
    BY DEF Types
  <2>. QED  BY <1>3, <1>5, <2>1
<1>6. ASSUME NEW q \in Requests, ReadCart(q)  PROVE ReadAsIs'
  <2>1. UNCHANGED <<stock, stale>>
    BY <1>6 DEF ReadCart, kitchen
  <2>2. CASE UNCHANGED remote
    BY <1>4, <2>1, <2>2
  <2>3. CASE remote' # remote
    <3>1. PICK h : /\ h = [NoHandler EXCEPT !.pc = "read", !.restaurant = cart[req[q].customer].restaurant,
                                          !.quantity = cart[req[q].customer].quantity,
                                          !.price = cart[req[q].customer].price]
                   /\ remote' = [remote EXCEPT ![q] = h]
      BY <1>6, <2>3 DEF ReadCart
    <3>2. h.pc = "read"
      BY <3>1, RecordTypes DEF Handler
    <3>3. \A p \in Requests : remote'[p].pc = "write" => remote'[p] = remote[p]
      BY <3>1, <3>2 DEF Types
    <3>. QED  BY <1>3, <2>1, <3>3
  <2>. QED  BY <2>2, <2>3
<1>7. ASSUME NEW q \in Requests, CancelFlushes(q)  PROVE ReadAsIs'
  <2>1. UNCHANGED <<stock, stale>>
    BY <1>7 DEF CancelFlushes, kitchen
  <2>2. CASE UNCHANGED remote
    BY <1>4, <2>1, <2>2
  <2>3. CASE remote' # remote
    <3>1. PICK k : k = req[q].order
      OBVIOUS
    <3>2. PICK h : /\ h = [NoHandler EXCEPT !.pc = "read", !.kind = "release", !.order = k,
                                          !.restaurant = orders[k].restaurant,
                                          !.quantity = orders[k].quantity, !.price = orders[k].price]
                   /\ remote' = [remote EXCEPT ![q] = h]
      BY <1>7, <2>3, <3>1 DEF CancelFlushes
    <3>3. h.pc = "read"
      BY <3>2, RecordTypes DEF Handler
    <3>4. \A p \in Requests : remote'[p].pc = "write" => remote'[p] = remote[p]
      BY <3>2, <3>3 DEF Types
    <3>. QED  BY <1>3, <2>1, <3>4
  <2>. QED  BY <2>2, <2>3
<1>8. ASSUME NEW q \in Requests, Receive(q) \/ Timeout(q)  PROVE ReadAsIs'
  <2>1. UNCHANGED <<stock, stale>> /\ (remote' = remote \/ remote' = [remote EXCEPT ![q] = NoHandler])
    BY <1>8 DEF Receive, Timeout, kitchen
  <2>. QED  BY <1>4, <1>5, <2>1, RecordTypes
<1>9. CASE Crash
  <2>1. UNCHANGED <<stock, stale>> /\ \A q \in Requests : remote'[q] = remote[q] \/ remote'[q] = NoHandler
    BY <1>9 DEF Crash, kitchen
  <2>2. \A q \in Requests : remote'[q].pc = "write" => remote'[q] = remote[q]
    BY <2>1, RecordTypes
  <2>. QED  BY <1>3, <2>1, <2>2
<1>10. CASE Owner
  <2>1. UNCHANGED <<stock, stale, remote>>
    BY <1>10 DEF Owner, NobodySetsStock, SwitchItem, SwitchKitchen, SetPrice
  <2>. QED  BY <1>4, <2>1
<1>11. ASSUME NEW q \in Requests, Start(q)  PROVE ReadAsIs'
  <2>1. UNCHANGED <<stock, stale, remote>>
    BY <1>11 DEF Start, StartAdd, StartUpdate, StartCheckout, StartReorder, CancelRead, kitchen
  <2>. QED  BY <1>4, <2>1
<1>12. ASSUME NEW q \in Requests,
              \/ Lookup(q) \/ LookupFails(q) \/ Load(q) \/ Save(q) \/ LookUpAll(q) \/ ClearForReorder(q)
              \/ InsertOrder(q) \/ EmptyTheCart(q) \/ Unlock(q) \/ CancelCommits(q) \/ InsertFails(q)
       PROVE  ReadAsIs'
  <2>1. UNCHANGED <<stock, stale, remote>>
    BY <1>12 DEF Lookup, LookupFails, Load, Save, LookUpAll, ClearForReorder, InsertOrder, EmptyTheCart,
                Unlock, CancelCommits, InsertFails, kitchen
  <2>. QED  BY <1>4, <2>1
<1>13. ASSUME NEW q \in Requests, Serve(q)  PROVE ReadAsIs'
  BY <1>1, <1>2, <1>6, <1>7, <1>8, <1>12, <1>13 DEF Serve
<1>14. CASE (\E c \in Customers : LockExpires(c)) \/ CooldownElapses \/ UNCHANGED vars
  <2>1. UNCHANGED <<stock, stale, remote>>
    BY <1>14 DEF LockExpires, CooldownElapses, vars, kitchen
  <2>. QED  BY <1>4, <2>1
<1>. QED  BY <1>8, <1>9, <1>10, <1>11, <1>12, <1>13, <1>14 DEF Next

\* What "nobody can take the last portion" (validate_order) rests on: one call at
\* a time, its handler's end included, and no stock set by hand.  Then the stock
\* written is never stale and nothing is oversold, whatever times out, fails or
\* crashes.
THEOREM OneAtATimeNothingOversold ==
  ASSUME OneSlot, NobodySetsStock
  PROVE  Spec => [](~stale /\ \A i \in Tracked : stock[i] + Taken(i) <= Supplied(i))
<1>1. Init => ReadAsIs
  BY RecordTypes DEF Init, ReadAsIs
<1>2. IInv /\ ReadAsIs /\ [Next]_vars => ReadAsIs'
  BY ReadAsIsStep DEF IInv
<1>3. IInv /\ ReadAsIs => ~stale /\ \A i \in Tracked : stock[i] + Taken(i) <= Supplied(i)
  BY DEF IInv, PortionInv, NothingOversold, ReadAsIs
<1>. QED  BY <1>1, <1>2, <1>3, Invariance, PTL DEF Spec

=============================================================================
