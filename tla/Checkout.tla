----------------------------- MODULE Checkout -----------------------------
(***************************************************************************)
(* From a cart to an order (services/orders/app/cart.py, checkout.py,      *)
(* reorder.py and create_order_from_checkout of service.py), with the part *)
(* of the restaurants service that answers: the item lookup, validate-order*)
(* and release-stock (services/restaurants/app/internal.py, inventory.py). *)
(*                                                                         *)
(* A cart is one JSON value in Redis: a request reads it, changes its copy *)
(* and writes it back whole, so two tabs of one customer can interleave.   *)
(* A checkout holds a Redis key that expires by itself and is deleted      *)
(* without looking whose it is.  The restaurants service handles a call in *)
(* a process of its own: the caller may give up (a timeout) while the      *)
(* handler goes on.  Stock is read with a plain SELECT and written back as *)
(* an absolute value.  Calls that are refused and change nothing do not    *)
(* appear.                                                                 *)
(***************************************************************************)
EXTENDS CircuitBreaker, Integers, Sequences, FiniteSets

CONSTANTS
    Customers, Requests, Items, Restaurants,
    RestaurantOf,    \* RestaurantOf[i]: the restaurant whose menu has item i
    Tracked,         \* the items whose stock_quantity is not NULL
    Prices,          \* prices an item can have; 0 stands for "no line"
    InitialStock,    \* stock of every tracked item at the start
    InitialCarts,    \* the carts customers may have at the start
    CallsOf,         \* CallsOf[c]: the kinds of calls customer c makes
    Edited,          \* the items whose owners make edits
    NoRestaurant,    \* restaurant_id of an empty cart
    MaxQty,          \* bound on the quantity of a line
    MaxCalls,        \* bound on the calls customers make
    MaxTrouble       \* bound on owners' edits, timeouts, failed transactions and
                     \* crashes, all together

ASSUME CheckoutAssumption ==
    /\ Customers # {} /\ Items # {}
    /\ RestaurantOf \in [Items -> Restaurants]
    /\ Tracked \subseteq Items
    /\ Prices \subseteq Nat \ {0} /\ Prices # {}
    /\ InitialStock \in Nat
    /\ Edited \subseteq Items
    /\ NoRestaurant \notin Restaurants
    /\ MaxQty \in Nat \ {0} /\ {MaxCalls, MaxTrouble} \subseteq Nat

VARIABLES
    menu,       \* menu[i]: price and is_available of item i
    stock,      \* stock[i]: stock_quantity of tracked item i
    accepting,  \* accepting[r]: is r open, by switch and by schedule?
    cart,       \* cart[c]: the value of key cart:{user_id}
    lock,       \* lock[c]: does key order_lock:{user_id} exist?
    seen,       \* seen[c]: fingerprint of the last cart view c was shown
    orders,     \* the orders, in the order of their commits
    req,        \* req[q]: the call served in slot q of the orders service
    remote,     \* remote[q]: its handler at the restaurants service
    breaker,    \* the orders service's breaker for the restaurants service
    supply,     \* supply[i]: portions the owner put on the menu, less those taken off (history)
    stale,      \* was stock written from a value another write had replaced?
    expired,    \* expired[c]: did a lock of c expire while held?  (history)
    gen,        \* gen[c]: how often c's cart was cleared (history)
    count       \* how many calls, edits and faults so far

vars == <<menu, stock, accepting, cart, lock, seen, orders, req, remote, breaker, supply, stale, expired, gen, count>>
kitchen == <<menu, stock, accepting, supply, stale>>

Quantities == [Items -> 0..MaxQty]
NoLines == [i \in Items |-> 0]
Wanted(lines) == {i \in Items : lines[i] > 0}

\* items and the unit_price kept with each; an absent line is quantity 0.
Cart == [restaurant : Restaurants \cup {NoRestaurant},
         quantity : Quantities, price : [Items -> Prices \cup {0}]]
EmptyCart == [restaurant |-> NoRestaurant, quantity |-> NoLines, price |-> NoLines]

Calls == {"add", "update", "reorder", "checkout", "cancel"}

\* Every line has a price, all are of one kitchen, and an empty cart of none.
SoundCart(data) ==
    /\ \A i \in Items : data.quantity[i] > 0 <=> data.price[i] > 0
    /\ \A i \in Wanted(data.quantity) : RestaurantOf[i] = data.restaurant
    /\ data.quantity = NoLines => data.restaurant = NoRestaurant

\* The carts at the start are such as calls before it can have left.
ASSUME CartsAssumption ==
    /\ InitialCarts \subseteq Cart /\ \A data \in InitialCarts : SoundCart(data)
    /\ CallsOf \in [Customers -> SUBSET Calls]

\* A hash of "id:unit_price" over the lines, so it is these pairs.
price_hash(c) == c.price

Order == [customer : Customers, restaurant : Restaurants,
          quantity : Quantities, price : [Items -> Prices \cup {0}],
          shown : [Items -> Prices \cup {0}],
          gen : Nat, live : BOOLEAN,
          returned : Nat]   \* how often its portions were put back (history)

Steps == {"idle", "lookup", "load", "save", "clear", "read cart", "await", "insert", "empty cart", "unlock", "look up all", "flush", "commit"}

Request == [pc : Steps, call : Calls, customer : Customers,
            todo : Quantities,   \* lines an add or a reorder still has to add
            item : Items, quantity : 0..MaxQty,
            price : Prices \cup {0},
            shown : [Items -> Prices \cup {0}],
            cart : Cart, gen : Nat,
            order : Nat]         \* the order a cancel is about

Handler == [pc : {"idle", "read", "write", "ok", "refused"},
            kind : {"reserve", "release"}, order : Nat,
            restaurant : Restaurants \cup {NoRestaurant},
            quantity : Quantities, price : [Items -> Prices \cup {0}],
            stock : [Tracked -> Nat]]

NoStock == [i \in Tracked |-> 0]
NoHandler == [pc |-> "idle", kind |-> "reserve", order |-> 0, restaurant |-> NoRestaurant,
              quantity |-> NoLines, price |-> NoLines, stock |-> NoStock]
NoRequest == [pc |-> "idle", call |-> "add", customer |-> CHOOSE c \in Customers : TRUE,
              todo |-> NoLines, item |-> CHOOSE i \in Items : TRUE, quantity |-> 0,
              price |-> 0, shown |-> NoLines, cart |-> EmptyCart, gen |-> 0, order |-> 0]

Init ==
    /\ menu \in [Items -> [price : {CHOOSE p \in Prices : TRUE}, available : {TRUE}]]
    /\ stock = [i \in Tracked |-> InitialStock] /\ supply = stock
    /\ accepting = [r \in Restaurants |-> TRUE]
    /\ cart \in [Customers -> InitialCarts]
    /\ lock = [c \in Customers |-> FALSE]
    /\ seen = [c \in Customers |-> price_hash(cart[c])]
    /\ orders = <<>>
    /\ req = [q \in Requests |-> NoRequest]
    /\ remote = [q \in Requests |-> NoHandler]
    /\ breaker = Closed
    /\ stale = FALSE
    /\ expired = [c \in Customers |-> FALSE]
    /\ gen = [c \in Customers |-> 0]
    /\ count = [calls |-> 0, edits |-> 0, faults |-> 0]

Counted(what) == count' = [count EXCEPT ![what] = @ + 1]

Fault == count.edits + count.faults < MaxTrouble /\ Counted("faults")
Edit == count.edits + count.faults < MaxTrouble /\ Counted("edits")

\* A slot takes a call once its last one, and the handler that one left
\* behind at the restaurants service, are over.  Slots are alike, so a call
\* takes a definite one of the free ones.
Free(q) == req[q].pc = "idle" /\ remote[q].pc = "idle"

Accept(q, c, call) ==
    /\ call \in CallsOf[c]
    /\ Free(q) /\ q = CHOOSE p \in Requests : Free(p)
    /\ count.calls < MaxCalls /\ Counted("calls")

End(q) == req' = [req EXCEPT ![q] = NoRequest]

---------------------------------------------------------------------------
(* The cart. *)

StartAdd(q, c, i, n) ==
    /\ Accept(q, c, "add")
    /\ req' = [req EXCEPT ![q] = [NoRequest EXCEPT !.pc = "lookup", !.call = "add", !.customer = c,
                                                  !.todo = [NoLines EXCEPT ![i] = n]]]
    /\ UNCHANGED <<kitchen, cart, lock, seen, orders, remote, breaker, expired, gen>>

\* GET /restaurants/items/lookup answers; an item that is not available
\* ends the request.
Lookup(q) ==
    /\ req[q].pc = "lookup" /\ ~is_open(breaker)
    /\ \E i \in Wanted(req[q].todo) :
         req' = [req EXCEPT ![q] = IF menu[i].available
                                     THEN [@ EXCEPT !.pc = "load", !.item = i, !.price = menu[i].price,
                                                    !.quantity = req[q].todo[i]]
                                     ELSE NoRequest]
    /\ breaker' = record_success(breaker)
    /\ UNCHANGED <<kitchen, cart, lock, seen, orders, remote, expired, gen, count>>

\* The lookup fails fast, or times out: 503.
LookupFails(q) ==
    /\ req[q].pc \in {"lookup", "look up all"}
    /\ \/ is_open(breaker) /\ UNCHANGED <<breaker, count>>
       \/ ~is_open(breaker) /\ Fault /\ breaker' = record_failure(breaker)
    /\ End(q)
    /\ UNCHANGED <<kitchen, cart, lock, seen, orders, remote, expired, gen>>

AddLine(data, i, n, p) ==
    [restaurant |-> RestaurantOf[i],
     quantity |-> [data.quantity EXCEPT ![i] = @ + n],
     price |-> [data.price EXCEPT ![i] = p]]

SetLine(data, i, n) ==
    LET quantity == [data.quantity EXCEPT ![i] = n]
        price == IF n = 0 THEN [data.price EXCEPT ![i] = 0] ELSE data.price
    IN  [restaurant |-> IF quantity = NoLines THEN NoRestaurant ELSE data.restaurant,
         quantity |-> quantity, price |-> price]

\* Mutant: a line from anywhere goes in.
AnyKitchen(data, i) == data.restaurant \in Restaurants \cup {NoRestaurant}

OneKitchen(data, i) == data.restaurant \in {NoRestaurant, RestaurantOf[i]}

\* _load and the change, in memory; a refused change ends the request.
Load(q) ==
    LET r == req[q]
        data == cart[r.customer]
        n == data.quantity[r.item] + r.quantity
    IN  /\ r.pc = "load"
        /\ \/ /\ r.call \in {"add", "reorder"} /\ OneKitchen(data, r.item) /\ n <= MaxQty
              /\ req' = [req EXCEPT ![q] = [r EXCEPT !.pc = "save", !.cart = AddLine(data, r.item, r.quantity, r.price)]]
           \/ /\ r.call = "update" /\ data.quantity[r.item] > 0
              /\ req' = [req EXCEPT ![q] = [r EXCEPT !.pc = "save", !.cart = SetLine(data, r.item, r.quantity)]]
           \/ /\ r.call \in {"add", "reorder"} => ~OneKitchen(data, r.item) \/ n > MaxQty
              /\ r.call = "update" => data.quantity[r.item] = 0
              /\ End(q)
        /\ UNCHANGED <<kitchen, cart, lock, seen, orders, remote, breaker, expired, gen, count>>

\* _save; then the view goes back to the customer, or the next line follows.
Save(q) ==
    LET r == req[q]
        left == [r.todo EXCEPT ![r.item] = 0]
    IN  /\ r.pc = "save"
        /\ cart' = [cart EXCEPT ![r.customer] = r.cart]
        /\ IF left = NoLines
             THEN End(q) /\ seen' = [seen EXCEPT ![r.customer] = price_hash(r.cart)]
             ELSE /\ req' = [req EXCEPT ![q] = [@ EXCEPT !.pc = "lookup", !.todo = left]]
                  /\ UNCHANGED seen
        /\ UNCHANGED <<kitchen, lock, orders, remote, breaker, expired, gen, count>>

\* update_item, and remove_item with quantity 0.
StartUpdate(q, c, i, n) ==
    /\ Accept(q, c, "update")
    /\ cart[c].quantity[i] > 0 /\ cart[c].quantity[i] # n
    /\ req' = [req EXCEPT ![q] = [NoRequest EXCEPT !.pc = "load", !.call = "update", !.customer = c,
                                                  !.item = i, !.quantity = n]]
    /\ UNCHANGED <<kitchen, cart, lock, seen, orders, remote, breaker, expired, gen>>

clear_cart(c) ==
    /\ cart' = [cart EXCEPT ![c] = EmptyCart]
    /\ gen' = [gen EXCEPT ![c] = @ + 1]

\* reorder: the lines of one of the customer's orders.
StartReorder(q, k) ==
    /\ Accept(q, orders[k].customer, "reorder")
    /\ req' = [req EXCEPT ![q] = [NoRequest EXCEPT !.pc = "look up all", !.call = "reorder",
                                                  !.customer = orders[k].customer, !.todo = orders[k].quantity]]
    /\ UNCHANGED <<kitchen, cart, lock, seen, orders, remote, breaker, expired, gen>>

\* One lookup for all lines decides which are carried over.
LookUpAll(q) ==
    LET lines == req[q].todo
        carried == {i \in Wanted(lines) : menu[i].available /\ (i \in Tracked => stock[i] >= lines[i])}
    IN  /\ req[q].pc = "look up all" /\ ~is_open(breaker)
        /\ req' = [req EXCEPT ![q] = [@ EXCEPT !.pc = "clear",
                                               !.todo = [i \in Items |-> IF i \in carried THEN lines[i] ELSE 0]]]
        /\ breaker' = record_success(breaker)
        /\ UNCHANGED <<kitchen, cart, lock, seen, orders, remote, expired, gen, count>>

ClearForReorder(q) ==
    /\ req[q].pc = "clear"
    /\ clear_cart(req[q].customer)
    /\ IF req[q].todo = NoLines THEN End(q) ELSE req' = [req EXCEPT ![q].pc = "lookup"]
    /\ UNCHANGED <<kitchen, lock, seen, orders, remote, breaker, expired, count>>

---------------------------------------------------------------------------
(* Checkout: create_order_from_checkout. *)

\* Mutant: the key is set whether or not it is there.
StartCheckoutAnyway(q, c) ==
    /\ Accept(q, c, "checkout")
    /\ lock' = [lock EXCEPT ![c] = TRUE]
    /\ req' = [req EXCEPT ![q] = [NoRequest EXCEPT !.pc = "read cart", !.call = "checkout",
                                                  !.customer = c, !.shown = price_hash(cart[c])]]
    /\ UNCHANGED <<kitchen, cart, seen, orders, remote, breaker, expired, gen>>

\* SET NX EX.  The page sends the fingerprint of the cart it shows: the one
\* the last change answered with, or one just read with GET /cart.
StartCheckout(q, c) ==
    /\ Accept(q, c, "checkout")
    /\ ~lock[c]
    /\ lock' = [lock EXCEPT ![c] = TRUE]
    /\ \E shown \in {seen[c], price_hash(cart[c])} :
         req' = [req EXCEPT ![q] = [NoRequest EXCEPT !.pc = "read cart", !.call = "checkout",
                                                    !.customer = c, !.shown = shown]]
    /\ UNCHANGED <<kitchen, cart, seen, orders, remote, breaker, expired, gen>>

\* get_cart and the checks made here; then POST validate-order goes out.
\* The address may not have reached this service yet.
ReadCart(q) ==
    LET r == req[q]
        data == cart[r.customer]
    IN  /\ r.pc = "read cart"
        /\ \E address_known \in BOOLEAN :
             IF data.quantity # NoLines /\ r.shown = price_hash(data) /\ address_known /\ ~is_open(breaker)
               THEN /\ req' = [req EXCEPT ![q] = [@ EXCEPT !.pc = "await", !.cart = data, !.gen = gen[r.customer]]]
                    /\ remote' = [remote EXCEPT ![q] = [NoHandler EXCEPT !.pc = "read", !.restaurant = data.restaurant,
                                                                        !.quantity = data.quantity, !.price = data.price]]
               ELSE /\ req' = [req EXCEPT ![q].pc = "unlock"]
                    /\ UNCHANGED remote
        /\ UNCHANGED <<kitchen, cart, lock, seen, orders, breaker, expired, gen, count>>

\* The answer arrives in time.
Receive(q) ==
    /\ req[q].pc = "await" /\ remote[q].pc \in {"ok", "refused"}
    /\ remote' = [remote EXCEPT ![q] = NoHandler]
    /\ breaker' = record_success(breaker)
    /\ CASE req[q].call = "cancel" -> req' = [req EXCEPT ![q].pc = "commit"]
         [] req[q].call = "checkout" ->
              req' = [req EXCEPT ![q] = IF remote[q].pc = "ok"
                                          THEN [@ EXCEPT !.pc = "insert", !.cart.price = remote[q].price]
                                          ELSE [@ EXCEPT !.pc = "unlock"]]
    /\ UNCHANGED <<kitchen, cart, lock, seen, orders, expired, gen, count>>

\* The caller gives up.  The request was lost on its way, or its handler
\* goes on without anyone to answer to.
Timeout(q) ==
    /\ req[q].pc = "await" /\ Fault
    /\ breaker' = record_failure(breaker)
    /\ req' = [req EXCEPT ![q].pc = IF req[q].call = "cancel" THEN "commit" ELSE "unlock"]
    /\ \/ remote[q].pc \in {"read", "ok", "refused"} /\ remote' = [remote EXCEPT ![q] = NoHandler]
       \/ remote[q].pc \in {"read", "write"} /\ UNCHANGED remote
    /\ UNCHANGED <<kitchen, cart, lock, seen, orders, expired, gen>>

\* The order and its events are committed.
InsertOrder(q) ==
    LET r == req[q] IN
    /\ r.pc = "insert"
    /\ orders' = Append(orders, [customer |-> r.customer, restaurant |-> r.cart.restaurant,
                                 quantity |-> r.cart.quantity, price |-> r.cart.price,
                                 shown |-> r.shown, gen |-> r.gen, live |-> TRUE, returned |-> 0])
    /\ req' = [req EXCEPT ![q].pc = "empty cart"]
    /\ UNCHANGED <<kitchen, cart, lock, seen, remote, breaker, expired, gen, count>>

\* The transaction fails: the reservation stays, for no order.
InsertFails(q) ==
    /\ req[q].pc = "insert" /\ Fault
    /\ req' = [req EXCEPT ![q].pc = "unlock"]
    /\ UNCHANGED <<kitchen, cart, lock, seen, orders, remote, breaker, expired, gen>>

EmptyTheCart(q) ==
    /\ req[q].pc = "empty cart"
    /\ clear_cart(req[q].customer)
    /\ req' = [req EXCEPT ![q].pc = "unlock"]
    /\ UNCHANGED <<kitchen, lock, seen, orders, remote, breaker, expired, count>>

\* finally: the key is deleted, whoever set it.
Unlock(q) ==
    /\ req[q].pc = "unlock"
    /\ lock' = [lock EXCEPT ![req[q].customer] = FALSE]
    /\ End(q)
    /\ UNCHANGED <<kitchen, cart, seen, orders, remote, breaker, expired, gen, count>>

\* The key's time to live.
LockExpires(c) ==
    /\ lock[c]
    /\ lock' = [lock EXCEPT ![c] = FALSE]
    /\ expired' = [expired EXCEPT ![c] = TRUE]
    /\ UNCHANGED <<kitchen, cart, seen, orders, req, remote, breaker, gen, count>>

\* cancel_by_customer reads the order without a lock.
CancelRead(q, k) ==
    /\ Accept(q, orders[k].customer, "cancel")
    /\ orders[k].live
    /\ req' = [req EXCEPT ![q] = [NoRequest EXCEPT !.pc = "flush", !.call = "cancel",
                                                  !.customer = orders[k].customer, !.order = k]]
    /\ UNCHANGED <<kitchen, cart, lock, seen, orders, remote, breaker, expired, gen>>

\* Its UPDATE takes the row's lock; then release_stock goes out, best effort,
\* before the commit.
CancelFlushes(q) ==
    LET k == req[q].order IN
    /\ req[q].pc = "flush"
    /\ \A p \in Requests : req[p].call = "cancel" /\ req[p].order = k => req[p].pc \notin {"await", "commit"}
    /\ IF is_open(breaker)
         THEN req' = [req EXCEPT ![q].pc = "commit"] /\ UNCHANGED remote
         ELSE /\ req' = [req EXCEPT ![q].pc = "await"]
              /\ remote' = [remote EXCEPT ![q] = [NoHandler EXCEPT !.pc = "read", !.kind = "release", !.order = k,
                                                  !.restaurant = orders[k].restaurant,
                                                  !.quantity = orders[k].quantity, !.price = orders[k].price]]
    /\ UNCHANGED <<kitchen, cart, lock, seen, orders, breaker, expired, gen, count>>

CancelCommits(q) ==
    /\ req[q].pc = "commit"
    /\ orders' = [orders EXCEPT ![req[q].order].live = FALSE]
    /\ End(q)
    /\ UNCHANGED <<kitchen, cart, lock, seen, remote, breaker, expired, gen, count>>

\* The process of the orders service dies and comes back: its calls are
\* over, its breaker is new, the keys in Redis and the handlers at the other
\* service stay.
Crash ==
    /\ Fault
    /\ \E q \in Requests : req[q].pc # "idle"
    /\ req' = [q \in Requests |-> NoRequest]
    /\ remote' = [q \in Requests |-> IF remote[q].pc \in {"read", "write"} THEN remote[q] ELSE NoHandler]
    /\ breaker' = Closed
    /\ UNCHANGED <<kitchen, cart, lock, seen, orders, expired, gen>>

CooldownElapses ==
    /\ is_open(breaker)
    /\ breaker' = cooldown_elapsed(breaker)
    /\ UNCHANGED <<kitchen, cart, lock, seen, orders, req, remote, expired, gen, count>>

---------------------------------------------------------------------------
(* The restaurants service. *)

shortfall(i, n) == i \in Tracked /\ stock[i] < n

\* Mutant: the quantity is not held against the stock.
OrderableBeyondStock(h) ==
    /\ accepting[h.restaurant]
    /\ \A i \in Wanted(h.quantity) :
         RestaurantOf[i] = h.restaurant /\ menu[i].available /\ menu[i].price = h.price[i]

\* Mutant: the price is taken as it is now, without a word.
OrderableAtAnyPrice(h) ==
    /\ accepting[h.restaurant]
    /\ \A i \in Wanted(h.quantity) :
         RestaurantOf[i] = h.restaurant /\ menu[i].available /\ ~shortfall(i, h.quantity[i])

\* The checks of validate_order on the rows as read, in the cart's terms.
Orderable(h) ==
    /\ accepting[h.restaurant]
    /\ \A i \in Wanted(h.quantity) :
         /\ RestaurantOf[i] = h.restaurant
         /\ menu[i].available
         /\ ~shortfall(i, h.quantity[i])
         /\ menu[i].price = h.price[i]

\* unit_price of every validated line: the item's own.
ValidatedPrice(h) == [i \in Items |-> IF h.quantity[i] > 0 THEN menu[i].price ELSE 0]

\* The SELECTs.  Zone and minimum may refuse what these checks let through.
HandlerReads(q) ==
    LET h == remote[q] IN
    /\ h.pc = "read"
    /\ \E other_checks \in BOOLEAN :
         remote' = [remote EXCEPT ![q] =
           IF h.kind = "release" \/ (Orderable(h) /\ other_checks)
             THEN [h EXCEPT !.pc = "write", !.stock = stock, !.price = ValidatedPrice(h)]
             ELSE IF req[q].pc = "await" THEN [h EXCEPT !.pc = "refused"] ELSE NoHandler]
    /\ UNCHANGED <<kitchen, cart, lock, seen, orders, req, breaker, expired, gen, count>>

\* Mutant: stock is only ever taken.
MovedOneWay(h, i) ==
    IF h.kind = "reserve" /\ h.stock[i] >= h.quantity[i] THEN h.stock[i] - h.quantity[i] ELSE h.stock[i]

\* _move: the new value is computed from the one read.
Moved(h, i) ==
    IF h.kind = "release" THEN h.stock[i] + h.quantity[i]
    ELSE IF h.stock[i] >= h.quantity[i] THEN h.stock[i] - h.quantity[i] ELSE 0

\* The UPDATEs and the commit.
HandlerWrites(q) ==
    LET h == remote[q]
        moved == {i \in Tracked : h.quantity[i] > 0}
    IN  /\ h.pc = "write"
        /\ stock' = [i \in Tracked |-> IF i \in moved THEN Moved(h, i) ELSE stock[i]]
        /\ stale' = (stale \/ \E i \in moved : stock[i] # h.stock[i])
        /\ remote' = [remote EXCEPT ![q] = IF req[q].pc = "await" THEN [h EXCEPT !.pc = "ok"] ELSE NoHandler]
        /\ orders' = IF h.kind = "release" THEN [orders EXCEPT ![h.order].returned = @ + 1] ELSE orders
        /\ UNCHANGED <<menu, accepting, supply, cart, lock, seen, req, breaker, expired, gen, count>>

\* update_item by the owner: only the fields sent are written.
SetPrice(i, p) ==
    /\ Edit /\ menu[i].price # p
    /\ menu' = [menu EXCEPT ![i].price = p]
    /\ UNCHANGED <<stock, supply, stale, accepting, cart, lock, seen, orders, req, remote, breaker, expired, gen>>

SwitchItem(i) ==
    /\ Edit
    /\ menu' = [menu EXCEPT ![i].available = ~@]
    /\ UNCHANGED <<stock, supply, stale, accepting, cart, lock, seen, orders, req, remote, breaker, expired, gen>>

SetStock(i, n) ==
    /\ Edit /\ stock[i] # n
    /\ stock' = [stock EXCEPT ![i] = n]
    /\ supply' = [supply EXCEPT ![i] = @ + n - stock[i]]
    /\ UNCHANGED <<menu, stale, accepting, cart, lock, seen, orders, req, remote, breaker, expired, gen>>

\* The owner's switch or the clock opens or closes the kitchen.
SwitchKitchen(r) ==
    /\ Edit
    /\ accepting' = [accepting EXCEPT ![r] = ~@]
    /\ UNCHANGED <<menu, stock, supply, stale, cart, lock, seen, orders, req, remote, breaker, expired, gen>>

---------------------------------------------------------------------------

Serve(q) ==
    \/ Lookup(q) \/ LookupFails(q) \/ Load(q) \/ Save(q) \/ LookUpAll(q) \/ ClearForReorder(q)
    \/ ReadCart(q) \/ Receive(q) \/ InsertOrder(q) \/ EmptyTheCart(q) \/ Unlock(q)
    \/ CancelFlushes(q) \/ CancelCommits(q)
    \/ HandlerReads(q) \/ HandlerWrites(q)

Start(q) ==
    \/ \E c \in Customers, i \in Items :
         \/ StartAdd(q, c, i, 1)
         \/ \E n \in 0..MaxQty : StartUpdate(q, c, i, n)
    \/ \E c \in Customers : StartCheckout(q, c)
    \/ \E k \in DOMAIN orders : StartReorder(q, k) \/ CancelRead(q, k)

Owner ==
    \/ \E i \in Edited : SwitchItem(i) \/ SwitchKitchen(RestaurantOf[i]) \/ \E p \in Prices : SetPrice(i, p)
    \/ \E i \in Edited \cap Tracked, n \in 0..InitialStock : SetStock(i, n)

Next ==
    \/ \E q \in Requests : Start(q) \/ Serve(q) \/ Timeout(q) \/ InsertFails(q)
    \/ \E c \in Customers : LockExpires(c)
    \/ Owner \/ Crash \/ CooldownElapses

Spec == Init /\ [][Next]_vars

---------------------------------------------------------------------------
(* Properties. *)

TypeOK ==
    /\ menu \in [Items -> [price : Prices, available : BOOLEAN]]
    /\ stock \in [Tracked -> Nat] /\ supply \in [Tracked -> Int]
    /\ accepting \in [Restaurants -> BOOLEAN]
    /\ cart \in [Customers -> Cart]
    /\ lock \in [Customers -> BOOLEAN] /\ expired \in [Customers -> BOOLEAN]
    /\ seen \in [Customers -> [Items -> Prices \cup {0}]]
    /\ orders \in Seq(Order)
    /\ req \in [Requests -> Request]
    /\ remote \in [Requests -> Handler]
    /\ breaker \in Breaker
    /\ stale \in BOOLEAN
    /\ gen \in [Customers -> Nat]
    /\ count \in [calls : 0..MaxCalls, edits : 0..MaxTrouble, faults : 0..MaxTrouble]

\* Portions of item i, each named by what it was taken or put back for and a
\* number: those of the orders, those put back, and those reserved for an
\* order that is not committed yet.
Ordered(i) == {p \in (DOMAIN orders) \X (1..MaxQty) : p[2] <= orders[p[1]].quantity[i]}
PutBack(i) == UNION {({k} \X (1..orders[k].returned)) \X (1..orders[k].quantity[i]) : k \in DOMAIN orders}

OnTheWay(q) ==
    IF remote[q].kind = "reserve" /\ remote[q].pc = "ok" THEN remote[q].quantity
    ELSE IF req[q].pc = "insert" THEN req[q].cart.quantity
    ELSE NoLines
Reserved(i) == {p \in Requests \X (1..MaxQty) : p[2] <= OnTheWay(p[1])[i]}

Taken(i) == Cardinality(Ordered(i)) + Cardinality(Reserved(i))
Supplied(i) == supply[i] + Cardinality(PutBack(i))

\* While no stock write was computed from a value another write had replaced,
\* the shelf and the orders together never hold more than the owner put up and
\* cancellations put back, whatever times out, fails or crashes.
NothingOversold == stale \/ \A i \in Tracked : stock[i] + Taken(i) <= Supplied(i)

\* And when nothing fails either, no portion is lost: every path through
\* checkout, cancellation and the owner's corrections keeps the count.
PortionsAccounted ==
    stale \/ count.faults > 0 \/ \A i \in Tracked : stock[i] + Taken(i) = Supplied(i)

\* An order's lines are those of the cart page whose fingerprint came with
\* the checkout, at the prices shown there, although the price is compared
\* in two services at two times and carts and menus change meanwhile; and
\* one kitchen cooks it, as two tabs never mix two kitchens in one cart.
PaidWhatWasShown ==
    /\ \A k \in DOMAIN orders :
          /\ orders[k].price = orders[k].shown
          /\ \A i \in Wanted(orders[k].quantity) : RestaurantOf[i] = orders[k].restaurant
    /\ \A c \in Customers :
          /\ \A i \in Wanted(cart[c].quantity) : RestaurantOf[i] = cart[c].restaurant
          /\ cart[c].quantity = NoLines => cart[c].restaurant = NoRestaurant

\* One filling of the cart becomes two orders only if the checkout's lock
\* expired under a call or after a crash: a double click does not do it.
OrderedOnce ==
    \A j, k \in DOMAIN orders :
        j # k /\ orders[j].customer = orders[k].customer /\ orders[j].gen = orders[k].gen
            => expired[orders[j].customer]

=============================================================================
