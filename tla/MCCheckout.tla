---------------------------- MODULE MCCheckout ----------------------------
(* Instances of Checkout for TLC: two dishes of one kitchen, one of another. *)
EXTENDS Checkout, TLC

CONSTANTS c1, c2, q1, q2, soup, rice, cake, diner, bakery

Menus == soup :> diner @@ rice :> diner @@ cake :> bakery

Lunch == [restaurant |-> diner,
          quantity |-> [i \in Items |-> IF i = cake THEN 0 ELSE 1],
          price |-> [i \in Items |-> IF i = cake THEN 0 ELSE 1]]

CartsAtStart == {Lunch}

\* The second customer is a rival for the last portion.
RivalOrders == c1 :> Calls @@ c2 :> {"checkout"}

=============================================================================
