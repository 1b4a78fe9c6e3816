-------------------------- MODULE CheckoutContract --------------------------
(***************************************************************************)
(* What placing an order promises, with each order placed in one step that *)
(* finds everything it needs: the cart is still the buyer's, every item is *)
(* on the shelf; and which uses the coupon up exactly when there is an     *)
(* order.  Checkout, whose transactions take one row lock after the other, *)
(* implements this.  (Its limit is not part of the promise, as it is not   *)
(* kept.)                                                                  *)
(***************************************************************************)
EXTENDS Naturals

CONSTANTS Calls, Carts, From, Want, Stock0, Couponed   \* as in Checkout

VARIABLES stock, cart, usage, orders

vars == <<stock, cart, usage, orders>>

Init ==
  /\ stock = Stock0
  /\ cart = [k \in Carts |-> "ACTIVE"]
  /\ usage = 0
  /\ orders = [c \in Calls |-> "NONE"]

Place(c) ==
  /\ orders[c] = "NONE"
  /\ From[c] \in Carts => cart[From[c]] = "ACTIVE"
  /\ \A p \in DOMAIN stock : Want[From[c]][p] <= stock[p]
  /\ stock' = [p \in DOMAIN stock |-> stock[p] - Want[From[c]][p]]
  /\ cart' = [k \in Carts |-> IF k = From[c] THEN "CONVERTED" ELSE cart[k]]
  /\ usage' = IF c \in Couponed THEN usage + 1 ELSE usage
  /\ orders' = [orders EXCEPT ![c] = "PLACED"]

Withdraw(c) ==
  /\ orders[c] = "PLACED"
  /\ stock' = [p \in DOMAIN stock |-> stock[p] + Want[From[c]][p]]
  /\ orders' = [orders EXCEPT ![c] = "CANCELLED"]
  /\ UNCHANGED <<cart, usage>>

Next == \E c \in Calls : Place(c) \/ Withdraw(c)

Spec == Init /\ [][Next]_vars
=============================================================================
