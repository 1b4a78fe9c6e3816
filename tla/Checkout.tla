------------------------------ MODULE Checkout ------------------------------
(***************************************************************************)
(* OrderService.checkout and buyNow: several buyers at once turn carts, or *)
(* single products, into orders.                                           *)
(*                                                                         *)
(* A call checks the cart, then opens a transaction that claims the cart,  *)
(* quotes the items, redeems the coupon and takes the items from the stock *)
(* one by one.  Each of its updates locks a row until the transaction      *)
(* ends; here the update is checked when it takes its lock and lands when  *)
(* the transaction commits, which no other transaction can tell from the   *)
(* update in place.  The items come from the database in no particular     *)
(* order.  The coupon is read over a connection of its own, with no lock.  *)
(* A buyNow has no cart: it passes the cart's steps without touching one.  *)
(***************************************************************************)
EXTENDS Naturals, FiniteSets, FiniteSetsExt

CONSTANTS
  Calls,     \* calls of checkout and buyNow
  Carts,
  Products,
  From,      \* the cart of a call, or the product page of a buyNow
  Want,      \* the quantities asked for there
  Stock0,    \* stockOnHand before anybody buys
  Couponed,  \* the calls that come with the coupon
  Limit,     \* its usageLimit
  Nothing    \* what a call asks for that waits for no item

ASSUME CheckoutAssumption ==
  /\ IsFiniteSet(Calls)
  /\ Want \in [{From[c] : c \in Calls} -> [Products -> Nat]]
  /\ Stock0 \in [Products -> Nat]
  /\ Limit \in Nat \ {0}
  /\ Nothing \notin Products

VARIABLES
  stock,   \* products.stockOnHand, committed
  cart,    \* carts.status, committed
  usage,   \* coupons.usageCount, committed
  orders,  \* the order a call has placed
  stage,   \* how far a call is
  left,    \* the items it has not asked for yet
  asks     \* the item it asks for, and may wait for

rows == <<stock, cart, usage, orders>>
vars == <<rows, stage, left, asks>>

Items(c) == {p \in Products : Want[From[c]][p] > 0}

Init ==
  /\ stock = Stock0
  /\ cart = [k \in Carts |-> "ACTIVE"]
  /\ usage = 0
  /\ orders = [c \in Calls |-> "NONE"]
  /\ stage = [c \in Calls |-> "new"]
  /\ left = [c \in Calls |-> Items(c)]
  /\ asks = [c \in Calls |-> Nothing]

-----------------------------------------------------------------------------
(* Row locks *)

HoldsCart(c, k) == From[c] = k /\ stage[c] \in {"claimed", "quoted", "taking"}
HoldsCoupon(c) == c \in Couponed /\ stage[c] = "taking"
Holds(c, p) == stage[c] = "taking" /\ p \in Items(c) \ (left[c] \cup {asks[c]})

CartFree(k) == \A d \in Calls : ~HoldsCart(d, k)
CouponFree == \A d \in Calls : ~HoldsCoupon(d)
ProductFree(p) == \A d \in Calls : ~Holds(d, p)

Goto(c, next) == stage' = [stage EXCEPT ![c] = next]

-----------------------------------------------------------------------------
(* The steps of a call *)

CartIsActive(c) == From[c] \in Carts => cart[From[c]] = "ACTIVE"

ReadCart(c) ==
  /\ stage[c] = "new"
  /\ CartIsActive(c)
  /\ Goto(c, "read")
  /\ UNCHANGED <<rows, left, asks>>

(* The claim is an update guarded by the status.  A second claim waits for  *)
(* the first transaction to end.                                            *)
Claim(c) ==
  /\ stage[c] = "read"
  /\ From[c] \in Carts => CartFree(From[c])
  /\ CartIsActive(c)
  /\ Goto(c, "claimed")
  /\ UNCHANGED <<rows, left, asks>>

Available(c) == \A p \in Items(c) : Want[From[c]][p] <= stock[p]

Redeemable == usage < Limit

(* calcQuote and validateCoupon *)
Quote(c) ==
  /\ stage[c] = "claimed"
  /\ Available(c)
  /\ c \in Couponed => Redeemable
  /\ Goto(c, "quoted")
  /\ UNCHANGED <<rows, left, asks>>

Redeem(c) ==
  /\ stage[c] = "quoted"
  /\ c \in Couponed => CouponFree
  /\ Goto(c, "taking")
  /\ UNCHANGED <<rows, left, asks>>

Quoted(p, n) == TRUE  \* mutation: the quote has seen enough of it
Enough(p, n) == n <= stock[p]

(* One item after the other: the decrement waits for the row, and is        *)
(* guarded by the stock left.                                               *)
Ask(c, p) ==
  /\ stage[c] = "taking"
  /\ asks[c] = Nothing
  /\ p \in left[c]
  /\ left' = [left EXCEPT ![c] = @ \ {p}]
  /\ asks' = [asks EXCEPT ![c] = p]
  /\ UNCHANGED <<rows, stage>>

Take(c) ==
  /\ asks[c] # Nothing
  /\ ProductFree(asks[c])
  /\ Enough(asks[c], Want[From[c]][asks[c]])
  /\ asks' = [asks EXCEPT ![c] = Nothing]
  /\ UNCHANGED <<rows, stage, left>>

OneOfEach(c) ==  \* mutation: the quantity is not looked at
  stock' = [p \in Products |-> IF p \in Items(c) THEN stock[p] - 1 ELSE stock[p]]
Decrement(c) == stock' = [p \in Products |-> stock[p] - Want[From[c]][p]]

KeepCart(c) == cart' = cart   \* mutation: the claim is forgotten
SpendCart(c) == cart' = [k \in Carts |-> IF k = From[c] THEN "CONVERTED" ELSE cart[k]]

CountUse(c) == usage' = IF c \in Couponed THEN usage + 1 ELSE usage

Commit(c) ==
  /\ stage[c] = "taking"
  /\ left[c] = {}
  /\ asks[c] = Nothing
  /\ Decrement(c)
  /\ SpendCart(c)
  /\ CountUse(c)
  /\ orders' = [orders EXCEPT ![c] = "PLACED"]
  /\ Goto(c, "ended")
  /\ UNCHANGED <<left, asks>>

-----------------------------------------------------------------------------
(* The ways a call fails; its transaction leaves nothing behind.            *)

Fail(c) ==
  /\ stage[c] # "ended"
  /\ Goto(c, "ended")
  /\ asks' = [asks EXCEPT ![c] = Nothing]
  /\ UNCHANGED <<rows, left>>

(* 404, 409 and 400: the cart is not there any more, not even after waiting *)
(* for who has it; an item or the coupon is gone.                           *)
Absent(c) == stage[c] \in {"new", "read"} /\ ~CartIsActive(c)
NoQuote(c) == stage[c] = "claimed" /\ ~(Available(c) /\ (c \in Couponed => Redeemable))
Overlooked(c) == FALSE  \* mutation: that a decrement matches no row is not noticed
SoldOut(c) ==
  /\ asks[c] # Nothing
  /\ ProductFree(asks[c])
  /\ ~Enough(asks[c], Want[From[c]][asks[c]])

(* Calls that wait for each other's items in a circle: PostgreSQL ends one. *)
WaitsFor(c, d) == asks[c] # Nothing /\ Holds(d, asks[c])
Deadlocked(c) ==
  \E S \in SUBSET Calls : c \in S /\ \A d \in S : \E e \in S : WaitsFor(d, e)

Refuse(c) == (Absent(c) \/ NoQuote(c) \/ SoldOut(c)) /\ Fail(c)
EndDeadlock(c) == Deadlocked(c) /\ Fail(c)

(* cancelOrder and resolveRejectedSlice put the items of an order back (the *)
(* cart stays spent and the coupon used).                                   *)
Withdraw(c) ==
  /\ orders[c] = "PLACED"
  /\ \A p \in Items(c) : ProductFree(p)
  /\ stock' = [p \in Products |-> stock[p] + Want[From[c]][p]]
  /\ orders' = [orders EXCEPT ![c] = "CANCELLED"]
  /\ UNCHANGED <<cart, usage, stage, left, asks>>

-----------------------------------------------------------------------------
Step(c) ==
  \/ ReadCart(c) \/ Claim(c) \/ Quote(c) \/ Redeem(c)
  \/ \E p \in Products : Ask(c, p)
  \/ Take(c) \/ Commit(c) \/ Refuse(c) \/ EndDeadlock(c)

Next == \E c \in Calls : Step(c) \/ Fail(c) \/ Withdraw(c)

Spec == Init /\ [][Next]_vars

(* A call that can go on does, and the database resolves deadlocks.         *)
LiveSpec == Spec /\ \A c \in Calls : WF_vars(Step(c))

-----------------------------------------------------------------------------
(* Types; and the stock is never negative. *)
TypeOK ==
  /\ stock \in [Products -> Nat]
  /\ cart \in [Carts -> {"ACTIVE", "CONVERTED"}]
  /\ usage \in Nat
  /\ orders \in [Calls -> {"NONE", "PLACED", "CANCELLED"}]
  /\ stage \in [Calls -> {"new", "read", "claimed", "quoted", "taking", "ended"}]
  /\ left \in [Calls -> SUBSET Products]
  /\ asks \in [Calls -> Products \cup {Nothing}]

Ordered == {c \in Calls : orders[c] # "NONE"}

(* Clicking twice, in two tabs or with a retry, spends a cart once.         *)
OneOrderPerCart ==
  \A c, d \in Ordered : From[c] = From[d] /\ From[c] \in Carts => c = d

(* Every unit is on the shelf or in an order that was not withdrawn, however*)
(* many transactions took, and gave back, items at the same time.           *)
StockConserved ==
  \A p \in Products :
    stock[p] + MapThenSumSet(LAMBDA c : Want[From[c]][p],
                             {c \in Calls : orders[c] = "PLACED"}) = Stock0[p]

(* The usage counter and the orders agree: a call that fails after it has   *)
(* redeemed the coupon leaves no trace.                                     *)
UsageCountsOrders == usage = Cardinality(Ordered \cap Couponed)

(* The checks spread over a transaction amount to one check of everything,  *)
(* and its effects, the use of the coupon included, to one effect.          *)
Contract == INSTANCE CheckoutContract
ContractSpec == Contract!Spec

(* No call waits for ever for a cart, a coupon or an item.                  *)
EveryCallEnds == \A c \in Calls : <>(stage[c] = "ended")

-----------------------------------------------------------------------------
(* Stated by the documents, and not kept by the code. *)

(* "The system should prevent: Race conditions around usage limits".        *)
CouponWithinLimit == usage <= Limit
=============================================================================
