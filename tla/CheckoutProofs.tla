--------------------------- MODULE CheckoutProofs ---------------------------
(***************************************************************************)
(* Placing orders, for any calls, carts, products, baskets and stock.      *)
(***************************************************************************)
EXTENDS Checkout, FiniteSums

InTx == {"claimed", "quoted", "taking"}

(* What a call may hold or ask for. *)
Asking ==
  \A c \in Calls :
    /\ left[c] \subseteq Items(c)
    /\ asks[c] # Nothing =>
         stage[c] = "taking" /\ asks[c] \in Items(c) /\ asks[c] \notin left[c]

(* Taken is reserved: a locked item stays on the shelf until its holder     *)
(* commits, and has one holder.                                             *)
Reserved ==
  \A c \in Calls, p \in Products : Holds(c, p) =>
    /\ Want[From[c]][p] <= stock[p]
    /\ \A d \in Calls : Holds(d, p) => c = d

(* The same for the carts. *)
Claimed ==
  \A c \in Calls : From[c] \in Carts /\ stage[c] \in InTx =>
    /\ cart[From[c]] = "ACTIVE"
    /\ \A d \in Calls : From[d] = From[c] /\ stage[d] \in InTx => c = d

Spent ==
  \A c \in Ordered :
    /\ stage[c] = "ended"
    /\ From[c] \in Carts => cart[From[c]] = "CONVERTED"

(* A call that has not begun to take has everything still to take.          *)
Untaken ==
  \A c \in Calls : stage[c] \in {"new", "read", "claimed", "quoted"} => left[c] = Items(c)

CheckoutInv ==
  /\ TypeOK
  /\ Untaken
  /\ Asking
  /\ Reserved
  /\ Claimed
  /\ Spent
  /\ OneOrderPerCart

(* The quantities asked for are numbers, and those of other products are 0. *)
LEMMA Quantities ==
  ASSUME NEW c \in Calls, NEW p \in Products
  PROVE  /\ Want[From[c]][p] \in Nat
         /\ p \notin Items(c) => Want[From[c]][p] = 0
  BY CheckoutAssumption DEF Items

(* Nobody holds anything before the first call. *)
LEMMA CheckoutInit == Init => CheckoutInv
  BY CheckoutAssumption
     DEF Init, CheckoutInv, TypeOK, Untaken, Asking, Reserved, Holds, Claimed, InTx, Spent,
         Ordered, OneOrderPerCart, Items

(* A call that moves on without touching a row, to a stage that owns no     *)
(* more than before, or that has just been granted the cart.                *)
LEMMA StageStep ==
  ASSUME CheckoutInv, NEW c \in Calls,
         NEW next \in {"read", "claimed", "quoted", "taking", "ended"},
         stage[c] # "ended", Goto(c, next), UNCHANGED <<rows, left>>,
         asks' = [asks EXCEPT ![c] = Nothing],
         next # "ended" => stage[c] # "taking",
         next \in InTx =>
           \/ stage[c] \in InTx
           \/ From[c] \in Carts =>
                CartFree(From[c]) /\ cart[From[c]] = "ACTIVE"
  PROVE  CheckoutInv'
  <1>1. /\ stage' = [stage EXCEPT ![c] = next]
        /\ UNCHANGED <<stock, cart, usage, orders, left>>
    BY DEF Goto, rows
  <1>2. TypeOK' /\ Untaken'
    BY <1>1 DEF CheckoutInv, TypeOK, Untaken, Items
  <1>3. Asking'
    BY <1>1 DEF CheckoutInv, TypeOK, Asking, Items
  <1>4. \A d \in Calls, p \in Products : Holds(d, p)' => Holds(d, p)
    BY <1>1 DEF CheckoutInv, TypeOK, Untaken, Holds, Items
  <1>5. Reserved'
    BY <1>1, <1>4 DEF CheckoutInv, Reserved
  <1>6. Claimed'
    BY <1>1 DEF CheckoutInv, TypeOK, Claimed, CartFree, HoldsCart, InTx
  <1>7. Spent' /\ OneOrderPerCart'
    BY <1>1 DEF CheckoutInv, TypeOK, Spent, Ordered, OneOrderPerCart
  <1> QED
    BY <1>2, <1>3, <1>5, <1>6, <1>7 DEF CheckoutInv

(* What a committing call takes off the shelf is there, and nobody else's.  *)
LEMMA CommitTakesItsOwn ==
  ASSUME CheckoutInv, NEW c \in Calls, Commit(c)
  PROVE  \A p \in Products :
           /\ Want[From[c]][p] <= stock[p]
           /\ stock'[p] = stock[p] - Want[From[c]][p]
           /\ stock'[p] \in Nat
           /\ \A d \in Calls : d # c /\ Holds(d, p) => stock'[p] = stock[p]
  <1> SUFFICES ASSUME NEW p \in Products
               PROVE  /\ Want[From[c]][p] <= stock[p]
                      /\ stock'[p] = stock[p] - Want[From[c]][p]
                      /\ stock'[p] \in Nat
                      /\ \A d \in Calls : d # c /\ Holds(d, p) => stock'[p] = stock[p]
    OBVIOUS
  <1>1. stock[p] \in Nat /\ stock'[p] = stock[p] - Want[From[c]][p]
    BY DEF Commit, Decrement, CheckoutInv, TypeOK
  <1>2. p \in Items(c) => Holds(c, p)
    BY CheckoutAssumption DEF Commit, Holds
  <1>3. Want[From[c]][p] <= stock[p]
    BY <1>1, <1>2, Quantities DEF CheckoutInv, Reserved
  <1>4. \A d \in Calls : d # c /\ Holds(d, p) => Want[From[c]][p] = 0
    BY <1>2, Quantities DEF CheckoutInv, Reserved
  <1> QED
    BY <1>1, <1>3, <1>4, Quantities

(* Every step of a call, and every withdrawal, keeps the invariant. *)
LEMMA CheckoutStep ==
  ASSUME CheckoutInv, [Next]_vars
  PROVE  CheckoutInv'
  <1>1. CASE UNCHANGED vars
    BY <1>1 DEF vars, rows, CheckoutInv, TypeOK, Untaken, Asking, Reserved, Holds, Items,
                Claimed, Spent, Ordered, OneOrderPerCart
  <1>2. ASSUME NEW c \in Calls, asks[c] = Nothing
        PROVE  asks = [asks EXCEPT ![c] = Nothing]
    BY <1>2 DEF CheckoutInv, TypeOK
  <1>3. ASSUME NEW c \in Calls, stage[c] # "taking"
        PROVE  asks[c] = Nothing
    BY <1>3 DEF CheckoutInv, Asking
  <1>4. ASSUME NEW c \in Calls, ReadCart(c) PROVE CheckoutInv'
    BY <1>2, <1>3, <1>4, StageStep DEF ReadCart, rows, InTx
  <1>5. ASSUME NEW c \in Calls, Claim(c) PROVE CheckoutInv'
    BY <1>2, <1>3, <1>5, StageStep DEF Claim, CartIsActive, rows, InTx
  <1>6. ASSUME NEW c \in Calls, Quote(c) PROVE CheckoutInv'
    BY <1>2, <1>3, <1>6, StageStep DEF Quote, rows, InTx
  <1>7. ASSUME NEW c \in Calls, Redeem(c) PROVE CheckoutInv'
    BY <1>2, <1>3, <1>7, StageStep DEF Redeem, rows, InTx
  <1>8. ASSUME NEW c \in Calls, Fail(c) PROVE CheckoutInv'
    BY <1>8, StageStep DEF Fail, rows, InTx
  <1>9. ASSUME NEW c \in Calls, NEW p \in Products, Ask(c, p) PROVE CheckoutInv'
    <2>1. /\ left' = [left EXCEPT ![c] = @ \ {p}] /\ asks' = [asks EXCEPT ![c] = p]
          /\ UNCHANGED <<stock, cart, usage, orders, stage>>
          /\ stage[c] = "taking" /\ asks[c] = Nothing /\ p \in left[c]
      BY <1>9 DEF Ask, rows
    <2>2. TypeOK' /\ Untaken'
      BY <2>1 DEF CheckoutInv, TypeOK, Untaken, Items
    <2>3. Asking'
      BY <2>1 DEF CheckoutInv, TypeOK, Asking, Items
    <2>4. \A d \in Calls, q \in Products : Holds(d, q)' => Holds(d, q)
      BY <2>1, CheckoutAssumption DEF CheckoutInv, TypeOK, Holds, Items
    <2>5. Reserved'
      BY <2>1, <2>4 DEF CheckoutInv, Reserved
    <2>6. Claimed' /\ Spent' /\ OneOrderPerCart'
      BY <2>1 DEF CheckoutInv, Claimed, Spent, Ordered, OneOrderPerCart
    <2> QED
      BY <2>2, <2>3, <2>5, <2>6 DEF CheckoutInv
  <1>10. ASSUME NEW c \in Calls, Take(c) PROVE CheckoutInv'
    <2>1. /\ asks' = [asks EXCEPT ![c] = Nothing]
          /\ UNCHANGED <<stock, cart, usage, orders, stage, left>>
          /\ asks[c] # Nothing /\ ProductFree(asks[c])
          /\ Want[From[c]][asks[c]] <= stock[asks[c]]
      BY <1>10 DEF Take, Enough, rows
    <2>2. TypeOK' /\ Untaken' /\ Asking'
      BY <2>1 DEF CheckoutInv, TypeOK, Untaken, Asking, Items
    <2>3. \A d \in Calls, q \in Products :
            Holds(d, q)' => Holds(d, q) \/ (d = c /\ q = asks[c])
      BY <2>1 DEF CheckoutInv, TypeOK, Holds, Items
    <2>4. Reserved'
      BY <2>1, <2>3 DEF CheckoutInv, Reserved, ProductFree
    <2>5. Claimed' /\ Spent' /\ OneOrderPerCart'
      BY <2>1 DEF CheckoutInv, Claimed, Spent, Ordered, OneOrderPerCart
    <2> QED
      BY <2>2, <2>4, <2>5 DEF CheckoutInv
  <1>11. ASSUME NEW c \in Calls, Commit(c) PROVE CheckoutInv'
    <2>1. /\ stage[c] = "taking" /\ stage' = [stage EXCEPT ![c] = "ended"]
          /\ orders' = [orders EXCEPT ![c] = "PLACED"]
          /\ cart' = [k \in Carts |-> IF k = From[c] THEN "CONVERTED" ELSE cart[k]]
          /\ asks[c] = Nothing
          /\ UNCHANGED <<left, asks>>
      BY <1>11 DEF Commit, SpendCart, Goto
    <2>2. usage' \in Nat /\ stock' \in [Products -> Nat]
      <3>1. usage' \in Nat
        BY <1>11 DEF Commit, CountUse, CheckoutInv, TypeOK
      <3>2. stock' = [p \in Products |-> stock[p] - Want[From[c]][p]]
        BY <1>11 DEF Commit, Decrement
      <3> QED
        BY <1>11, <3>1, <3>2, CommitTakesItsOwn
    <2>3. TypeOK' /\ Untaken' /\ Asking'
      BY <2>1, <2>2 DEF CheckoutInv, TypeOK, Untaken, Asking, Items
    <2>4. \A d \in Calls, q \in Products : Holds(d, q)' => Holds(d, q) /\ d # c
      BY <2>1 DEF CheckoutInv, TypeOK, Holds, Items
    <2>5. Reserved'
      BY <1>11, <2>4, CommitTakesItsOwn DEF CheckoutInv, Reserved
    <2>6. Claimed'
      BY <2>1 DEF CheckoutInv, TypeOK, Claimed, InTx
    <2>7. Spent'
      BY <2>1 DEF CheckoutInv, TypeOK, Spent, Ordered
    <2>8. From[c] \in Carts => cart[From[c]] = "ACTIVE"
      BY <2>1 DEF CheckoutInv, Claimed, InTx
    <2>9. OneOrderPerCart'
      BY <2>1, <2>8 DEF CheckoutInv, TypeOK, Spent, Ordered, OneOrderPerCart
    <2> QED
      BY <2>3, <2>5, <2>6, <2>7, <2>9 DEF CheckoutInv
  <1>12. ASSUME NEW c \in Calls, Withdraw(c) PROVE CheckoutInv'
    <2>1. /\ orders[c] = "PLACED" /\ orders' = [orders EXCEPT ![c] = "CANCELLED"]
          /\ stock' = [p \in Products |-> stock[p] + Want[From[c]][p]]
          /\ UNCHANGED <<cart, usage, stage, left, asks>>
      BY <1>12 DEF Withdraw
    <2>2. stock' \in [Products -> Nat] /\ \A p \in Products : stock[p] <= stock'[p]
      BY <2>1, Quantities DEF CheckoutInv, TypeOK
    <2>3. TypeOK' /\ Untaken' /\ Asking'
      BY <2>1, <2>2 DEF CheckoutInv, TypeOK, Untaken, Asking, Items
    <2>4. \A d \in Calls, q \in Products : Holds(d, q)' <=> Holds(d, q)
      BY <2>1 DEF Holds, Items
    <2>5. Reserved'
      <3> SUFFICES ASSUME NEW d \in Calls, NEW q \in Products, Holds(d, q)
                   PROVE  /\ Want[From[d]][q] <= stock'[q]
                          /\ \A e \in Calls : Holds(e, q) => d = e
        BY <2>4 DEF Reserved
      <3>1. stock[q] \in Nat /\ stock'[q] \in Nat /\ stock[q] <= stock'[q]
        BY <2>2 DEF CheckoutInv, TypeOK
      <3>2. Want[From[d]][q] <= stock[q] /\ \A e \in Calls : Holds(e, q) => d = e
        BY DEF CheckoutInv, Reserved
      <3> QED
        BY <3>1, <3>2, Quantities
    <2>6. Claimed' /\ Spent' /\ OneOrderPerCart'
      BY <2>1 DEF CheckoutInv, TypeOK, Claimed, Spent, Ordered, OneOrderPerCart
    <2> QED
      BY <2>3, <2>5, <2>6 DEF CheckoutInv
  <1> QED
    BY <1>1, <1>4, <1>5, <1>6, <1>7, <1>8, <1>9, <1>10, <1>11, <1>12
       DEF Next, Step, Refuse, EndDeadlock

(* The inductive invariant of the transactions. *)
LEMMA CheckoutInvariant == Spec => []CheckoutInv
  BY CheckoutInit, CheckoutStep, PTL DEF Spec

(* Nothing is oversold: whatever is being taken at the same time, the stock *)
(* of a product stays a natural number.                                     *)
THEOREM NothingOversold == Spec => []TypeOK
  BY CheckoutInvariant, PTL DEF CheckoutInv

(* A cart becomes one order at most, however often it is checked out.       *)
THEOREM CartsSpentOnce == Spec => []OneOrderPerCart
  BY CheckoutInvariant, PTL DEF CheckoutInv

(* The coupon's counter goes up with the order that redeems it, and only     *)
(* with it.                                                                 *)
LEMMA UsageStep ==
  ASSUME CheckoutInv, UsageCountsOrders, [Next]_vars
  PROVE  UsageCountsOrders'
  <1> DEFINE Uses == Ordered \cap Couponed
  <1>1. IsFiniteSet(Uses)
    BY CheckoutAssumption, FS_Subset DEF Ordered
  <1>2. CASE UNCHANGED <<usage, orders>>
    BY <1>2 DEF UsageCountsOrders, Ordered
  <1>3. ASSUME NEW c \in Calls, Commit(c) PROVE UsageCountsOrders'
    <2>1. c \notin Ordered
      BY <1>3 DEF Commit, CheckoutInv, Spent
    <2>2. Ordered' = Ordered \cup {c}
      BY <1>3 DEF Commit, Ordered, CheckoutInv, TypeOK
    <2>3. CASE c \in Couponed
      <3>1. Uses' = Uses \cup {c} /\ c \notin Uses
        BY <2>1, <2>2, <2>3
      <3>2. Cardinality(Uses \cup {c}) = Cardinality(Uses) + 1
        BY <1>1, <3>1, FS_AddElement
      <3>3. usage' = usage + 1
        BY <1>3, <2>3 DEF Commit, CountUse
      <3> QED
        BY <3>1, <3>2, <3>3 DEF UsageCountsOrders
    <2>4. CASE c \notin Couponed
      <3>1. Uses' = Uses /\ usage' = usage
        BY <1>3, <2>2, <2>4 DEF Commit, CountUse
      <3> QED
        BY <3>1 DEF UsageCountsOrders
    <2> QED
      BY <2>3, <2>4
  <1>4. ASSUME NEW c \in Calls, Withdraw(c) PROVE UsageCountsOrders'
    <2>1. Ordered' = Ordered /\ usage' = usage
      BY <1>4 DEF Withdraw, Ordered, CheckoutInv, TypeOK
    <2> QED
      BY <2>1 DEF UsageCountsOrders
  <1> QED
    BY <1>2, <1>3, <1>4
       DEF Next, vars, rows, Step, ReadCart, Claim, Quote, Redeem, Ask, Take, Refuse, EndDeadlock, Fail

(* The usage of the coupon is the number of orders that redeemed it,         *)
(* whichever calls failed on the way.                                       *)
THEOREM UsageIsCounted == Spec => []UsageCountsOrders
  <1>1. Init => UsageCountsOrders
    <2>1. Init => usage = 0 /\ Ordered \cap Couponed = {}
      BY DEF Init, Ordered
    <2> QED
      BY <2>1, FS_EmptySet DEF UsageCountsOrders
  <1> QED
    BY <1>1, UsageStep, CheckoutInvariant, PTL DEF Spec

(* What the calls ask for of a product, as a function to add up.            *)
Asked(p) == [c \in Calls |-> Want[From[c]][p]]
Placed == {c \in Calls : orders[c] = "PLACED"}

LEMMA AskedSum ==
  ASSUME NEW p \in Products, NEW S \in SUBSET Calls
  PROVE  MapThenSumSet(LAMBDA c : Want[From[c]][p], S) = SumFunctionOnSet(Asked(p), S)
  <1> DEFINE ask(c) == Want[From[c]][p]
             AddsAsk(it) ==
               it = [s \in SUBSET S |-> IF s = {} THEN 0 ELSE ask(Chosen(s)) + it[s \ {Chosen(s)}]]
  <1>1. MapThenSumSet(ask, S) = (CHOOSE it : AddsAsk(it))[S]
    BY Zenon DEF MapThenSumSet, MapThenFoldSet, Chosen
  <1>2. SumFunctionOnSet(Asked(p), S) = (CHOOSE it : Adds(it, Asked(p), S))[S]
    BY Zenon DEF SumFunctionOnSet, FoldFunctionOnSet, MapThenFoldSet, Adds, Chosen
  <1>3. ASSUME NEW it PROVE AddsAsk(it) <=> Adds(it, Asked(p), S)
    BY ChosenFrom DEF Adds, Asked
  <1> HIDE DEF AddsAsk
  <1> QED
    BY <1>1, <1>2, <1>3

(* Where the units of a product are: on the shelf, and in the placed orders. *)
Units(p) == stock[p] + SumFunctionOnSet(Asked(p), Placed)

(* A commit moves what it takes off the shelf into one more placed order, a *)
(* withdrawal moves it back; nothing else moves a unit.                     *)
LEMMA UnitsStay ==
  ASSUME CheckoutInv, [Next]_vars, NEW p \in Products
  PROVE  Units(p)' = Units(p)
  <1> DEFINE Sold(S) == SumFunctionOnSet(Asked(p), S)
  <1>1. IsFiniteSet(Placed) /\ IsFiniteSet(Placed')
    BY CheckoutAssumption, FS_Subset DEF Placed
  <1>2. \A S \in SUBSET Calls : Numbers(Asked(p), S)
    BY Quantities DEF Numbers, Asked
  <1>3. stock[p] \in Int /\ Sold(Placed) \in Int
    BY <1>1, <1>2, SumType DEF CheckoutInv, TypeOK, Placed
  <1>4. CASE UNCHANGED <<stock, orders>>
    BY <1>4 DEF Units, Placed
  <1>5. ASSUME NEW c \in Calls, Commit(c) PROVE Units(p)' = Units(p)
    <2>1. c \notin Placed
      BY <1>5 DEF Commit, CheckoutInv, Spent, Ordered, Placed
    <2>2. Placed' = Placed \cup {c}
      BY <1>5 DEF Commit, CheckoutInv, TypeOK, Placed
    <2>3. Sold(Placed \cup {c}) = Sold(Placed) + Asked(p)[c]
      BY <1>1, <1>2, <2>1, SumAdd DEF Placed
    <2>4. stock'[p] = stock[p] - Asked(p)[c] /\ Asked(p)[c] \in Int
      BY <1>5, Quantities, CommitTakesItsOwn DEF Asked
    <2> QED
      BY <1>3, <2>2, <2>3, <2>4 DEF Units
  <1>6. ASSUME NEW c \in Calls, Withdraw(c) PROVE Units(p)' = Units(p)
    <2>1. c \in Placed /\ Placed' = Placed \ {c}
      BY <1>6 DEF Withdraw, CheckoutInv, TypeOK, Placed
    <2>2. Sold(Placed) = Sold(Placed \ {c}) + Asked(p)[c]
      BY <1>1, <1>2, <2>1, SumRemove DEF Placed
    <2>3. stock'[p] = stock[p] + Asked(p)[c] /\ Asked(p)[c] \in Int
      BY <1>6, Quantities DEF Withdraw, Asked
    <2>4. Sold(Placed \ {c}) \in Int
      BY <1>1, <1>2, <2>1, SumType, FS_Subset DEF Placed
    <2> QED
      BY <1>3, <2>1, <2>2, <2>3, <2>4 DEF Units
  <1> QED
    BY <1>4, <1>5, <1>6
       DEF Next, Step, vars, rows, ReadCart, Claim, Quote, Redeem, Ask, Take, Refuse,
           EndDeadlock, Fail

(* No unit of any product is lost or made, whichever transactions commit,   *)
(* fail or wait for each other, and whichever orders are withdrawn.         *)
THEOREM NoUnitIsLost == Spec => []StockConserved
  <1> DEFINE AllThere == \A p \in Products : Units(p) = Stock0[p]
  <1>1. Init => AllThere
    <2> SUFFICES ASSUME Init, NEW p \in Products PROVE Units(p) = Stock0[p]
      OBVIOUS
    <2>1. Placed = {} /\ stock[p] = Stock0[p] /\ Stock0[p] \in Nat
      BY CheckoutAssumption DEF Init, Placed
    <2> QED
      BY <2>1, SumEmpty DEF Units
  <1>2. CheckoutInv /\ AllThere /\ [Next]_vars => AllThere'
    BY UnitsStay
  <1>3. AllThere => StockConserved
    <2> SUFFICES ASSUME AllThere, NEW p \in Products
                 PROVE  stock[p] + MapThenSumSet(LAMBDA c : Want[From[c]][p], Placed) = Stock0[p]
      BY DEF StockConserved, Placed
    <2> QED
      BY AskedSum DEF Units, Placed
  <1> HIDE DEF AllThere
  <1> QED
    BY <1>1, <1>2, <1>3, CheckoutInvariant, PTL DEF Spec

(* A step of a call is the placing of an order in one go, or nothing.       *)
LEMMA CheckoutImplements ==
  ASSUME CheckoutInv, [Next]_vars
  PROVE  [Contract!Next]_(Contract!vars)
  <1> USE DEF Contract!Next, Contract!vars
  <1>0. DOMAIN stock = Products
    BY DEF CheckoutInv, TypeOK
  <1>1. CASE UNCHANGED <<stock, cart, usage, orders>>
    BY <1>1
  <1>2. ASSUME NEW c \in Calls, Commit(c) PROVE Contract!Next
    <2>1. orders[c] = "NONE"
      BY <1>2 DEF Commit, CheckoutInv, TypeOK, Spent, Ordered
    <2>2. From[c] \in Carts => cart[From[c]] = "ACTIVE"
      BY <1>2 DEF Commit, CheckoutInv, Claimed, InTx
    <2>3. \A p \in Products : Want[From[c]][p] <= stock[p]
      BY <1>2, CommitTakesItsOwn
    <2> QED
      BY <1>0, <1>2, <2>1, <2>2, <2>3 DEF Commit, Decrement, SpendCart, CountUse, Contract!Place
  <1>3. ASSUME NEW c \in Calls, Withdraw(c) PROVE Contract!Next
    BY <1>0, <1>3 DEF Withdraw, Contract!Withdraw
  <1> QED
    BY <1>1, <1>2, <1>3
       DEF Next, Step, vars, rows, ReadCart, Claim, Quote, Redeem, Ask, Take, Refuse,
           EndDeadlock, Fail

(* The checks and locks of a transaction amount to placing the order in one *)
(* step that sees everything.                                               *)
THEOREM CheckoutImplementsContract == Spec => ContractSpec
  <1>1. Init => Contract!Init
    BY DEF Init, Contract!Init
  <1> QED
    BY <1>1, CheckoutInvariant, CheckoutImplements, PTL DEF Spec, ContractSpec, Contract!Spec
=============================================================================
