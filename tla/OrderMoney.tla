----------------------------- MODULE OrderMoney -----------------------------
(***************************************************************************)
(* The money of one PREPAID order, in paise: the quote of a basket with a  *)
(* coupon, the split of the total among the sellers, and what comes back   *)
(* to the buyer for slices that a seller rejected and for goods returned   *)
(* some lines and units at a time (order.service.ts, returns.service.ts).  *)
(*                                                                         *)
(* The code computes in doubles and rounds with Math.round(n * 100) / 100; *)
(* an exact half may come out either way, and is rounded either way here.  *)
(* Goods that fail their inspection bring no money and are left out, as is *)
(* the inspection of goods that were never sent: nothing of a cancelled    *)
(* slice is passed.                                                        *)
(***************************************************************************)
EXTENDS Integers, Sequences, FiniteSets, Functions

CONSTANTS
  Goods,              \* records [unit, qty] that a line of a basket may have
  MaxLines,           \* lines of a basket
  TaxRate,            \* per cent
  DeliveryFlat,       \* charged below FreeDeliveryAbove
  FreeDeliveryAbove,
  Coupons             \* records [type, value, most, least]

VARIABLES
  stage,     \* "basket", "placed" or "delivered"
  basket,    \* the lines [seller, unit, qty]; sellers are numbered as they appear
  price,     \* [subtotal, delivery, tax, off, grand]
  share,     \* seller_orders.grandTotal, by seller
  dropped,   \* sellers whose rejected slice has been resolved
  back,      \* units of each line that came back and passed their inspection
  given,     \* sum of the refunds
  roundings, \* history: the lines whose parts, each rounded, make up those of returns
  short      \* history: the most by which a refund that was refused exceeded the cap

goodsVars == <<stage, basket, price, share, dropped, back>>
vars == <<goodsVars, given, roundings, short>>

NothingYet == [subtotal |-> 0, delivery |-> 0, tax |-> 0, off |-> 0, grand |-> 0]

Init ==
  /\ stage = "basket" /\ basket = << >> /\ price = NothingYet /\ share = << >>
  /\ dropped = {} /\ back = << >> /\ given = 0 /\ roundings = 0 /\ short = 0

(* Math.round(n / d); halfUp tells where an exact half goes.                 *)
Nearest(n, d, halfUp) == (2 * n + (IF halfUp THEN d ELSE d - 1)) \div (2 * d)
Rounded(n, d) == {Nearest(n, d, halfUp) : halfUp \in BOOLEAN}
Least(a, b) == IF a <= b THEN a ELSE b

Sellers == {basket[i].seller : i \in DOMAIN basket}
LinesOf(s) == {i \in DOMAIN basket : basket[i].seller = s}
LineTotals == [i \in DOMAIN basket |-> basket[i].unit * basket[i].qty]
SumOf(S) == SumFunctionOnSet(LineTotals, S)

AddLine(g) ==
  /\ stage = "basket" /\ Len(basket) < MaxLines
  /\ \E s \in 1 .. Cardinality(Sellers) + 1 :
       basket' = Append(basket, [seller |-> s, unit |-> g.unit, qty |-> g.qty])
  /\ UNCHANGED <<stage, price, share, dropped, back, given, roundings, short>>

-----------------------------------------------------------------------------
(* The quote and the split.                                                  *)

Delivery(subtotal) == IF subtotal >= FreeDeliveryAbove THEN 0 ELSE DeliveryFlat

(* A percentage is capped before it is rounded; FREE_SHIPPING takes nothing  *)
(* off.                                                                      *)
Discount(c, subtotal) ==
  CASE c.type = "PERCENTAGE" ->
         IF subtotal * c.value > 100 * c.most THEN {c.most} ELSE Rounded(subtotal * c.value, 100)
    [] c.type = "FIXED_AMOUNT" -> {c.value}
    [] c.type = "FREE_SHIPPING" -> {0}

NotMore(d, subtotal) == Least(d, subtotal)

Quotes(c) ==
  LET subtotal == SumOf(DOMAIN basket)
      grand(t, d) == subtotal + t + Delivery(subtotal) - d
  IN {[subtotal |-> subtotal, delivery |-> Delivery(subtotal), tax |-> t,
       off |-> NotMore(d, subtotal), grand |-> grand(t, NotMore(d, subtotal))] :
        t \in Rounded(subtotal * TaxRate, 100), d \in Discount(c, subtotal)}

(* A seller's part of the total, by the value of its lines.                  *)
Part(p, s, halfUp) == Nearest(p.grand * SumOf(LinesOf(s)), p.subtotal, halfUp)

OwnPart(p, first, s) == Part(p, s, TRUE)   \* mutation: the last part is rounded like the others
Remainder(p, first, s) == p.grand - SumFunction(first)

Allocations(p) ==
  LET n == Cardinality(Sellers)
      first(halfUp) == [s \in 1 .. n - 1 |-> Part(p, s, halfUp[s])]
  IN {[s \in 1 .. n |-> IF s < n THEN first(h)[s] ELSE Remainder(p, first(h), n)] :
        h \in [1 .. n - 1 -> BOOLEAN]}

(* A coupon whose minimum the basket does not reach is refused, with the     *)
(* checkout.                                                                 *)
Place ==
  /\ stage = "basket" /\ basket # << >>
  /\ \E c \in Coupons :
       /\ SumOf(DOMAIN basket) >= c.least
       /\ \E p \in Quotes(c) : price' = p /\ share' \in Allocations(p)
  /\ stage' = "placed" /\ back' = [i \in DOMAIN basket |-> 0]
  /\ UNCHANGED <<basket, dropped, given, roundings, short>>

-----------------------------------------------------------------------------
(* The refunds.                                                              *)

Cap == price.grand

(* No refund may take the sum of all above the order's total: it is given    *)
(* whole, or refused whole.                                                  *)
Refund(amount, rounded) ==
  IF given + amount <= Cap
  THEN given' = given + amount /\ roundings' = roundings + rounded /\ UNCHANGED short
  ELSE /\ short' = -Least(-short, Cap - given - amount)
       /\ UNCHANGED <<given, roundings>>

ResolveSlice(s) ==
  /\ stage = "placed" /\ s \in Sellers \ dropped
  /\ Refund(share[s], 0)
  /\ dropped' = IF given + share[s] <= Cap THEN dropped \cup {s} ELSE dropped
  /\ UNCHANGED <<stage, basket, price, share, back>>

Deliver == stage = "placed" /\ stage' = "delivered" /\ UNCHANGED <<basket, price, share, dropped, back, given, roundings, short>>

(* The part of the total that n units of a line stand for.                   *)
Allotted(i, n) == Rounded(price.grand * basket[i].unit * n, price.subtotal)

Amounts(i, n, result) ==
  IF result = "PASS" THEN Allotted(i, n)
  ELSE UNION {Rounded(a, 2) : a \in Allotted(i, n)}

Units == UNION {1 .. g.qty : g \in Goods}

(* A line that came back passes, or passes in part.                          *)
MayComeTo(i, n) == UNION {Amounts(i, n, result) : result \in {"PASS", "PARTIAL_PASS"}}

(* A return of n[i] units of every line of it, inspected and refunded: the   *)
(* lines are rounded one by one and then added up.  An order whose refunds   *)
(* have reached the total is REFUNDED and takes no more returns.             *)
Return(n) ==
  /\ stage = "delivered" /\ given < price.grand
  /\ \A i \in DOMAIN n : basket[i].seller \notin dropped /\ n[i] <= basket[i].qty - back[i]
  /\ LET mayBe == [i \in DOMAIN n |-> MayComeTo(i, n[i])]
     IN \E amount \in [DOMAIN n -> UNION {mayBe[i] : i \in DOMAIN n}] :
          /\ \A i \in DOMAIN n : amount[i] \in mayBe[i]
          /\ LET sum == SumFunction(amount)
             IN sum > 0 /\ Refund(sum, Cardinality(DOMAIN n))
  /\ back' = [i \in DOMAIN back |-> IF i \in DOMAIN n THEN back[i] + n[i] ELSE back[i]]
  /\ UNCHANGED <<stage, basket, price, share, dropped>>

Next ==
  \/ \E g \in Goods : AddLine(g)
  \/ Place
  \/ \E s \in Sellers : ResolveSlice(s)
  \/ Deliver
  \/ \E lines \in SUBSET DOMAIN basket \ {{}} :
       \E n \in [lines -> Units] : Return(n)

Spec == Init /\ [][Next]_vars

-----------------------------------------------------------------------------
(* The price is what a buyer would accept: no coupon is worth more than the  *)
(* goods, and tax and delivery are always paid.                              *)
TypeOK ==
  /\ stage \in {"basket", "placed", "delivered"}
  /\ dropped \subseteq Sellers /\ given \in Nat /\ roundings \in Nat /\ short \in Nat
  /\ price.off \in 0 .. price.subtotal
  /\ price.grand >= price.tax + price.delivery
  /\ stage # "basket" => \A i \in DOMAIN basket : back[i] \in 0 .. basket[i].qty

(* sellerAllocation: the sellers' shares add up to the total, and none is    *)
(* further from its exact part than the rounding of the sellers before it.   *)
SplitIsFair ==
  stage # "basket" =>
    LET n == Cardinality(Sellers) IN
    /\ SumFunctionOnSet(share, Sellers) = price.grand
    /\ \A s \in Sellers :
         LET off == share[s] * price.subtotal - price.grand * SumOf(LinesOf(s))
             steps == IF s < n THEN 1 ELSE n - 1
         IN 2 * off <= steps * price.subtotal /\ -2 * off <= steps * price.subtotal

(* A paisa, at most, is lost with each seller and with each line of a return *)
(* that was refunded.                                                        *)
Tolerance == Cardinality(Sellers) + roundings

Kept == UNION {LinesOf(s) : s \in Sellers \ dropped}
KeptTotals == [i \in DOMAIN basket |-> basket[i].unit * (basket[i].qty - back[i])]
KeptValue == SumFunctionOnSet(KeptTotals, Kept)

(* Refunds of slices and of returned goods, whatever their order and number, *)
(* leave the buyer charged for the goods that it keeps, with their part of   *)
(* tax, delivery and coupon, to a few paise: neither do the refunds exceed   *)
(* what came back, nor does their cap refuse a refund for more than rounding *)
(* added to it, line by line, and to those before it.                        *)
ChargedForKept ==
  stage # "basket" =>
    /\ price.grand * KeptValue <= (price.grand - given + Tolerance) * price.subtotal
    /\ short < Tolerance + Len(basket)

-----------------------------------------------------------------------------
(* Stated by the code, and not kept by it.                                   *)

(* "PASS => full share" (returns.policy.ts): when the parts of several lines *)
(* are rounded up, or those of earlier returns were, the refund that exceeds *)
(* the total is refused whole.                                               *)
PassIsFullShare == short = 0
=============================================================================
