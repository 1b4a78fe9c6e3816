----------------------------- MODULE MCCustomer -----------------------------
(* Two calls at a time; two buyers, and rows enough for each to come back.   *)
EXTENDS Customer, TLC
CONSTANTS u1, u2, c1, c2
TwoBuyers == {u1, u2}
TwoCalls == {c1, c2}
TwoRatings == {1, 2}
TwoGoods == {[unit |-> 7, qty |-> 2], [unit |-> 250, qty |-> 1]}
ThreeCoupons ==
  {[type |-> "PERCENTAGE", value |-> 10, most |-> 20, least |-> 0],
   [type |-> "FIXED_AMOUNT", value |-> 100, most |-> 0, least |-> 50],
   [type |-> "FREE_SHIPPING", value |-> 0, most |-> 0, least |-> 0]}
Renaming == Permutations(TwoBuyers) \cup Permutations(TwoCalls)
=============================================================================
