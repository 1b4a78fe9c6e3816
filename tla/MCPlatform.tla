----------------------------- MODULE MCPlatform -----------------------------
(* Two desks, which also stand for calls, two authors, who also stand for   *)
(* assignments, and two rows; a page has two or three calls under way, and   *)
(* enough steps to leave it, come back and be answered late.                 *)
EXTENDS Platform, TLC
CONSTANTS d1, d2, a1, a2, w1, w2, prepaid, cod, o1, o2, s1, s2, b1

TwoDesks == {d1, d2}
TwoAuthors == {a1, a2}
TwoRows == {w1, w2}
Renaming == Permutations(TwoDesks) \cup Permutations(TwoAuthors)

(* Nothing, a coupon, the same with a blank after it, and a blank.            *)
FourCodes == {"none", "ten", "ten ", " "}
Coupons == {"ten"}
WithoutBlanks == [k \in FourCodes |-> CASE k = "ten " -> "ten" [] k = " " -> "none" [] OTHER -> k]
BothMethods == {prepaid, cod}
ByCash == {cod}
TwoIds == {1, 2}
TwoTags == <<"a", "b">>

(* One product of each kind the filters tell apart; both ship free.           *)
TwoGoods ==
  <<[id |-> "sev", price |-> 189, category |-> "spicy", bestseller |-> TRUE, spice |-> 4],
    [id |-> "makhana", price |-> 249, category |-> "healthy", bestseller |-> FALSE, spice |-> 2]>>
OneBundle == {[id |-> "trio", price |-> 499]}
Matched ==
  [a \in {"fiery", "tangy", "healthy", "party", "crisp", "other"} |->
    IF a \in {"fiery", "other"} THEN "sev" ELSE "makhana"]
TwoBoxes == <<"box1", "box2">>
TwoPins == {"452001", "110001"}

(* An order of two sellers with a coupon, and one of the first of them       *)
(* alone; with tax and delivery, in paise.                                   *)
TwoOrders == {o1, o2}
TwoSellers == {s1, s2}
LinesOfThem ==
  [o \in TwoOrders |->
    {[seller |-> s1, product |-> "kheer", units |-> 2, total |-> 20000]}
      \cup (IF o = o1 THEN {[seller |-> s1, product |-> "barfi", units |-> 1, total |-> 10000],
                            [seller |-> s2, product |-> "laddu", units |-> 1, total |-> 10000]} ELSE {})]
TotalsOfThem == [o \in TwoOrders |-> IF o = o1 THEN 45900 ELSE 25900]
SharesOfThem ==
  [x \in TwoOrders \X TwoSellers |->
    CASE x = <<o1, s1>> -> [grand |-> 34425, discount |-> 750]
      [] x = <<o1, s2>> -> [grand |-> 11475, discount |-> 250]
      [] OTHER -> [grand |-> 25900, discount |-> 0]]
OneBuyer == [o \in TwoOrders |-> b1]
Shelves == [p \in {"kheer", "barfi", "laddu"} |-> IF p = "laddu" THEN "uncategorized" ELSE "milk"]
Periods == {[from |-> None, to |-> None], [from |-> 0, to |-> 0], [from |-> 1, to |-> None]}

CallsAtOnce == [checkout |-> 3, order |-> 2, shop |-> 3, console |-> 2]
StepsOfTheUser == [checkout |-> 5, order |-> 4, shop |-> 3, landing |-> 4, console |-> 3]
=============================================================================
