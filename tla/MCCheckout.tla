----------------------------- MODULE MCCheckout -----------------------------
(* Two clicks on one cart, another buyer's cart with the same two products   *)
(* (two units of one of them), and a buyNow.  Not everybody gets everything. *)
EXTENDS Checkout

CONSTANTS click, again, rival, direct, cart1, cart2, page, sev, bhujia

TwoCarts == {cart1, cart2}
AllCalls == {click, again, rival, direct}
Sources  == [c \in AllCalls |->
               CASE c \in {click, again} -> cart1 [] c = rival -> cart2 [] OTHER -> page]
Baskets  == [s \in {cart1, cart2, page} |->
               [p \in {sev, bhujia} |->
                  CASE s = cart2 /\ p = bhujia -> 2 [] s = page /\ p = bhujia -> 0 [] OTHER -> 1]]
Shelf    == [p \in {sev, bhujia} |-> IF p = sev THEN 2 ELSE 3]
=============================================================================
