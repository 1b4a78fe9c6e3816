------------------------- MODULE StorefrontCheckout -------------------------
(***************************************************************************)
(* The cart page and the checkout page of the storefront, with the cart    *)
(* badge of the header, over a network that reorders and loses answers.    *)
(* A page knows of the cart what the last answer said: a call is sent,     *)
(* served, and answered, in three steps, and what is sent in between uses  *)
(* what the page knew.  An answer whose page has gone changes only what    *)
(* outlives the page.  The buyer is signed in; one product stands for the  *)
(* lines of the cart; what it costs, and the terms of the coupons, do not   *)
(* change, so a price is told apart by the quantity and the coupon.        *)
(***************************************************************************)
EXTENDS Naturals, FiniteSets

CONSTANTS
  Codes,    \* what is typed into the coupon field
  Trimmed,  \* of each, what remains without the blanks around it
  CouponCodes,  \* those that are codes of coupons
  NoCode, Stock, MaxCarts, MaxCalls, MaxClicks, None, Refused

VARIABLES
  screen,  \* the page, what it shows and what is typed into it
  calls,   \* the calls under way
  held     \* what the server holds: the active cart and the orders

vars == <<screen, calls, held>>

Writes == {"add", "set", "clear", "place"}

(* What the header, the cart page and the checkout page start from.  sure is *)
(* for the properties: what the page shows came in calls that did not cross; *)
(* and so is applied, the code a price was last asked for under, or None if  *)
(* it was refused: then the page keeps the price it had, beside the error.   *)
Blank(page, badge, sure, clicks) ==
  [page |-> page, clicks |-> clicks, badge |-> badge, cart |-> None, code |-> NoCode, applied |-> NoCode,
   preview |-> None, busy |-> FALSE, sure |-> sure]

Call(kind, arg) == [kind |-> kind, arg |-> arg, live |-> TRUE, reply |-> None]

(* The buyer comes back to a cart with something in it.                      *)
Init ==
  /\ screen = Blank("home", 0, TRUE, 0)
  /\ calls = {Call("badge", None)}
  /\ held = [cart |-> 1, lines |-> 1, orders |-> {}]

(* Two calls cross if either writes, or if both ask for the price under      *)
(* different coupons.                                                        *)
Cross(c, d) == c.kind \in Writes \/ d.kind \in Writes \/ (c.kind = "preview" /\ d.kind = "preview" /\ c.arg # d.arg)

(* What a placement under way has shown may no longer be the cart.           *)
Unsure(cs) == {IF c.kind = "place" THEN [c EXCEPT !.arg.shown.sure = FALSE] ELSE c : c \in cs}

Send(s, new, others) ==
  /\ LET crossed == \E c \in others, d \in new : Cross(c, d)
     IN /\ calls' = (IF crossed THEN Unsure(others) ELSE others) \cup new
        /\ screen' = [s EXCEPT !.sure = @ /\ ~crossed]
  /\ Cardinality(calls') <= MaxCalls
  /\ UNCHANGED held

(* The buyer does something; MaxClicks bounds how often.                     *)
Clicked == [screen EXCEPT !.clicks = @ + 1]

Orphans(cs) == {[c EXCEPT !.live = FALSE] : c \in cs}

(* A page is opened: the header asks for its badge, the page for the cart.   *)
Open(page) ==
  /\ page # screen.page
  /\ Send(Blank(page, screen.badge, screen.sure \/ calls = {}, screen.clicks + 1),
          {Call("badge", None)} \cup (IF page = "home" THEN {} ELSE {Call("load", None)}),
          Orphans(calls))

AddToCart == screen.page = "home" /\ Send(Clicked, {Call("add", None)}, calls)

HasLines == screen.cart # None /\ screen.cart.lines > 0

(* The stepper never goes below one; the quantity sent is the one shown,     *)
(* give or take one, whatever the server has.                                *)
SetQuantity ==
  /\ screen.page = "cart" /\ HasLines
  /\ \E q \in {screen.cart.lines - 1, screen.cart.lines + 1} \ {0} :
       Send(Clicked, {Call("set", [cart |-> screen.cart.cart, lines |-> q])}, calls)

Remove ==
  /\ screen.page = "cart" /\ HasLines
  /\ Send(Clicked, {Call("set", [cart |-> screen.cart.cart, lines |-> 0])}, calls)

ClearAll == screen.page = "cart" /\ HasLines /\ Send(Clicked, {Call("clear", None)}, calls)

TypeCoupon ==
  /\ screen.page = "checkout" /\ HasLines
  /\ \E k \in Codes \ {screen.code} : screen' = [Clicked EXCEPT !.code = k]
  /\ UNCHANGED <<calls, held>>

FetchUncouponed(s, others) ==   \* mutation: the preview forgets the coupon
  Send([s EXCEPT !.applied = s.code], {Call("preview", [cart |-> s.cart.cart, code |-> NoCode])}, others)
FetchPreview(s, others) ==
  Send([s EXCEPT !.applied = s.code], {Call("preview", [cart |-> s.cart.cart, code |-> s.code])}, others)

Apply == screen.page = "checkout" /\ HasLines /\ FetchPreview(Clicked, calls)

Ready == HasLines /\ screen.preview # None /\ ~screen.busy

(* What the buyer has been shown, and whether the page could know it.        *)
Shown ==
  [price |-> screen.preview,
   sure |-> /\ screen.sure /\ screen.code = screen.applied
            /\ ~\E c \in calls : c.kind \in Writes \cup {"preview"}]

(* What was typed is trimmed here, and was not for the preview.              *)
Place ==
  /\ screen.page = "checkout" /\ Ready
  /\ Send([Clicked EXCEPT !.busy = TRUE],
          {Call("place", [cart |-> screen.cart.cart, code |-> Trimmed[screen.code], shown |-> Shown])}, calls)

-----------------------------------------------------------------------------
(* The server.                                                               *)
Cart(h) == [cart |-> h.cart, lines |-> h.lines]

Replied(c, r) == calls' = (calls \ {c}) \cup {[c EXCEPT !.reply = r]}

(* The cart named by the page, if it is still the active one and has lines.  *)
OwnActiveCart(c) == c.arg.cart = held.cart /\ held.lines > 0

NewLines(c) ==
  CASE c.kind = "add" -> held.lines + 1
    [] c.kind = "set" -> IF OwnActiveCart(c) THEN c.arg.lines ELSE Stock + 1
    [] OTHER -> 0

ServeCart(c) ==
  /\ c.kind \in {"badge", "load", "add", "set", "clear"} /\ c.reply = None
  /\ LET h == IF c.kind \in Writes THEN [held EXCEPT !.lines = NewLines(c)] ELSE held
     IN IF h.lines <= Stock
        THEN held' = h /\ Replied(c, Cart(h))
        ELSE Replied(c, Refused) /\ UNCHANGED held
  /\ UNCHANGED screen

Price(c) == [lines |-> held.lines, code |-> c.arg.code]

(* A code is looked up as it comes.  A coupon that is found may have run out *)
(* or want a larger order, and goods may no longer be on sale: a quote that  *)
(* could be given may be refused too.                                        *)
Quotable(c) == OwnActiveCart(c) /\ c.arg.code \in CouponCodes \cup {NoCode}

ServePreview(c) ==
  /\ c.kind = "preview" /\ c.reply = None
  /\ (Quotable(c) /\ Replied(c, Price(c))) \/ Replied(c, Refused)
  /\ UNCHANGED <<screen, held>>

Order(c) == [cart |-> held.cart, charged |-> Price(c), shown |-> c.arg.shown]

ServePlace(c) ==
  /\ c.kind = "place" /\ c.reply = None
  /\ \/ /\ Quotable(c) /\ held.cart < MaxCarts
        /\ held' = [cart |-> held.cart + 1, lines |-> 0, orders |-> held.orders \cup {Order(c)}]
        /\ Replied(c, Cart(held))
     \/ Replied(c, Refused) /\ UNCHANGED held
  /\ UNCHANGED screen

-----------------------------------------------------------------------------
(* The answers.                                                              *)
Received(c) == c \in calls /\ c.reply \notin {None, Refused}

Show(s, c) == screen' = s /\ calls' = calls \ {c} /\ UNCHANGED held

AnswerBadge(c) == Received(c) /\ c.kind \in {"badge", "add"} /\ Show([screen EXCEPT !.badge = c.reply.lines], c)

(* The checkout page asks for a price as soon as it knows its cart.          *)
AnswerLoad(c) ==
  /\ Received(c) /\ c.kind = "load"
  /\ LET s == [screen EXCEPT !.cart = c.reply]
     IN IF c.live /\ screen.page = "checkout" THEN FetchPreview(s, calls \ {c})
        ELSE Show(IF c.live THEN s ELSE screen, c)

AnswerLine(c) ==
  /\ Received(c) /\ c.kind \in {"set", "clear"}
  /\ Show([screen EXCEPT !.badge = c.reply.lines, !.cart = IF c.live THEN c.reply ELSE @], c)

AnswerPreview(c) ==
  /\ Received(c) /\ c.kind = "preview"
  /\ Show([screen EXCEPT !.preview = IF c.live THEN c.reply ELSE @], c)

(* The order page opens, even if the buyer has left the checkout since.      *)
AnswerPlace(c) ==
  /\ Received(c) /\ c.kind = "place"
  /\ Send(Blank("order", screen.badge, screen.sure \/ calls = {c}, screen.clicks), {Call("badge", None)}, Orphans(calls \ {c}))

Failed(c) ==
  [screen EXCEPT !.busy = @ /\ ~(c.kind = "place" /\ c.live),
                 !.applied = IF c.kind = "preview" /\ c.live THEN None ELSE @]

Refuse(c) == c \in calls /\ c.reply = Refused /\ Show(Failed(c), c)

(* The request or its answer is lost, and the page shows a network error.    *)
Lose(c) == c \in calls /\ Show([Failed(c) EXCEPT !.sure = FALSE], c)

Next ==
  \/ /\ screen.clicks < MaxClicks
     /\ \/ \E page \in {"home", "cart", "checkout"} : Open(page)
        \/ AddToCart \/ SetQuantity \/ Remove \/ ClearAll
        \/ TypeCoupon \/ Apply \/ Place
  \/ \E c \in calls :
       \/ ServeCart(c) \/ ServePreview(c) \/ ServePlace(c)
       \/ AnswerBadge(c) \/ AnswerLoad(c) \/ AnswerLine(c) \/ AnswerPreview(c) \/ AnswerPlace(c)
       \/ Refuse(c) \/ Lose(c)

Spec == Init /\ [][Next]_vars

-----------------------------------------------------------------------------
(* An order charges what the button said, if the code in the field is the one *)
(* a price was last asked for under and was given, and no calls crossed; and a *)
(* buyer who was told of an error and placed again, or who left the page and *)
(* came back, has one order of the cart.                                     *)
ChargedAsShown ==
  \A o \in held.orders :
    /\ o.shown.sure => o.charged = o.shown.price
    /\ \A p \in held.orders : p.cart = o.cart => p = o

(* Once no call is under way, the badge and the page show the server's cart, *)
(* unless calls crossed or one was lost.                                     *)
ShowsTheCart ==
  calls = {} /\ screen.sure =>
    /\ screen.badge = held.lines
    /\ screen.cart # None => screen.cart = Cart(held)

(* Not kept by the code, whose hint calls the totals just a preview: with a  *)
(* blank after a code the preview is refused, and the button keeps the price *)
(* without it; the order is placed with the code.                            *)
ChargedAsShownAlways == \A o \in held.orders : o.charged = o.shown.price
=============================================================================
