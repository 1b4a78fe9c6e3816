---------------------------- MODULE LandingShop ----------------------------
(***************************************************************************)
(* The landing page shop, which keeps all of its state in the browser: the *)
(* catalogue under its filters, the flavour quiz, the box builder, the     *)
(* bundles, the cart drawer and the checkout.  Overlays cover the page and *)
(* each other: a click reaches only the topmost one, but the search opens  *)
(* over anything by its keyboard shortcut.  Amounts are in whole rupees.   *)
(***************************************************************************)
EXTENDS Integers, Sequences, SequencesExt

CONSTANTS
  Goods,       \* PRODUCTS, a sequence of [id, price, category, bestseller, spice]
  Bundles,     \* BUNDLES, a set of [id, price]
  Recommended, \* the match of the quiz, by the answer that decides
  MAX_ITEMS,   \* the packs of a box
  BoxIds,      \* the ids that boxes take from the clock, a sequence
  Pins, DefaultPin,
  MaxUnits, MaxOrders, MaxClicks, None

VARIABLES
  screen,  \* the state of the application and its components
  held     \* the orders that were placed

vars == <<screen, held>>

GoodsSet == Range(Goods)

FREE_SHIPPING_THRESHOLD == 399
COMBO_PRICE == 499
AnySpice == 0
Coupons == {"BILOKAT20", "FIRST100"}

Line(id, price, quantity) == [id |-> id, price |-> price, quantity |-> quantity]
NewQuiz == [step |-> 1, spice |-> "", occasion |-> "", match |-> None]

(* A first visit: two packs of the first product wait in the cart, and a     *)
(* coupon is applied.  shown is for the properties: the total in the drawer  *)
(* when the buyer went on to the checkout.                                   *)
Init ==
  /\ screen =
       [lines |-> <<Line(Goods[1].id, Goods[1].price, 2)>>, coupon |-> "BILOKAT20", couponError |-> FALSE,
        pin |-> DefaultPin, form |-> [pin |-> DefaultPin, method |-> "upi"],
        overlays |-> {}, product |-> None, quantity |-> 1,
        category |-> "all", spice |-> AnySpice, box |-> <<>>, boxes |-> 0, quiz |-> NewQuiz,
        shown |-> 0, clicks |-> 0]
  /\ held = <<>>

(* The overlays in the order in which they cover each other.                 *)
Layers == <<"drawer", "detail", "checkout", "success", "search", "pincode">>
Top ==
  IF screen.overlays = {} THEN "page"
  ELSE Layers[CHOOSE n \in DOMAIN Layers :
                Layers[n] \in screen.overlays /\ \A m \in n + 1 .. Len(Layers) : Layers[m] \notin screen.overlays]

(* What the buyer picks and changes is bounded; going on to the checkout,    *)
(* ordering and closing an overlay are not counted.                          *)
Show(s) == screen' = s /\ UNCHANGED held
Click(s) == screen.clicks < MaxClicks /\ Show([s EXCEPT !.clicks = @ + 1])
Opened(s, layer) == [s EXCEPT !.overlays = @ \cup {layer}]
Closed(s, layer) == [s EXCEPT !.overlays = @ \ {layer}]

-----------------------------------------------------------------------------
(* The cart.                                                                 *)
Amount(line) == line.price * line.quantity
Total(amounts) == SumFunctionOnSet(amounts, DOMAIN amounts)
Subtotal(lines) == Total([i \in DOMAIN lines |-> Amount(lines[i])])
CartCount == Total([i \in DOMAIN screen.lines |-> screen.lines[i].quantity])

Fits(n) == CartCount + n <= MaxUnits

(* A product joins its line, if there is one.                                *)
AddedProduct(s, g, n) ==
  LET known == \E i \in DOMAIN s.lines : s.lines[i].id = g.id
      more(line) == IF line.id = g.id THEN [line EXCEPT !.quantity = @ + n] ELSE line
  IN Opened([s EXCEPT !.lines = IF known THEN [i \in DOMAIN @ |-> more(@[i])] ELSE Append(@, Line(g.id, g.price, n))],
            "drawer")

(* A bundle or a box always makes a line of its own.                         *)
AddedLine(s, line) == Opened([s EXCEPT !.lines = Append(@, line)], "drawer")

(* The lines at some of the positions, in their order.                       *)
Kept(lines, positions) ==
  LET from[n \in 0 .. Len(lines)] ==
        IF n = 0 THEN <<>> ELSE IF n \in positions THEN Append(from[n - 1], lines[n]) ELSE from[n - 1]
  IN from[Len(lines)]

(* The buttons of a line name it by its id.                                  *)
UpdateQuantity(id, delta) ==
  LET moved(line) == IF line.id = id THEN [line EXCEPT !.quantity = @ + delta] ELSE line
      lines == [i \in DOMAIN screen.lines |-> moved(screen.lines[i])]
  IN [screen EXCEPT !.lines = Kept(lines, {i \in DOMAIN lines : lines[i].quantity > 0})]

RemoveItem(id) == [screen EXCEPT !.lines = Kept(@, {i \in DOMAIN @ : @[i].id # id})]

-----------------------------------------------------------------------------
(* The page.                                                                 *)
Matches(g, category, spice) ==
  /\ category = "all" \/ (category = "bestseller" /\ g.bestseller) \/ (category # "bestseller" /\ g.category = category)
  /\ spice \in {AnySpice, g.spice}

Grid == {g \in GoodsSet : Matches(g, screen.category, screen.spice)}

PickCategory ==
  /\ Top = "page"
  /\ \E c \in {"all", "bestseller"} \cup {g.category : g \in GoodsSet} : Click([screen EXCEPT !.category = c])

PickSpice == Top = "page" /\ \E l \in {AnySpice} \cup {g.spice : g \in GoodsSet} : Click([screen EXCEPT !.spice = l])

ResetFilters == Top = "page" /\ Grid = {} /\ Click([screen EXCEPT !.category = "all", !.spice = AnySpice])

(* The banner sells the first product, the grid what passes the filters.     *)
QuickAdd == Top = "page" /\ Fits(1) /\ \E g \in Grid \cup {Goods[1]} : Click(AddedProduct(screen, g, 1))

Viewed(s, id) == Opened([s EXCEPT !.product = id], "detail")
QuickView == Top = "page" /\ \E g \in Grid : Click(Viewed(screen, g.id))

AddBundle ==
  /\ Top = "page" /\ Fits(1)
  /\ \E b \in Bundles : Click(AddedLine(screen, Line(b.id, b.price, 1)))

(* The quiz: each answer leads on, and from the second question on one may   *)
(* go back; the answers are kept until the quiz is taken again.              *)
AnswerQuiz ==
  /\ Top = "page"
  /\ \/ /\ screen.quiz.step = 1
        /\ \E a \in {"fiery", "tangy", "savory", "healthy"} :
             Click([screen EXCEPT !.quiz = [@ EXCEPT !.step = 2, !.spice = a]])
     \/ /\ screen.quiz.step = 2
        /\ \E a \in {"party", "other"} : Click([screen EXCEPT !.quiz = [@ EXCEPT !.step = 3, !.occasion = a]])

Decisive(texture) ==
  CASE screen.quiz.spice # "savory" -> screen.quiz.spice
    [] screen.quiz.occasion = "party" -> "party"
    [] OTHER -> texture

CalculateMatch ==
  /\ Top = "page" /\ screen.quiz.step = 3
  /\ \E texture \in {"crisp", "other"} :
       Click([screen EXCEPT !.quiz = [@ EXCEPT !.step = 4, !.match = Recommended[Decisive(texture)]]])

BackInQuiz == Top = "page" /\ screen.quiz.step \in {2, 3} /\ Click([screen EXCEPT !.quiz.step = @ - 1])

ResetQuiz == Top = "page" /\ screen.quiz.step = 4 /\ Click([screen EXCEPT !.quiz = NewQuiz])

Named(id) == CHOOSE g \in GoodsSet : g.id = id

TakeMatch ==
  /\ Top = "page" /\ screen.quiz.step = 4
  /\ \/ Fits(1) /\ Click(AddedProduct(screen, Named(screen.quiz.match), 1))
     \/ Click(Viewed(screen, screen.quiz.match))

(* The box builder keeps its box when the box has gone to the cart.          *)
SelectItem ==
  /\ Top = "page" /\ Len(screen.box) < MAX_ITEMS
  /\ \E g \in GoodsSet : Click([screen EXCEPT !.box = Append(@, g.id)])

RemoveFromBox == Top = "page" /\ \E i \in DOMAIN screen.box : Click([screen EXCEPT !.box = RemoveAt(@, i)])

AddBox ==
  /\ Top = "page" /\ Len(screen.box) = MAX_ITEMS /\ Fits(1) /\ screen.boxes < Len(BoxIds)
  /\ Click([AddedLine(screen, Line(BoxIds[screen.boxes + 1], COMBO_PRICE, 1)) EXCEPT !.boxes = @ + 1])

(* The pincode checker saves a pincode, the dialog while it is typed; both   *)
(* are told apart by nothing the model looks at.                             *)
SetPincode == Top \in {"page", "pincode"} /\ \E p \in Pins \ {screen.pin} : Click([screen EXCEPT !.pin = p])

-----------------------------------------------------------------------------
(* The overlays.                                                             *)
OpenOverlay ==
  \/ Top = "page" /\ \E layer \in {"drawer", "pincode"} : Click(Opened(screen, layer))
  \/ "search" \notin screen.overlays /\ Click(Opened(screen, "search"))

CloseOverlay == Top # "page" /\ Show(Closed(screen, Top))

(* A product found in the search opens in its own layer, perhaps below.      *)
SelectFound == Top = "search" /\ \E g \in GoodsSet : Click(Closed(Viewed(screen, g.id), "search"))

(* The quantity is that of the last product looked at.                       *)
StepQuantity ==
  /\ Top = "detail"
  /\ \E n \in {screen.quantity - 1, screen.quantity + 1} \ {0, MaxUnits + 1} : Click([screen EXCEPT !.quantity = n])

AddViewed ==
  /\ Top = "detail" /\ Fits(screen.quantity)
  /\ Click(Closed(AddedProduct(screen, Named(screen.product), screen.quantity), "detail"))

ChangeLine ==
  /\ Top = "drawer"
  /\ \E i \in DOMAIN screen.lines :
       LET id == screen.lines[i].id
       IN \/ Fits(1) /\ Click(UpdateQuantity(id, 1))
          \/ Click(UpdateQuantity(id, -1))
          \/ Click(RemoveItem(id))

ApplyCoupon ==
  /\ Top = "drawer" /\ screen.lines # <<>>
  /\ \/ \E k \in Coupons : Click([screen EXCEPT !.coupon = k, !.couponError = FALSE])
     \/ Click([screen EXCEPT !.couponError = TRUE])
     \/ screen.coupon # "" /\ Click([screen EXCEPT !.coupon = ""])

-----------------------------------------------------------------------------
(* The amounts, worked out by the drawer and again by the checkout.          *)
Rounded(n, d) == (2 * n + d) \div (2 * d)
Least(m, n) == IF m < n THEN m ELSE n
NotBelowZero(n) == IF n < 0 THEN 0 ELSE n

Discount(subtotal) ==
  CASE screen.coupon = "BILOKAT20" -> Rounded(subtotal * 20, 100)
    [] screen.coupon = "FIRST100" -> Least(100, subtotal)
    [] OTHER -> 0

DrawerShipping(subtotal) == IF subtotal >= FREE_SHIPPING_THRESHOLD \/ subtotal = 0 THEN 0 ELSE 40
CheckoutShipping(subtotal) == IF subtotal >= FREE_SHIPPING_THRESHOLD THEN 0 ELSE 40

DrawerTotal == LET s == Subtotal(screen.lines) IN NotBelowZero(s - Discount(s) + DrawerShipping(s))
CheckoutTotal == LET s == Subtotal(screen.lines) IN NotBelowZero(s - Discount(s) + CheckoutShipping(s))

ProceedToCheckout ==
  /\ Top = "drawer" /\ screen.lines # <<>>
  /\ Show(Opened(Closed([screen EXCEPT !.shown = DrawerTotal], "drawer"), "checkout"))

(* The form is filled in once, with what is known when the page starts, and  *)
(* outlives the overlay.                                                     *)
FillForm ==
  /\ Top = "checkout"
  /\ \/ \E p \in Pins \ {screen.form.pin} : Click([screen EXCEPT !.form.pin = p])
     \/ \E m \in {"upi", "cod", "card"} \ {screen.form.method} : Click([screen EXCEPT !.form.method = m])

Order == [items |-> screen.lines, total |-> CheckoutTotal, customer |-> screen.form,
          shown |-> screen.shown, coupon |-> screen.coupon, pin |-> screen.pin]

(* The cart is emptied, the coupon stays.                                    *)
OrderSuccess(s) == Opened(Closed([s EXCEPT !.lines = <<>>], "checkout"), "success")

PlaceOrder ==
  /\ Top = "checkout" /\ Len(held) < MaxOrders
  /\ held' = Append(held, Order)
  /\ screen' = OrderSuccess(screen)

Next ==
  \/ PickCategory \/ PickSpice \/ ResetFilters \/ QuickAdd \/ QuickView \/ AddBundle
  \/ AnswerQuiz \/ CalculateMatch \/ BackInQuiz \/ ResetQuiz \/ TakeMatch
  \/ SelectItem \/ RemoveFromBox \/ AddBox \/ SetPincode
  \/ OpenOverlay \/ CloseOverlay \/ SelectFound \/ StepQuantity \/ AddViewed
  \/ ChangeLine \/ ApplyCoupon \/ ProceedToCheckout \/ FillForm \/ PlaceOrder

Spec == Init /\ [][Next]_vars

-----------------------------------------------------------------------------
IsBox(line) == line.id \in Range(BoxIds)
ItemsOf(order) == Range(order.items)

(* An order charges what the drawer showed, whatever was opened over the     *)
(* drawer and the checkout since; with a bundle or a box in it, it ships     *)
(* free, as both sections promise; and no box is sold twice.                 *)
SoldAsShown ==
  \A i \in DOMAIN held :
    /\ held[i].items # <<>> /\ held[i].total = held[i].shown
    /\ LET subtotal == Subtotal(held[i].items)
       IN (\E line \in ItemsOf(held[i]) : IsBox(line) \/ line.id \in {b.id : b \in Bundles})
            => held[i].total <= subtotal
    /\ \A j \in DOMAIN held \ {i} : \A line \in ItemsOf(held[i]) : IsBox(line) => line \notin ItemsOf(held[j])

(* Not kept by the code: the pincode that is saved is not that of the form,  *)
(* the coupon for the first order is good for every one, and two bundles of  *)
(* a kind make two lines that the drawer cannot tell apart.                  *)
DeliversToSavedPin == \A i \in DOMAIN held : held[i].customer.pin = held[i].pin
CouponIsForFirstOrder == \A i \in DOMAIN held : i > 1 => held[i].coupon = ""
LinesAreDistinct == \A i, j \in DOMAIN screen.lines : screen.lines[i].id = screen.lines[j].id => i = j
=============================================================================
