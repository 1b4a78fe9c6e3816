------------------------------ MODULE Platform ------------------------------
(***************************************************************************)
(* What surrounds the orders: the supply of products, the courier of a     *)
(* replacement, the applications in the browser (the storefront's checkout,*)
(* its order page, its other pages, the landing shop, the console of the   *)
(* staff) and the reports of the back office.  They share no table, and an *)
(* application is modelled with the part of the server it talks to; so a   *)
(* behaviour follows one of them, the part, and leaves the rest alone.     *)
(***************************************************************************)
EXTENDS Integers, Sequences, FiniteSets

CONSTANTS
  Parts,    \* those that are followed
  Desk, Authors, MaxEdits, MaxBusy,
  Assignments, Requests, MaxPaid,
  Codes, Trimmed, CouponCodes, NoCode, Stock, MaxCarts,
  BuyerOrders, Cod, Units, MaxCases,
  Ids, TagOf, All, PageSize,
  Goods, Bundles, Recommended, MAX_ITEMS, BoxIds, Pins, DefaultPin, MaxUnits, MaxOrders,
  Rows,
  Orders, Sellers, Lines, GrandTotal, ShareOf, BuyerOf, CategoryOf, Commission, Fee, Windows, DefaultDays, Limit,
  LastInstant, MaxEvents,
  Calls,    \* of an application, how many calls may be under way
  Clicks,   \* and how many steps its user takes
  None, Refused

(* None is no status of a product. *)
ASSUME PlatformAssumption ==
  /\ MaxEdits \in Nat
  /\ IsFiniteSet(Assignments)
  /\ None \notin {"DRAFT", "PENDING_REVIEW", "APPROVED", "REJECTED", "ARCHIVED"}

(* There is stock for the line in the storefront's cart; what stands for no  *)
(* answer, and for a refusal, is no cart, no code and no price.  The codes   *)
(* of coupons have no blanks around them.                                    *)
ASSUME PageAssumption ==
  /\ Stock \in Nat \ {0}
  /\ None # Refused
  /\ {None, Refused} \cap [cart : Nat, lines : Nat] = {}
  /\ {None, Refused} \cap [lines : Nat, code : Codes \cup {NoCode}] = {}
  /\ None \notin Codes \cup {NoCode}
  /\ Trimmed \in [Codes \cup {NoCode} -> Codes \cup {NoCode}]
  /\ \A k \in (CouponCodes \cap Codes) \cup {NoCode} : Trimmed[k] = k

(* Nor is it an order of the storefront's buyer.                             *)
ASSUME OrderAssumption ==
  {None, Refused} \cap
    [status : {"PLACED", "CONFIRMED", "PACKED", "DELIVERED", "CANCELLED"},
     cod : {"NONE", "PENDING_CUSTOMER_OTP", "CONFIRMED"}, paid : BOOLEAN,
     cases : Seq([status : {"REQUESTED", "REJECTED", "COMPLETED"}, n : Nat, proof : BOOLEAN])] = {}

(* Products, notices, reviews and addresses are finitely many; no set of     *)
(* them stands for no answer or a refusal, nor does a plain success, and no  *)
(* page for no page.                                                         *)
ASSUME ShopAssumption ==
  /\ IsFiniteSet(Ids)
  /\ \A S \in SUBSET Ids : S \notin {None, Refused}
  /\ TRUE \notin {None, Refused}
  /\ None \notin {"home", "wishlist", "reviews", "notes", "addresses", "signin"}

(* The landing shop has goods, boxes by which the clock tells them apart,    *)
(* and bundles that ship free; whatever the answers, the quiz names one of   *)
(* the goods.                                                                *)
ASSUME GoodsAssumption ==
  LET ids == {Goods[i].id : i \in DOMAIN Goods}
      boxes == {BoxIds[k] : k \in 1 .. Len(BoxIds)}
  IN /\ 1 \in DOMAIN Goods
     /\ \A i \in DOMAIN Goods : Goods[i].price \in Nat \ {0}
     /\ \A b \in Bundles : b.price \in Nat /\ b.price >= 399
     /\ \A a \in {"fiery", "tangy", "healthy", "party", "crisp", "other"} : Recommended[a] \in ids
     /\ Len(BoxIds) \in Nat /\ DOMAIN BoxIds = 1 .. Len(BoxIds)
     /\ \A k, l \in DOMAIN BoxIds : BoxIds[k] = BoxIds[l] => k = l
     /\ ids \cap {b.id : b \in Bundles} = {} /\ boxes \cap (ids \cup {b.id : b \in Bundles}) = {}

VARIABLES
  part,   \* the part that is followed
  seller, app, terms, vetted, call, torn, product, content, reviewed, req, stale,
  repl, task, waybill, shipments, fee, paid, replReq, replStale,
  screen, calls, held

supplyVars == <<seller, app, terms, vetted, call, torn, product, content, reviewed, req, stale>>
replacementVars == <<repl, task, waybill, shipments, fee, paid, replReq, replStale>>
clientVars == <<screen, calls, held>>
vars == <<part, supplyVars, replacementVars, clientVars>>

Supply == INSTANCE Supply
Replacement == INSTANCE ReplacementCourier WITH req <- replReq, stale <- replStale
Checkout == INSTANCE StorefrontCheckout WITH MaxCalls <- Calls["checkout"], MaxClicks <- Clicks["checkout"]
Order == INSTANCE StorefrontOrder WITH
  Orders <- BuyerOrders, MaxCalls <- Calls["order"], MaxClicks <- Clicks["order"]
Shop == INSTANCE StorefrontShop WITH MaxCalls <- Calls["shop"], MaxClicks <- Clicks["shop"]
Landing == INSTANCE LandingShop WITH MaxClicks <- Clicks["landing"]
Console == INSTANCE Console WITH MaxCalls <- Calls["console"], MaxClicks <- Clicks["console"]
Reports == INSTANCE Reports

(* Orders, sellers and the lines of an order are finitely many; commissions  *)
(* are in percent; and no seller, instant or status stands for none.         *)
ASSUME ReportAssumption ==
  /\ IsFiniteSet(Orders) /\ IsFiniteSet(Sellers)
  /\ \A o \in Orders :
       IsFiniteSet(Lines[o]) /\ \A l \in Lines[o] : l.seller \in Sellers /\ l.units \in Nat /\ l.total \in Nat
  /\ \A w \in Windows : w.from \in Nat \cup {None} /\ w.to \in Nat \cup {None}
  /\ Commission \in 0 .. 100 /\ Fee \in Nat /\ DefaultDays \in Nat /\ Limit \in Nat /\ LastInstant \in Nat
  /\ None \notin Sellers /\ None \notin Int
  /\ None \notin {"DELIVERED", "REFUNDED", "EARNED", "IN_SETTLEMENT", "SETTLED"}

(* The slices make up the order's grand total, as SplitIsFair of OrderMoney   *)
(* has it, and no slice is discounted below zero.                            *)
ASSUME BillAssumption ==
  /\ \A o \in Orders :
       GrandTotal[o] = Reports!SumFunction([x \in {o} \X Reports!SlicesOf(o) |-> ShareOf[x].grand])
  /\ \A x \in Reports!Slices : ShareOf[x].grand \in Int /\ ShareOf[x].discount \in 0 .. Reports!GrossOf(x)

(* No list of rows that the console has asked for stands for no answer or    *)
(* for a refusal, nor does the word that a step was taken.                   *)
ASSUME ConsoleAssumption ==
  /\ "done" \notin {None, Refused}
  /\ \A S \in SUBSET Rows, board \in Console!Boards :
       {None, Refused} \cap [S -> Console!States(board)] = {}

Apart == UNCHANGED <<part, supplyVars, replacementVars>>

Init ==
  /\ part \in Parts
  /\ Supply!Init /\ Replacement!Init
  /\ \/ part \in {"supply", "replacement"} /\ screen = None /\ calls = None /\ held = None
     \/ part = "checkout" /\ Checkout!Init
     \/ part = "order" /\ Order!Init
     \/ part = "shop" /\ Shop!Init
     \/ part = "landing" /\ Landing!Init /\ calls = None
     \/ part = "console" /\ Console!Init
     \/ part = "reports" /\ Reports!Init /\ screen = None /\ calls = None

Next ==
  \/ part = "supply" /\ Supply!Next /\ UNCHANGED <<part, replacementVars, clientVars>>
  \/ part = "replacement" /\ Replacement!Next /\ UNCHANGED <<part, supplyVars, clientVars>>
  \/ part = "checkout" /\ Checkout!Next /\ Apart
  \/ part = "order" /\ Order!Next /\ Apart
  \/ part = "shop" /\ Shop!Next /\ Apart
  \/ part = "landing" /\ Landing!Next /\ UNCHANGED calls /\ Apart
  \/ part = "console" /\ Console!Next /\ Apart
  \/ part = "reports" /\ Reports!Next /\ UNCHANGED <<screen, calls>> /\ Apart

Spec == Init /\ [][Next]_vars

-----------------------------------------------------------------------------
Follows(p, property) == part = p => property

(* The rows of the supply and of the replacement courier are well formed;    *)
(* above all a product is created once, and never reviewed ahead of its      *)
(* content.                                                                  *)
TypeOK ==
  /\ Follows("supply", Supply!SellerTypeOK /\ Supply!ProductTypeOK)
  /\ Follows("replacement", Replacement!TypeOK)

(* SellerOnboarding: the seller's status goes with its application's, unless *)
(* a write was over outdated reads or a submission died half way.            *)
SellerFollowsApplication == Supply!SellerFollowsApplication

(* Supply: there is a product only of a seller who was vetted, and what is   *)
(* on sale is what was reviewed, unless a write was over outdated reads.     *)
OnSaleAsVetted == Supply!OnSaleAsReviewed /\ Supply!CatalogueIsVetted

(* ReplacementCourier: until a call writes over another's change, one        *)
(* courier takes the replacement, one shipment is booked for an assignment,  *)
(* and the fee is for exactly the leg that was delivered.                    *)
OneDelivery ==
  Follows("replacement", Replacement!OneCourier /\ Replacement!OneShipment /\ Replacement!FeeForDelivery)

(* What is final stays so, unless a call that had read the row before writes *)
(* after it: a decision on an application, a published or archived product,  *)
(* a replacement delivered or cancelled; and without exception a fee that    *)
(* was paid out.                                                             *)
FinalIsFinal ==
  [][/\ Supply!DecisionStands /\ Supply!PublicationStands
     /\ Replacement!ReplacementStands /\ Replacement!PaidFeeStands]_vars

(* StorefrontCheckout, LandingShop: an order charges what the buyer was      *)
(* shown at the button, and is placed once, in both shops.                   *)
ChargedAsShown ==
  Follows("checkout", Checkout!ChargedAsShown) /\ Follows("landing", Landing!SoldAsShown)

(* The storefront's modules: once no call is under way, a page shows what    *)
(* the server holds, unless calls crossed, one was lost or others wrote.     *)
PagesShowTheServer ==
  /\ Follows("checkout", Checkout!ShowsTheCart)
  /\ Follows("order", Order!ShowsTheOrder)
  /\ Follows("shop", Shop!ShowsTheShop)

(* Console: once no call is under way a board lists the rows it asked for,   *)
(* and offers no step that the service refuses, with the same exception.     *)
ShowsTheBoard == Follows("console", Console!ShowsTheBoard)

(* Reports: reports drawn from the same tables for the same period agree,    *)
(* and no payable is debited below zero.                                     *)
ReportsAgree == Follows("reports", Reports!TypeOK /\ Reports!ReportsAgree)

(* What comments, texts and pages of the repository say and its code does    *)
(* not keep, part by part; each is stated with its part.                     *)
OwedIfDelivered == Follows("replacement", Replacement!OwedIfDelivered)
OperatesOnceApproved == Supply!OperatesOnceApproved
ChargedAsShownAlways == Follows("checkout", Checkout!ChargedAsShownAlways)
ShowsTheStatus == Follows("order", Order!ShowsTheStatus)
AuthorizedIsConfirmed == Follows("order", Order!AuthorizedIsConfirmed)
OfferedIsAccepted == Follows("order", Order!OfferedIsAccepted)
HeartsAreSaved == Follows("shop", Shop!HeartsAreSaved)
TabIsOfItsCategory == Follows("shop", Shop!TabIsOfItsCategory)
TokenOutlivesOutage == [][Follows("shop", Shop!KeepsItsToken)]_vars
DeliversToSavedPin == Follows("landing", Landing!DeliversToSavedPin)
CouponIsForFirstOrder == Follows("landing", Landing!CouponIsForFirstOrder)
LinesAreDistinct == Follows("landing", Landing!LinesAreDistinct)
TabIsShown == Follows("console", Console!TabIsShown)
TickedIsShown == Follows("console", Console!TickedIsShown)
ConfirmedIsTaken == Follows("console", Console!ConfirmedIsTaken)
ActionsAreSent == Follows("console", Console!ActionsAreSent)
TotalsAreOfTheList == Follows("reports", Reports!TotalsAreOfTheList)
CategoriesMakeUpGmv == Follows("reports", Reports!CategoriesMakeUpGmv)
RefundsAddUp == Follows("reports", Reports!RefundsAddUp)
=============================================================================
