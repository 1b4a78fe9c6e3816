------------------------------ MODULE Customer ------------------------------
(***************************************************************************)
(* What a customer has: reviews, addresses, carts, sessions, and the money *)
(* of an order.  The five share no table and no call of one waits for      *)
(* another, so a behaviour follows one of them, the part, and leaves the   *)
(* rest alone.                                                             *)
(***************************************************************************)
EXTENDS Integers

CONSTANTS
  Buyers, MaxReviews, Ratings, MaxAddresses, MaxCarts, Stock, MaxSessions, Calls, None,
  Goods, MaxLines, TaxRate, DeliveryFlat, FreeDeliveryAbove, Coupons

(* A product costs something, and a line has some of it; rates and coupons   *)
(* are not negative; None is no value of any other kind.                     *)
ASSUME CustomerAssumption ==
  /\ \A g \in Goods : g.unit \in Nat \ {0} /\ g.qty \in Nat \ {0}
  /\ TaxRate \in Nat /\ DeliveryFlat \in Nat /\ FreeDeliveryAbove \in Nat
  /\ \A c \in Coupons : /\ c.type \in {"PERCENTAGE", "FIXED_AMOUNT", "FREE_SHIPPING"}
                        /\ c.value \in Nat /\ c.most \in Nat
  /\ MaxReviews \in Nat /\ MaxAddresses \in Nat /\ MaxCarts \in Nat /\ MaxSessions \in Nat
  /\ Stock \in Nat
  /\ Ratings \subseteq Nat \ {0}
  /\ None \notin Nat \cup BOOLEAN \cup Buyers
  /\ None \notin [count : Nat, sum : Int]
  /\ \A S \in SUBSET (1 .. MaxAddresses) : None # S
  /\ None \notin {"user", "guest", "ACTIVE", "MERGED", "CONVERTED", "create", "copy", "merge", "item", "write"}
  /\ None \notin {"PENDING", "PUBLISHED", "REJECTED", "HIDDEN"}

VARIABLES
  part,   \* the service whose calls are followed
  author, reviewStatus, rating, passed, reviewsWritten, summary, reviewReq, reviewStale,
  flag, addressesWritten, addressReq, addressStale,
  owner, cartStatus, qty, made, asked, cartReq, torn, again,
  open, expired, login, opened, caught, sessionReq, raced,
  stage, basket, price, share, dropped, back, given, roundings, short

reviewVars == <<author, reviewStatus, rating, passed, reviewsWritten, summary, reviewReq, reviewStale>>
addressVars == <<flag, addressesWritten, addressReq, addressStale>>
cartVars == <<owner, cartStatus, qty, made, asked, cartReq, torn, again>>
sessionVars == <<open, expired, login, opened, caught, sessionReq, raced>>
moneyVars == <<stage, basket, price, share, dropped, back, given, roundings, short>>
vars == <<part, reviewVars, addressVars, cartVars, sessionVars, moneyVars>>

Reviews == INSTANCE ProductReviews WITH
  status <- reviewStatus, written <- reviewsWritten, req <- reviewReq, stale <- reviewStale
Addresses == INSTANCE AddressBook WITH
  written <- addressesWritten, req <- addressReq, stale <- addressStale
Carts == INSTANCE ShoppingCart WITH status <- cartStatus, req <- cartReq
Sessions == INSTANCE AuthSessions WITH req <- sessionReq
Money == INSTANCE OrderMoney

Init ==
  /\ part \in {"reviews", "addresses", "carts", "sessions", "money"}
  /\ Reviews!Init /\ Addresses!Init /\ Carts!Init /\ Sessions!Init /\ Money!Init

Next ==
  \/ part = "reviews" /\ Reviews!Next /\ UNCHANGED <<part, addressVars, cartVars, sessionVars, moneyVars>>
  \/ part = "addresses" /\ Addresses!Next /\ UNCHANGED <<part, reviewVars, cartVars, sessionVars, moneyVars>>
  \/ part = "carts" /\ Carts!Next /\ UNCHANGED <<part, reviewVars, addressVars, sessionVars, moneyVars>>
  \/ part = "sessions" /\ Sessions!Next /\ UNCHANGED <<part, reviewVars, addressVars, cartVars, moneyVars>>
  \/ part = "money" /\ Money!Next /\ UNCHANGED <<part, reviewVars, addressVars, cartVars, sessionVars>>

Spec == Init /\ [][Next]_vars

-----------------------------------------------------------------------------
(* The tables of the services are well formed; above all a buyer never has   *)
(* two reviews of a product, nor a cart more than there is in stock, and no  *)
(* coupon is worth more than the goods.                                      *)
TypeOK ==
  Reviews!TypeOK /\ Addresses!TypeOK /\ Carts!TypeOK /\ Sessions!TypeOK /\ Money!TypeOK

(* ProductReviews: number and average on the product are those of the        *)
(* published reviews, which read as they were approved, unless a write was   *)
(* over an outdated read.                                                    *)
SummaryAgrees == Reviews!SummaryAgrees

(* AddressBook: exactly one address of a customer who has some is default.   *)
OneDefault == Addresses!OneDefault

(* ShoppingCart: one active cart, which holds what the user has asked for.   *)
CartAsAsked == Carts!CartAsAsked

(* AuthSessions: one open session per login, through refreshes and retries,  *)
(* and none of a login that was caught in the return of a replaced token.    *)
OneSessionPerLogin == Sessions!OneSessionPerLogin

(* OrderMoney: the sellers' shares are the total, each its part to the       *)
(* rounding; and after any refunds the buyer has paid for what it keeps, and *)
(* no refund was refused by more than a few paise.                           *)
MoneyAddsUp == Money!SplitIsFair /\ Money!ChargedForKept

(* Stated by the code, and not kept by it: see the modules.                  *)
SummaryIsOfPublished == Reviews!SummaryIsOfPublished
MergedOnce == Carts!MergedOnce
PassIsFullShare == Money!PassIsFullShare
=============================================================================
