------------------------------ MODULE Reports ------------------------------
(***************************************************************************)
(* The reports of the back office: business analytics, the finance period  *)
(* and a courier's own earnings, as they are drawn from the tables while   *)
(* orders are placed, delivered, returned and paid for.  A page reads its  *)
(* reports by separate calls; what is said of them is of reports drawn     *)
(* from the same tables.  An instant is even at midnight and odd later in  *)
(* the day: day d is the instants 2d and 2d + 1.  A period is in days.     *)
(***************************************************************************)
EXTENDS Integers, FiniteSets, Sequences, FiniteSetsExt, Functions

CONSTANTS
  Orders, Sellers,
  Lines,         \* of each order: [seller, product, units, total]
  GrandTotal,    \* of each order, with tax and delivery and without the coupon
  ShareOf,       \* of each slice: [grand, discount], its share of both
  BuyerOf, CategoryOf,
  Commission,    \* what the platform keeps of a payable, in percent
  Fee,           \* what the courier gets for an order
  Windows,       \* the periods asked for: [from, to], a day or None each
  DefaultDays, Limit, LastInstant, MaxEvents, None

VARIABLE held    \* the tables the reports are drawn from

AllLines(O, s) ==   \* mutation: those of the other sellers as well
  UNION {{[order |-> o, line |-> l] : l \in Lines[o]} : o \in O}

SlicesOf(o) == {l.seller : l \in Lines[o]}
LinesIn(O, s) ==
  UNION {{[order |-> o, line |-> l] : l \in {m \in Lines[o] : s \in {None, m.seller}}} : o \in O}
TotalOf(L) == SumFunction([x \in L |-> x.line.total])
UnitsOf(L) == SumFunction([x \in L |-> x.line.units])
Slices == UNION {{o} \X SlicesOf(o) : o \in Orders}

-----------------------------------------------------------------------------
(* The tables.  Refunds are of a slice that was rejected before delivery, or *)
(* of a slice whose goods all came back after it, and of its share of the    *)
(* order's grand total; by how many paise a return's is rounded is left to   *)
(* OrderMoney.                                                               *)
NoCase == [kind |-> "none", asked |-> None, done |-> None]
NoPayable == [at |-> None, net |-> 0, adjusted |-> 0, status |-> "NONE"]
NoFee == [at |-> None, status |-> "NONE"]

Empty ==
  [now |-> 0, events |-> 0,
   placed |-> [o \in Orders |-> None],
   status |-> [o \in Orders |-> "NONE"],
   case |-> [x \in Slices |-> NoCase],
   payable |-> [x \in Slices |-> NoPayable],
   batched |-> [x \in Slices |-> None],
   fee |-> [o \in Orders |-> NoFee]]

Rejected(db, o) == {s \in SlicesOf(o) : db.case[<<o, s>>].kind = "slice"}
GrossOf(x) == TotalOf(LinesIn({x[1]}, x[2]))
GoodsOf(x) == GrossOf(x) - ShareOf[x].discount
Earning(x) == GoodsOf(x) - (GoodsOf(x) * Commission + 50) \div 100

Passed(db) == {[db EXCEPT !.now = t] : t \in {db.now + 1} \cap (0 .. LastInstant)}

Placed(db) ==
  {[db EXCEPT !.placed[o] = db.now, !.status[o] = "PLACED"] :
    o \in {p \in Orders : db.placed[p] = None}}

Cancelled(db) ==
  {[db EXCEPT !.status[o] = "CANCELLED"] : o \in {p \in Orders : db.status[p] = "PLACED"}}

(* The last slice is not rejected alone: that cancels the order.             *)
SliceRejected(db) ==
  {[db EXCEPT !.case[x] = [kind |-> "slice", asked |-> db.now, done |-> None]] :
    x \in {y \in Slices : /\ db.status[y[1]] = "PLACED"
                          /\ Cardinality(Rejected(db, y[1]) \cup {y[2]}) < Cardinality(SlicesOf(y[1]))}}

Earn(db, o) ==
  [x \in Slices |->
    IF x[1] = o /\ x[2] \notin Rejected(db, o)
    THEN [at |-> db.now, net |-> Earning(x), adjusted |-> 0, status |-> "EARNED"]
    ELSE db.payable[x]]

Delivered(db) ==
  {[db EXCEPT !.status[o] = "DELIVERED", !.payable = Earn(db, o),
              !.fee[o] = [at |-> db.now, status |-> "EARNED"]] :
    o \in {p \in Orders : db.status[p] = "PLACED"}}

Asked(db) ==
  {[db EXCEPT !.case[x] = [kind |-> "return", asked |-> db.now, done |-> None]] :
    x \in {y \in Slices : db.status[y[1]] = "DELIVERED" /\ db.case[y] = NoCase}}

(* A payable that is batched already keeps what the seller has earned.       *)
Debited(db, x) ==
  IF db.case[x].kind = "return" /\ db.payable[x].status = "EARNED"
  THEN [db.payable[x] EXCEPT !.net = 0, !.adjusted = @ - db.payable[x].net]
  ELSE db.payable[x]

RefundOf(X) == SumFunction([x \in X |-> ShareOf[x].grand])
RefundedWith(db, x) ==
  GrandTotal[x[1]] <= RefundOf({y \in Slices : y[1] = x[1] /\ (y = x \/ db.case[y].done # None)})

Refunded(db) ==
  {[db EXCEPT !.case[x].done = db.now, !.payable[x] = Debited(db, x),
              !.status[x[1]] = IF db.case[x].kind = "return" /\ RefundedWith(db, x) THEN "REFUNDED" ELSE @] :
    x \in {y \in Slices : db.case[y].asked # None /\ db.case[y].done = None}}

Batched(db) ==
  {[db EXCEPT !.payable[x].status = "IN_SETTLEMENT", !.batched[x] = db.now] :
    x \in {y \in Slices : db.payable[y].status = "EARNED"}}

Settled(db) ==
  {[db EXCEPT !.payable[x].status = "SETTLED"] :
    x \in {y \in Slices : db.payable[y].status = "IN_SETTLEMENT"}}

(* All that one courier has earned is paid out together.                     *)
PaidOut(db) ==
  {[db EXCEPT !.fee = [o \in Orders |-> IF @[o].status = "EARNED" THEN [@[o] EXCEPT !.status = "SETTLED"] ELSE @[o]]] :
    t \in {o \in Orders : db.fee[o].status = "EARNED"}}

-----------------------------------------------------------------------------
(* The period of a report: a date ends with its last instant in the first    *)
(* two, and with its midnight in the totals of the finance report.           *)
During(t, win) ==
  /\ t # None
  /\ win.from = None \/ win.from <= t
  /\ win.to = None \/ t <= win.to

Always == [from |-> None, to |-> None]
Ends(d, last) == IF d = None THEN None ELSE 2 * d + last
DateFilter(w) == [from |-> Ends(w.from, 0), to |-> Ends(w.to, 1)]
TotalsFilter(w) == [from |-> Ends(w.from, 0), to |-> Ends(w.to, 0)]

ResolveWindow(db, w) ==
  LET to == IF w.to = None THEN db.now ELSE 2 * w.to + 1
  IN [from |-> IF w.from = None THEN to - 2 * DefaultDays ELSE 2 * w.from, to |-> to]

(* The orders of a period, with a slice of the seller asking, if one does.   *)
ScopedOrders(db, win, s) ==
  {o \in Orders : During(db.placed[o], win) /\ s \in {None} \cup SlicesOf(o)}
Sold(db, win, s) == {o \in ScopedOrders(db, win, s) : db.status[o] # "CANCELLED"}
SliceGmv(o, s) == IF s = None THEN GrandTotal[o] ELSE ShareOf[<<o, s>>].grand
Gmv(O, s) == SumFunction([o \in O |-> SliceGmv(o, s)])
Count(db, O, status) == Cardinality({o \in O : db.status[o] = status})

(* Of the platform, the refunds of the returns asked for in the period; of a *)
(* seller, the refunds of its rejected slices that ended in it.              *)
RefundedIn(db, win, s) ==
  IF s = None
  THEN {x \in Slices : db.case[x].kind = "return" /\ During(db.case[x].asked, win) /\ db.case[x].done # None}
  ELSE {x \in Slices : db.case[x].kind = "slice" /\ x[2] = s /\ During(db.case[x].done, win)}

Overview(db, w, s) ==
  LET win == ResolveWindow(db, w)
      all == ScopedOrders(db, win, s)
      sold == Sold(db, win, s)
  IN [orders |-> Cardinality(sold), delivered |-> Count(db, all, "DELIVERED"),
      refunded |-> Count(db, all, "REFUNDED"), cancelled |-> Count(db, all, "CANCELLED"),
      gmv |-> Gmv(sold, s), deliveredGmv |-> Gmv({o \in sold : db.status[o] = "DELIVERED"}, s),
      units |-> UnitsOf(LinesIn(sold, s)), buyers |-> Cardinality({BuyerOf[o] : o \in sold}),
      requested |-> Cardinality({x \in Slices :
        /\ db.case[x].kind = "return" /\ During(db.case[x].asked, win)
        /\ s \in {None} \cup SlicesOf(x[1])}),
      refundedAmount |-> RefundOf(RefundedIn(db, win, s))]

(* A bucket for every day of the period, whether anything was sold or not.   *)
Trend(db, w, s) ==
  LET win == ResolveWindow(db, w)
      On(d) == {o \in Sold(db, win, s) : db.placed[o] \div 2 = d}
  IN [d \in (win.from \div 2) .. (win.to \div 2) |-> [orders |-> Cardinality(On(d)), gmv |-> Gmv(On(d), s)]]

RollUp(L, key) ==
  {LET mine == {x \in L : key[x] = k} IN [key |-> k, units |-> UnitsOf(mine), gmv |-> TotalOf(mine)] :
    k \in {key[x] : x \in L}}

SoldLines(db, w, s) == LinesIn(Sold(db, ResolveWindow(db, w), s), s)

MoreSold(a, b) == a.gmv > b.gmv \/ (a.gmv = b.gmv /\ a.units > b.units)
IsRanked(seq, rows) ==
  /\ \A row \in rows : \E i \in DOMAIN seq : seq[i] = row
  /\ \A i, j \in DOMAIN seq : i < j => ~MoreSold(seq[j], seq[i])
Ranking(rows) == CHOOSE seq \in [1 .. Cardinality(rows) -> rows] : IsRanked(seq, rows)

Products(db, w, s) ==
  LET sold == SoldLines(db, w, s)
      ranked == Ranking(RollUp(sold, [x \in sold |-> x.line.product]))
  IN [i \in 1 .. Min({Limit, Len(ranked)}) |-> ranked[i]]

Categories(db, w, s) ==
  LET sold == SoldLines(db, w, s) IN RollUp(sold, [x \in sold |-> CategoryOf[x.line.product]])

EarnedIn(db, win) == {x \in Slices : During(db.payable[x].at, win)}
NetOf(db, X) == SumFunction([x \in X |-> db.payable[x].net])
BySeller(db, X) ==
  {LET mine == {x \in X : x[2] = s}
   IN [seller |-> s, payables |-> Cardinality(mine), gross |-> SumFunction([x \in mine |-> GrossOf(x)]),
       goods |-> SumFunction([x \in mine |-> GoodsOf(x)]), net |-> NetOf(db, mine)] :
    s \in {x[2] : x \in X}}

SellerRollUp(db, w) == BySeller(db, EarnedIn(db, ResolveWindow(db, w)))
ReportTotals(db, w) == BySeller(db, EarnedIn(db, TotalsFilter(w)))

PayablesListed(db, w, status) ==
  {[of |-> x, row |-> db.payable[x]] :
    x \in {y \in EarnedIn(db, DateFilter(w)) : status \in {None, db.payable[y].status}}}
SettlementsListed(db, w) == {x \in Slices : During(db.batched[x], DateFilter(w))}
PayoutsListed(db, w) == {[of |-> o, row |-> db.fee[o]] : o \in {p \in Orders : During(db.fee[p].at, DateFilter(w))}}

FeesOf(db, win, status) ==
  Fee * Cardinality({o \in Orders : During(db.fee[o].at, win) /\ db.fee[o].status = status})
PayoutSummary(db, w) ==
  [pending |-> FeesOf(db, DateFilter(w), "EARNED"), paid |-> FeesOf(db, DateFilter(w), "SETTLED")]

(* The same tables, to those they concern: a buyer's orders (the staff asks  *)
(* as None) and the returns of one of them, a seller's slices, payables and  *)
(* settlements, the courier's fees.                                          *)
OrdersListed(db, b, status) ==
  {o \in Orders : db.placed[o] # None /\ b \in {None, BuyerOf[o]} /\ status \in {None, db.status[o]}}
ReturnsListed(db, O) == {x \in Slices : x[1] \in O /\ db.case[x].kind = "return"}
SlicesListed(db, s) == {x \in Slices : x[2] = s /\ db.placed[x[1]] # None}
MyPayables(db, s, status) == {p \in PayablesListed(db, Always, status) : p.of[2] = s}
MySettlements(db, s) == {x \in SettlementsListed(db, Always) : x[2] = s}
PartnerPayouts(db, status) == {o \in Orders : db.fee[o].at # None /\ status \in {None, db.fee[o].status}}
PartnerSummary(db) ==
  LET sum(status) == Fee * Cardinality(PartnerPayouts(db, status))
  IN [pending |-> sum("EARNED"), paid |-> sum("SETTLED"), total |-> sum("EARNED") + sum("SETTLED")]

(* What the reconciliation finds wrong, of the orders that were delivered.   *)
Unreconciled(db) ==
  {x \in Slices :
    /\ db.status[x[1]] \in {"DELIVERED", "REFUNDED"}
    /\ \/ (x[2] \in Rejected(db, x[1])) = (db.payable[x].at # None)
       \/ db.payable[x].net < 0
       \/ db.payable[x].at # None /\ db.payable[x].net # Earning(x) + db.payable[x].adjusted}

Init == held = Empty
Time == held' \in Passed(held)
Event(outcomes) ==
  /\ held.events < MaxEvents
  /\ held' \in {[db EXCEPT !.events = @ + 1] : db \in outcomes}

Next ==
  \/ Time
  \/ Event(Placed(held)) \/ Event(Cancelled(held)) \/ Event(SliceRejected(held))
  \/ Event(Delivered(held)) \/ Event(PaidOut(held))
  \/ Event(Asked(held)) \/ Event(Refunded(held))
  \/ Event(Batched(held)) \/ Event(Settled(held))

Spec == Init /\ [][Next]_held

-----------------------------------------------------------------------------
TypeOK == held.now \in 0 .. LastInstant /\ \A x \in Slices : held.payable[x].net >= 0

(* The reports drawn from the same tables for the same period agree: the     *)
(* days add up to the overview of a seller or of the platform, in grand      *)
(* totals, and the categories to its units; the ranked products are of what  *)
(* the categories hold, in goods; what the sellers are told they have sold   *)
(* adds up to what the platform is told, either way; the fees listed add up  *)
(* to their summary; and reconciliation finds nothing wrong.                 *)
DaysAddUp(w, s, told) ==
  LET t == Trend(held, w, s)
  IN /\ told.gmv = SumFunction([d \in DOMAIN t |-> t[d].gmv])
     /\ told.orders = SumFunction([d \in DOMAIN t |-> t[d].orders])

CategoriesAddUp(w, s, told) == told.units = SumFunction([c \in Categories(held, w, s) |-> c.units])

GoodsSold(w, s) == SumFunction([c \in Categories(held, w, s) |-> c.gmv])

TopIsOfTheSold(w, s) ==
  LET top == Products(held, w, s)
  IN /\ \A i \in DOMAIN top : top[i].gmv <= GoodsSold(w, s)
     /\ Len(top) < Limit => SumFunction([i \in DOMAIN top |-> top[i].gmv]) = GoodsSold(w, s)

SellersAddUp(w, told) ==
  /\ told[None].gmv = SumFunction([s \in Sellers |-> told[s].gmv])
  /\ told[None].units = SumFunction([s \in Sellers |-> told[s].units])
  /\ GoodsSold(w, None) = SumFunction([s \in Sellers |-> GoodsSold(w, s)])

FeesAddUp(w) ==
  LET sum == PayoutSummary(held, w)
  IN sum.pending + sum.paid = Fee * Cardinality(PayoutsListed(held, w))

(* Every row the staff lists is in the list of somebody it concerns; what a  *)
(* seller is to be paid for is in its list of slices, and the order it       *)
(* belongs to shows its buyer that it was delivered; the courier is told the *)
(* sums that the staff is told.                                              *)
ListsAgree ==
  LET delivered == OrdersListed(held, None, "DELIVERED") \cup OrdersListed(held, None, "REFUNDED")
      mine == UNION {OrdersListed(held, b, None) : b \in {BuyerOf[o] : o \in Orders}}
  IN /\ ReturnsListed(held, Orders) = ReturnsListed(held, mine \cap delivered)
     /\ \A s \in Sellers :
          /\ {p.of : p \in MyPayables(held, s, None)}
               = {x \in SlicesListed(held, s) : x[1] \in delivered /\ s \notin Rejected(held, x[1])}
          /\ {p.of : p \in MyPayables(held, s, "IN_SETTLEMENT")} \subseteq MySettlements(held, s)
     /\ PartnerPayouts(held, None) = delivered
     /\ LET own == PartnerSummary(held) sum == PayoutSummary(held, Always)
        IN own.pending = sum.pending /\ own.paid = sum.paid /\ own.total = Fee * Cardinality(delivered)

ReportsAgree ==
  /\ Unreconciled(held) = {} /\ ListsAgree
  /\ \A w \in Windows :
       LET told == [s \in Sellers \cup {None} |-> Overview(held, w, s)]
       IN /\ SellersAddUp(w, told) /\ FeesAddUp(w)
          /\ \A s \in DOMAIN told :
               DaysAddUp(w, s, told[s]) /\ CategoriesAddUp(w, s, told[s]) /\ TopIsOfTheSold(w, s)

(* Stated of the reports, and not so.  The totals of a period are those of   *)
(* the payables listed for it: they end with the midnight of its last day.   *)
TotalsAreOfTheList ==
  \A w \in Windows :
    SumFunction([r \in ReportTotals(held, w) |-> r.net])
      = SumFunction([p \in PayablesListed(held, w, None) |-> p.row.net])

(* What is called the GMV of the categories is that of the overview: they    *)
(* add up line totals, and it grand totals, of the same orders.              *)
CategoriesMakeUpGmv ==
  \A w \in Windows, s \in Sellers \cup {None} : GoodsSold(w, s) = Overview(held, w, s).gmv

(* What the sellers are told was refunded adds up to what the platform is    *)
(* told: they are told of other refunds than it is.                          *)
RefundsAddUp ==
  \A w \in Windows :
    Overview(held, w, None).refundedAmount
      = SumFunction([s \in Sellers |-> Overview(held, w, s).refundedAmount])
=============================================================================
