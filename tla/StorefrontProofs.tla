-------------------------- MODULE StorefrontProofs --------------------------
(***************************************************************************)
(* Two pages of the storefront, the order page and the shop's pages, for   *)
(* any orders, products and notices and any number of calls under way; and *)
(* the reports of the back office, for any orders, goods and periods.      *)
(* Answers come in any order, and calls are lost.  The invariants say when *)
(* no two calls of a page can have crossed, and that what the page shows   *)
(* is then what the server holds, or is about to be put right by a call    *)
(* that is still under way.  The reports are sums over the same lines,     *)
(* divided in different ways; their invariant says how the tables that     *)
(* they are drawn from fit together.                                       *)
(***************************************************************************)
EXTENDS Platform, FiniteSums

-----------------------------------------------------------------------------
(* The order page *)

OrderStatuses == {"PLACED", "CONFIRMED", "PACKED", "DELIVERED", "CANCELLED"}
CodStatuses == {"NONE", "PENDING_CUSTOMER_OTP", "CONFIRMED"}
OpenCases == [status : {"REQUESTED", "REJECTED", "COMPLETED"}, n : Nat, proof : BOOLEAN]
OrderRows == [status : OrderStatuses, cod : CodStatuses, paid : BOOLEAN, cases : Seq(OpenCases)]
ShownOrders == [id : BuyerOrders, status : OrderStatuses]
ShownPayments == {None} \cup BOOLEAN
PanelCases == {None} \cup Seq(OpenCases)
PanelModes == {"none", "form", "evidence"}
Panels == [cases : PanelCases, active : Nat, mode : PanelModes, busy : BOOLEAN]

OrderScreen ==
  [id : BuyerOrders \cup {None}, order : ShownOrders \cup {None}, payment : ShownPayments,
   cod : CodStatuses \cup {None}, sent : BOOLEAN, busy : BOOLEAN, panel : Panels,
   told : SUBSET BuyerOrders, sure : BOOLEAN, clicks : Nat]

OrderReads == {"get", "payment", "cod", "list"}
OrderCall(c) ==
  /\ c = [kind |-> c.kind, id |-> c.id, arg |-> c.arg, live |-> c.live, reply |-> c.reply]
  /\ c.kind \in OrderReads \cup Order!Writes /\ c.id \in BuyerOrders /\ c.live \in BOOLEAN
  /\ c.reply \in OrderRows \cup {None, Refused}
  /\ c.kind \in {"cod", "otp", "verify"} => c.id \in Cod
  /\ c.kind \in {"payment", "capture"} => c.id \notin Cod
  /\ c.kind \in {"cancel", "capture"} => c.arg \in BuyerOrders
  /\ c.kind = "request" => c.arg \in Nat
  /\ c.kind \in {"get", "payment", "list"} => c.reply # Refused

(* Cash on delivery is not paid online, and not confirmed before it is       *)
(* verified.                                                                 *)
OrdersHeld(h) ==
  /\ h \in [BuyerOrders -> OrderRows]
  /\ \A o \in BuyerOrders \cap Cod : ~h[o].paid /\ (h[o].cod = "CONFIRMED" \/ h[o].status \in {"PLACED", "CANCELLED"})

AskedFor(cs, kinds) == \E c \in cs : c.live /\ c.kind \in kinds
WrittenBy(cs, kinds) == \E c \in cs : c.kind \in kinds /\ c.reply \notin {None, Refused}

(* What an answer that has come, and did not cross another, is good for.     *)
CallIsCurrent(c, s, h) ==
  /\ c.kind \in Order!Writes => c.live
  /\ c.live => /\ c.id = s.id
               /\ c.kind \in {"cancel", "capture"} => c.arg = s.id
               /\ c.reply \notin {None, Refused} => c.reply = h[s.id]

PaymentIsCurrent(s, cs, h) ==
  /\ s.id \in Cod => s.payment = None
  /\ s.payment = None \/ AskedFor(cs, {"get", "payment"}) \/ WrittenBy(cs, {"capture"}) \/ s.payment = h[s.id].paid

CodIsCurrent(s, cs, h) == s.cod = None \/ WrittenBy(cs, {"otp", "verify"}) \/ s.cod = h[s.id].cod

StatusIsCurrent(s, cs, h) ==
  \/ AskedFor(cs, {"get"}) \/ WrittenBy(cs, {"cancel", "capture"})
  \/ s.order.status = h[s.id].status
  \/ /\ s.order.status = "PLACED" /\ h[s.id].status = "CONFIRMED" /\ h[s.id].cod = "CONFIRMED"
     /\ s.cod = "CONFIRMED" \/ WrittenBy(cs, {"verify"})

PanelIsRight(panel, cases) ==
  /\ panel.cases = cases
  /\ panel.active = 0 <=> Order!First(cases) = 0
  /\ panel.active # 0 => Order!Live(cases[panel.active])

PanelIsCurrent(s, cs, h) ==
  \/ s.order.status # "DELIVERED"
  \/ AskedFor(cs, {"list"}) \/ WrittenBy(cs, {"request", "evidence"})
  \/ PanelIsRight(s.panel, h[s.id].cases)

OrderIsCurrent(s, cs, h) ==
  /\ PaymentIsCurrent(s, cs, h) /\ CodIsCurrent(s, cs, h)
  /\ s.order # None => s.order.id = s.id /\ StatusIsCurrent(s, cs, h) /\ PanelIsCurrent(s, cs, h)

OrderIsSure(s, cs, h) ==
  /\ \A c, d \in cs : c # d => ~Order!Cross(c, d)
  /\ \A c \in cs : CallIsCurrent(c, s, h)
  /\ OrderIsCurrent(s, cs, h)

OrderOpened(s, cs) == s.id \in BuyerOrders \/ (s.order = None /\ cs = {})

OrderPageOK(s, cs, h) ==
  /\ s \in OrderScreen /\ (\A c \in cs : OrderCall(c)) /\ OrdersHeld(h) /\ OrderOpened(s, cs)
  /\ s.sure => OrderIsSure(s, cs, h)

OrderPageInv == OrderPageOK(screen, calls, held)

LEMMA NoRowIsAnAnswer == None \notin OrderRows /\ Refused \notin OrderRows
  BY OrderAssumption DEF OrderRows, OrderStatuses, CodStatuses, OpenCases

(* The first case of a list that is open.                                    *)
LEMMA FirstOpen ==
  ASSUME NEW cases \in Seq(OpenCases)
  PROVE  /\ Order!First(cases) \in Nat
         /\ Order!First(cases) = 0 => \A i \in DOMAIN cases : ~Order!Live(cases[i])
         /\ Order!First(cases) # 0 =>
              Order!First(cases) \in DOMAIN cases /\ Order!Live(cases[Order!First(cases)])
  <1> DEFINE live == {i \in DOMAIN cases : Order!Live(cases[i])}
  <1>1. PICK n \in Nat : n = Len(cases) /\ DOMAIN cases = 1 .. n
    OBVIOUS
  <1>2. Order!First(cases) = IF live = {} THEN 0 ELSE CHOOSE i \in live : \A j \in live : i <= j
    BY DEF Order!First
  <1>3. ASSUME live # {} PROVE \E i \in live : \A j \in live : i <= j
    <2>1. live \in SUBSET (0 .. n)
      BY <1>1
    <2>2. PICK m \in live : \A k \in 0 .. m - 1 : k \notin live
      <3> HIDE DEF live
      <3> QED
        BY <1>3, <2>1, LeastNumber
    <2>3. ASSUME NEW j \in live PROVE m <= j
      BY <1>1, <2>2
    <2> QED
      BY <2>3
  <1>4. ASSUME live # {} PROVE Order!First(cases) \in live
    <2> HIDE DEF live
    <2> QED
      BY <1>2, <1>3, <1>4
  <1>5. \A i \in live : i \in DOMAIN cases /\ i \in Nat /\ i # 0 /\ Order!Live(cases[i])
    BY <1>1
  <1>6. live = {} => Order!First(cases) = 0 /\ \A i \in DOMAIN cases : ~Order!Live(cases[i])
    BY <1>2
  <1> HIDE DEF live
  <1> QED
    BY <1>4, <1>5, <1>6

(* What the server leaves of an order.                                       *)
LEMMA CaseChanges ==
  ASSUME NEW cases \in Seq(OpenCases), NEW a
  PROVE  /\ [cases EXCEPT ![a].proof = TRUE] \in Seq(OpenCases)
         /\ \A s \in {"REJECTED", "COMPLETED"} : [cases EXCEPT ![a].status = s] \in Seq(OpenCases)
  <1>1. PICK n \in Nat : n = Len(cases) /\ cases \in [1 .. n -> OpenCases]
    OBVIOUS
  <1>2. \A e \in OpenCases : /\ [e EXCEPT !.proof = TRUE] \in OpenCases
                             /\ \A s \in {"REJECTED", "COMPLETED"} : [e EXCEPT !.status = s] \in OpenCases
    <2>1. SUFFICES ASSUME NEW e \in OpenCases
                   PROVE  /\ \A b \in BOOLEAN : [e EXCEPT !.proof = b] \in OpenCases
                          /\ \A s \in {"REJECTED", "COMPLETED"} : [e EXCEPT !.status = s] \in OpenCases
      <3> HIDE DEF OpenCases
      <3> QED
        OBVIOUS
    <2>0. PICK u, x, q : /\ e = [status |-> u, n |-> x, proof |-> q]
                          /\ u \in {"REQUESTED", "REJECTED", "COMPLETED"} /\ x \in Nat /\ q \in BOOLEAN
      <3>1. /\ e = [status |-> e.status, n |-> e.n, proof |-> e.proof]
            /\ e.status \in {"REQUESTED", "REJECTED", "COMPLETED"} /\ e.n \in Nat /\ e.proof \in BOOLEAN
        BY DEF OpenCases
      <3> QED
        BY <3>1
    <2>2. \A b \in BOOLEAN : [e EXCEPT !.proof = b] \in OpenCases
      <3>1. \A b \in BOOLEAN : [e EXCEPT !.proof = b] = [status |-> u, n |-> x, proof |-> b]
        BY <2>0
      <3> QED
        BY <2>0, <3>1 DEF OpenCases
    <2>3. \A s : s \in {"REJECTED", "COMPLETED"} => [e EXCEPT !.status = s] \in OpenCases
      <3>1. \A s : [e EXCEPT !.status = s] = [status |-> s, n |-> x, proof |-> q]
        BY <2>0
      <3> QED
        BY <2>0, <3>1 DEF OpenCases
    <2> QED
      BY <2>2, <2>3
  <1> HIDE DEF OpenCases
  <1>3. \A e \in OpenCases : [cases EXCEPT ![a] = e] \in [1 .. n -> OpenCases]
    BY <1>1
  <1>4. \A f \in [1 .. n -> OpenCases] : f \in Seq(OpenCases)
    BY <1>1
  <1>5. CASE a \in 1 .. n
    BY <1>1, <1>2, <1>4, <1>5
  <1>6. CASE a \notin 1 .. n
    BY <1>1, <1>4, <1>6
  <1> QED
    BY <1>5, <1>6

LEMMA OrderServed ==
  ASSUME NEW c, OrderCall(c), NEW h \in OrderRows, NEW r, r = Order!Served(c, h), r # Refused
  PROVE  /\ r \in OrderRows
         /\ c.kind \in OrderReads => r = h
         /\ c.kind = "cancel" => r.status = "CANCELLED" /\ r.cod = h.cod /\ r.paid = h.paid /\ r.cases = h.cases
         /\ c.kind = "capture" => r.status = h.status /\ r.cod = h.cod /\ r.cases = h.cases
         /\ c.kind = "otp" =>
              r.status = h.status /\ h.cod # "CONFIRMED" /\ r.cod # "CONFIRMED" /\ r.paid = h.paid /\ r.cases = h.cases
         /\ c.kind = "verify" =>
              \/ r = h
              \/ /\ h.status # "CANCELLED" /\ h.cod # "CONFIRMED" /\ r.status = "CONFIRMED" /\ r.cod = "CONFIRMED"
                 /\ r.paid = h.paid /\ r.cases = h.cases
         /\ c.kind \in {"request", "evidence"} => r.status = h.status /\ r.cod = h.cod /\ r.paid = h.paid
  <1>1. PICK s \in OrderStatuses, d \in CodStatuses, p \in BOOLEAN, cs \in Seq(OpenCases) :
          h = [status |-> s, cod |-> d, paid |-> p, cases |-> cs]
    BY DEF OrderRows
  <1>2. \A x \in OrderStatuses, y \in CodStatuses, z \in BOOLEAN, w \in Seq(OpenCases) :
          [status |-> x, cod |-> y, paid |-> z, cases |-> w] \in OrderRows
    BY DEF OrderRows
  <1>3. CASE c.kind \in OrderReads
    BY <1>3 DEF OrderReads, Order!Served
  <1>4. CASE c.kind = "cancel"
    <2>1. r = [status |-> "CANCELLED", cod |-> d, paid |-> p, cases |-> cs]
      BY <1>1, <1>4 DEF Order!Served
    <2> QED
      BY <1>1, <1>2, <1>4, <2>1 DEF OrderReads, OrderStatuses
  <1>5. CASE c.kind = "capture"
    <2>1. PICK b \in BOOLEAN : r = [status |-> s, cod |-> d, paid |-> b, cases |-> cs]
      BY <1>1, <1>5 DEF Order!Served
    <2> QED
      BY <1>1, <1>2, <1>5, <2>1 DEF OrderReads
  <1>6. CASE c.kind = "otp"
    <2>1. r = [status |-> s, cod |-> "PENDING_CUSTOMER_OTP", paid |-> p, cases |-> cs] /\ d # "CONFIRMED"
      BY <1>1, <1>6 DEF Order!Served
    <2> QED
      BY <1>1, <1>2, <1>6, <2>1 DEF OrderReads, CodStatuses
  <1>7. CASE c.kind = "verify"
    <2>1. /\ s # "CANCELLED" /\ d = "PENDING_CUSTOMER_OTP"
          /\ r = h \/ r = [status |-> "CONFIRMED", cod |-> "CONFIRMED", paid |-> p, cases |-> cs]
      BY <1>1, <1>7 DEF Order!Served
    <2> QED
      BY <1>1, <1>2, <1>7, <2>1 DEF OrderReads, CodStatuses, OrderStatuses
  <1>8. CASE c.kind = "request"
    <2>1. PICK n \in Nat : n = c.arg
      BY <1>8 DEF OrderCall
    <2>2. r = [status |-> s, cod |-> d, paid |-> p,
               cases |-> Append(cs, [status |-> "REQUESTED", n |-> n, proof |-> FALSE])]
      BY <1>1, <1>8, <2>1 DEF Order!Served
    <2>3. [status |-> "REQUESTED", n |-> n, proof |-> FALSE] \in OpenCases
      BY DEF OpenCases
    <2>4. Append(cs, [status |-> "REQUESTED", n |-> n, proof |-> FALSE]) \in Seq(OpenCases)
      BY <2>3
    <2> QED
      BY <1>1, <1>2, <1>8, <2>2, <2>4 DEF OrderReads
  <1>9. CASE c.kind = "evidence"
    <2>1. PICK w : w = [cs EXCEPT ![c.arg].proof = TRUE]
      OBVIOUS
    <2>2. r = [status |-> s, cod |-> d, paid |-> p, cases |-> w]
      BY <1>1, <1>9, <2>1 DEF Order!Served
    <2>3. w \in Seq(OpenCases)
      BY <2>1, CaseChanges
    <2> QED
      BY <1>1, <1>2, <1>9, <2>2, <2>3 DEF OrderReads
  <1> QED
    BY <1>3, <1>4, <1>5, <1>6, <1>7, <1>8, <1>9 DEF OrderCall, Order!Writes

-----------------------------------------------------------------------------

(* Two screens that show the same of the order.                              *)
ShowsAlike(t, s) ==
  /\ t.id = s.id /\ t.order = s.order /\ t.payment = s.payment /\ t.cod = s.cod
  /\ t.panel.cases = s.panel.cases /\ t.panel.active = s.panel.active

(* What is shown stays as good as it was, as long as what is awaited still   *)
(* is and what was written has not been answered.                            *)
LEMMA StaysCurrent ==
  ASSUME NEW s, NEW t, NEW cs, NEW ds, NEW h, ShowsAlike(t, s), OrderIsCurrent(s, cs, h),
         \A c \in cs : c.live /\ c.kind \in OrderReads => \E d \in ds : d.kind = c.kind /\ d.live,
         \A c \in cs : c.kind \in Order!Writes /\ c.reply \notin {None, Refused} =>
           \E d \in ds : d.kind = c.kind /\ d.reply \notin {None, Refused}
  PROVE  OrderIsCurrent(t, ds, h)
  <1>1. \A kinds \in SUBSET OrderReads : AskedFor(cs, kinds) => AskedFor(ds, kinds)
    BY DEF AskedFor
  <1>2. \A kinds \in SUBSET Order!Writes : WrittenBy(cs, kinds) => WrittenBy(ds, kinds)
    BY DEF WrittenBy
  <1>3. /\ {"get", "payment"} \in SUBSET OrderReads /\ {"get"} \in SUBSET OrderReads
        /\ {"list"} \in SUBSET OrderReads
        /\ {"capture"} \in SUBSET Order!Writes /\ {"otp", "verify"} \in SUBSET Order!Writes
        /\ {"cancel", "capture"} \in SUBSET Order!Writes /\ {"verify"} \in SUBSET Order!Writes
        /\ {"request", "evidence"} \in SUBSET Order!Writes
    BY DEF OrderReads, Order!Writes
  <1>4. PaymentIsCurrent(t, ds, h)
    BY <1>1, <1>2, <1>3 DEF OrderIsCurrent, PaymentIsCurrent, ShowsAlike
  <1>5. CodIsCurrent(t, ds, h)
    BY <1>1, <1>2, <1>3 DEF OrderIsCurrent, CodIsCurrent, ShowsAlike
  <1>6. t.order # None => StatusIsCurrent(t, ds, h)
    BY <1>1, <1>2, <1>3 DEF OrderIsCurrent, StatusIsCurrent, ShowsAlike
  <1>7. t.order # None => PanelIsCurrent(t, ds, h)
    BY <1>1, <1>2, <1>3 DEF OrderIsCurrent, PanelIsCurrent, PanelIsRight, ShowsAlike
  <1> QED
    BY <1>4, <1>5, <1>6, <1>7 DEF OrderIsCurrent, ShowsAlike

(* The fields of the screen, and of its panel.                               *)
LEMMA OrderScreenIs ==
  ASSUME NEW s \in OrderScreen
  PROVE  /\ s = [id |-> s.id, order |-> s.order, payment |-> s.payment, cod |-> s.cod, sent |-> s.sent,
                 busy |-> s.busy, panel |-> s.panel, told |-> s.told, sure |-> s.sure, clicks |-> s.clicks]
         /\ s.panel = [cases |-> s.panel.cases, active |-> s.panel.active,
                       mode |-> s.panel.mode, busy |-> s.panel.busy]
         /\ s.panel \in Panels /\ s.order \in ShownOrders \cup {None} /\ s.clicks \in Nat
         /\ s.sure \in BOOLEAN /\ s.busy \in BOOLEAN /\ s.sent \in BOOLEAN
  <1>1. s.panel \in Panels
    BY DEF OrderScreen
  <1>2. s.panel = [cases |-> s.panel.cases, active |-> s.panel.active,
                   mode |-> s.panel.mode, busy |-> s.panel.busy]
    BY <1>1 DEF Panels
  <1> QED
    BY <1>1, <1>2 DEF OrderScreen

LEMMA OrderFields ==
  ASSUME NEW s \in OrderScreen
  PROVE  /\ s.id \in BuyerOrders \cup {None} /\ s.order \in ShownOrders \cup {None}
         /\ s.panel \in Panels /\ s.clicks \in Nat /\ s.clicks + 1 \in Nat /\ s.told \in SUBSET BuyerOrders
         /\ s.sure \in BOOLEAN /\ s.busy \in BOOLEAN /\ s.sent \in BOOLEAN
  BY DEF OrderScreen

LEMMA PanelChanges ==
  ASSUME NEW p \in Panels
  PROVE  /\ \A b \in BOOLEAN : /\ [p EXCEPT !.busy = b] \in Panels
                              /\ [p EXCEPT !.busy = b].cases = p.cases
                              /\ [p EXCEPT !.busy = b].active = p.active
                              /\ [p EXCEPT !.busy = b].mode = p.mode
         /\ \A m \in PanelModes : /\ [p EXCEPT !.mode = m] \in Panels
                                 /\ [p EXCEPT !.mode = m].cases = p.cases
                                 /\ [p EXCEPT !.mode = m].active = p.active
         /\ \A i \in Nat : /\ [p EXCEPT !.active = i] \in Panels
                          /\ [p EXCEPT !.active = i].cases = p.cases
                          /\ [p EXCEPT !.active = i].active = i
         /\ \A cs \in PanelCases : /\ [p EXCEPT !.cases = cs] \in Panels
                                  /\ [p EXCEPT !.cases = cs].cases = cs
                                  /\ [p EXCEPT !.cases = cs].active = p.active
  <1>1. PICK c \in PanelCases, a \in Nat, m \in PanelModes, b \in BOOLEAN :
          p = [cases |-> c, active |-> a, mode |-> m, busy |-> b]
    BY DEF Panels
  <1>2. \A c1 \in PanelCases, a1 \in Nat, m1 \in PanelModes, b1 \in BOOLEAN :
          [cases |-> c1, active |-> a1, mode |-> m1, busy |-> b1] \in Panels
    BY DEF Panels
  <1>3. \A x \in BOOLEAN : [p EXCEPT !.busy = x] = [cases |-> c, active |-> a, mode |-> m, busy |-> x]
    BY <1>1
  <1>4. \A x \in PanelModes : [p EXCEPT !.mode = x] = [cases |-> c, active |-> a, mode |-> x, busy |-> b]
    BY <1>1
  <1>5. \A x \in Nat : [p EXCEPT !.active = x] = [cases |-> c, active |-> x, mode |-> m, busy |-> b]
    BY <1>1
  <1>6. \A x \in PanelCases : [p EXCEPT !.cases = x] = [cases |-> x, active |-> a, mode |-> m, busy |-> b]
    BY <1>1
  <1> QED
    BY <1>1, <1>2, <1>3, <1>4, <1>5, <1>6

(* The flag does not matter to what is shown.                                *)
LEMMA OrderUnsure ==
  ASSUME NEW s \in OrderScreen, NEW b \in BOOLEAN
  PROVE  /\ [s EXCEPT !.sure = b] \in OrderScreen /\ ShowsAlike([s EXCEPT !.sure = b], s)
         /\ [s EXCEPT !.sure = b].sure = b
  BY DEF OrderScreen, ShowsAlike

LEMMA SureAlike ==
  ASSUME NEW s, NEW t, NEW cs, NEW h, ShowsAlike(t, s), OrderIsSure(s, cs, h)
  PROVE  OrderIsSure(t, cs, h)
  <1>1. OrderIsCurrent(t, cs, h)
    BY StaysCurrent DEF OrderIsSure
  <1> QED
    BY <1>1 DEF OrderIsSure, CallIsCurrent, ShowsAlike

LEMMA OrderSends ==
  ASSUME NEW s \in OrderScreen, NEW new, NEW others, Order!Send(s, new, others), OrdersHeld(held), s.id \in BuyerOrders,
         \A c \in new \cup others : OrderCall(c),
         s.sure /\ (\A c \in others, d \in new : ~Order!Cross(c, d)) => OrderIsSure(s, others \cup new, held)
  PROVE  OrderPageInv'
  <1>1. PICK b \in BOOLEAN : b = (s.sure /\ ~\E c \in others, d \in new : Order!Cross(c, d))
    OBVIOUS
  <1>2. calls' = others \cup new /\ held' = held /\ screen' = [s EXCEPT !.sure = b]
    BY <1>1 DEF Order!Send
  <1>3. PICK t : t = [s EXCEPT !.sure = b]
    OBVIOUS
  <1>4. t \in OrderScreen /\ ShowsAlike(t, s) /\ t.sure = b
    BY <1>3, OrderUnsure
  <1>5. b => OrderIsSure(t, others \cup new, held)
    BY <1>1, <1>4, SureAlike
  <1>6. OrderPageOK(t, others \cup new, held)
    BY <1>4, <1>5 DEF OrderPageOK, OrderOpened, ShowsAlike
  <1> QED
    BY <1>2, <1>3, <1>6 DEF OrderPageInv

LEMMA OrderShows ==
  ASSUME NEW s \in OrderScreen, NEW c \in calls, Order!Show(s, c), OrderPageInv, s.id = screen.id,
         s.sure => OrderIsSure(s, calls \ {c}, held)
  PROVE  OrderPageInv'
  <1>1. OrderPageOK(s, calls \ {c}, held)
    BY DEF OrderPageInv, OrderPageOK, OrderOpened
  <1>2. screen' = s /\ calls' = calls \ {c} /\ held' = held
    BY DEF Order!Show
  <1> QED
    BY <1>1, <1>2 DEF OrderPageInv

(* While nothing has crossed, a write is under way alone ...                 *)
LEMMA WriteIsAlone ==
  ASSUME OrderPageInv, screen.sure, NEW c \in calls, c.kind \in Order!Writes
  PROVE  /\ calls = {c} /\ c.live /\ c.id = screen.id
         /\ c.kind \in {"cancel", "capture"} => c.arg = screen.id
         /\ c.reply \notin {None, Refused} => c.reply = held[screen.id]
         /\ \A kinds \in SUBSET OrderReads : ~AskedFor(calls, kinds)
         /\ \A kinds : c.kind \notin kinds => ~WrittenBy(calls, kinds)
  <1>1. OrderIsSure(screen, calls, held)
    BY DEF OrderPageInv, OrderPageOK
  <1>2. calls = {c}
    BY <1>1 DEF OrderIsSure, Order!Cross
  <1>3. c.kind \notin OrderReads
    BY DEF OrderReads, Order!Writes
  <1> QED
    BY <1>1, <1>2, <1>3 DEF OrderIsSure, CallIsCurrent, AskedFor, WrittenBy

(* ... and with a read there are only reads.                                 *)
LEMMA ReadsAmongReads ==
  ASSUME OrderPageInv, screen.sure, NEW c \in calls, c.kind \in OrderReads
  PROVE  /\ \A d \in calls : d.kind \in OrderReads /\ d.kind \notin Order!Writes
         /\ \A kinds \in SUBSET Order!Writes : ~WrittenBy(calls, kinds)
         /\ c.live => c.id = screen.id /\ (c.reply \notin {None, Refused} => c.reply = held[screen.id])
  <1>1. OrderIsSure(screen, calls, held) /\ \A d \in calls : OrderCall(d)
    BY DEF OrderPageInv, OrderPageOK
  <1>2. \A d \in calls : d.kind \notin Order!Writes
    <2>1. c.kind \notin Order!Writes
      BY DEF OrderReads, Order!Writes
    <2> QED
      BY <1>1, <2>1 DEF OrderIsSure, Order!Cross
  <1> QED
    BY <1>1, <1>2 DEF OrderIsSure, CallIsCurrent, OrderCall, WrittenBy

(* A click that sends a write, from a screen that shows the same.            *)
LEMMA OrderWrites ==
  ASSUME OrderPageInv, NEW s \in OrderScreen, ShowsAlike(s, screen), s.sure = screen.sure,
         NEW w, OrderCall(w), w.kind \in Order!Writes, w.live, w.reply = None,
         screen.order # None, w.id = screen.order.id, w.kind \in {"cancel", "capture"} => w.arg = screen.id,
         Order!Send(s, {w}, calls)
  PROVE  OrderPageInv'
  <1>1. ASSUME s.sure, \A c \in calls, d \in {w} : ~Order!Cross(c, d)
        PROVE  OrderIsSure(s, calls \cup {w}, held)
    <2>1. calls = {}
      BY <1>1 DEF Order!Cross
    <2>2. OrderIsSure(screen, calls, held)
      BY <1>1 DEF OrderPageInv, OrderPageOK
    <2>3. OrderIsCurrent(s, calls \cup {w}, held)
      BY <2>1, <2>2, StaysCurrent DEF OrderIsSure
    <2>4. w.id = s.id
      BY <2>2 DEF OrderIsSure, OrderIsCurrent, ShowsAlike
    <2>5. CallIsCurrent(w, s, held)
      BY <2>4 DEF CallIsCurrent, ShowsAlike
    <2> QED
      BY <2>1, <2>3, <2>5 DEF OrderIsSure
  <1>2. OrdersHeld(held) /\ s.id \in BuyerOrders /\ \A c \in calls : OrderCall(c)
    BY DEF OrderPageInv, OrderPageOK, OrderOpened, ShowsAlike
  <1> QED
    BY <1>1, <1>2, OrderSends

LEMMA OrderCallIs ==
  ASSUME NEW kind, NEW o, NEW arg, NEW c, c = Order!Call(kind, o, arg)
  PROVE  /\ c = [kind |-> c.kind, id |-> c.id, arg |-> c.arg, live |-> c.live, reply |-> c.reply]
         /\ c.kind = kind /\ c.id = o /\ c.arg = arg /\ c.live /\ c.live \in BOOLEAN /\ c.reply = None
  BY DEF Order!Call

(* What is clicked and shown stays the same of the order.                    *)
LEMMA OrderClicked ==
  ASSUME NEW s \in OrderScreen
  PROVE  /\ [s EXCEPT !.clicks = @ + 1] \in OrderScreen
         /\ ShowsAlike([s EXCEPT !.clicks = @ + 1], s)
         /\ [s EXCEPT !.clicks = @ + 1].sure = s.sure
         /\ [s EXCEPT !.clicks = @ + 1].panel = s.panel
  <1>1. PICK n \in Nat : n = s.clicks + 1
    BY OrderFields
  <1>2. [s EXCEPT !.clicks = n] \in OrderScreen
    BY DEF OrderScreen
  <1>3. ShowsAlike([s EXCEPT !.clicks = n], s) /\ [s EXCEPT !.clicks = n].sure = s.sure
        /\ [s EXCEPT !.clicks = n].panel = s.panel
    BY DEF OrderScreen, ShowsAlike
  <1>4. [s EXCEPT !.clicks = @ + 1] = [s EXCEPT !.clicks = n]
    BY <1>1
  <1> QED
    BY <1>2, <1>3, <1>4

LEMMA OrderBusy ==
  ASSUME NEW s \in OrderScreen, NEW b \in BOOLEAN
  PROVE  /\ [s EXCEPT !.busy = b] \in OrderScreen /\ ShowsAlike([s EXCEPT !.busy = b], s)
         /\ [s EXCEPT !.busy = b].sure = s.sure /\ [s EXCEPT !.busy = b].panel = s.panel
  BY DEF OrderScreen, ShowsAlike

(* Another panel.                                                            *)
LEMMA OrderPanel ==
  ASSUME NEW s \in OrderScreen, NEW p \in Panels
  PROVE  /\ [s EXCEPT !.panel = p] \in OrderScreen
         /\ [s EXCEPT !.panel = p].panel = p /\ [s EXCEPT !.panel = p].sure = s.sure
         /\ [s EXCEPT !.panel = p].id = s.id /\ [s EXCEPT !.panel = p].order = s.order
         /\ [s EXCEPT !.panel = p].payment = s.payment /\ [s EXCEPT !.panel = p].cod = s.cod
  BY DEF OrderScreen

LEMMA PanelBusy ==
  ASSUME NEW s \in OrderScreen, NEW b \in BOOLEAN
  PROVE  /\ [s EXCEPT !.panel.busy = b] \in OrderScreen /\ ShowsAlike([s EXCEPT !.panel.busy = b], s)
         /\ [s EXCEPT !.panel.busy = b].sure = s.sure
         /\ [s EXCEPT !.panel.busy = b].panel.mode = s.panel.mode
  <1>1. PICK p : p = [s.panel EXCEPT !.busy = b]
    OBVIOUS
  <1>2. p \in Panels /\ p.cases = s.panel.cases /\ p.active = s.panel.active /\ p.mode = s.panel.mode
    BY <1>1, OrderFields, PanelChanges
  <1>3. PICK t : t = [s EXCEPT !.panel = p]
    OBVIOUS
  <1>4. [s EXCEPT !.panel.busy = b] = t
    BY <1>1, <1>3
  <1>5. t \in OrderScreen /\ ShowsAlike(t, s) /\ t.sure = s.sure /\ t.panel.mode = s.panel.mode
    BY <1>2, <1>3, OrderPanel DEF ShowsAlike
  <1> QED
    BY <1>4, <1>5, Zenon

LEMMA OrderMode ==
  ASSUME NEW s \in OrderScreen, NEW m \in PanelModes
  PROVE  /\ [s EXCEPT !.panel.mode = m] \in OrderScreen /\ ShowsAlike([s EXCEPT !.panel.mode = m], s)
         /\ [s EXCEPT !.panel.mode = m].sure = s.sure
  <1>1. PICK p : p = [s.panel EXCEPT !.mode = m]
    OBVIOUS
  <1>2. p \in Panels /\ p.cases = s.panel.cases /\ p.active = s.panel.active
    BY <1>1, OrderFields, PanelChanges
  <1>3. PICK t : t = [s EXCEPT !.panel = p]
    OBVIOUS
  <1>4. [s EXCEPT !.panel.mode = m] = t
    BY <1>1, <1>3
  <1>5. t \in OrderScreen /\ ShowsAlike(t, s) /\ t.sure = s.sure
    BY <1>2, <1>3, OrderPanel DEF ShowsAlike
  <1> QED
    BY <1>4, <1>5, Zenon

LEMMA OrderActive ==
  ASSUME NEW s \in OrderScreen, NEW i \in Nat
  PROVE  /\ [s EXCEPT !.panel.active = i] \in OrderScreen
         /\ [s EXCEPT !.panel.active = i].panel.active = i
         /\ [s EXCEPT !.panel.active = i].panel.cases = s.panel.cases
         /\ [s EXCEPT !.panel.active = i].sure = s.sure
         /\ [s EXCEPT !.panel.active = i].id = s.id /\ [s EXCEPT !.panel.active = i].order = s.order
         /\ [s EXCEPT !.panel.active = i].payment = s.payment /\ [s EXCEPT !.panel.active = i].cod = s.cod
  <1>1. PICK p : p = [s.panel EXCEPT !.active = i]
    OBVIOUS
  <1>2. p \in Panels /\ p.cases = s.panel.cases /\ p.active = i
    BY <1>1, OrderFields, PanelChanges
  <1>3. PICK t : t = [s EXCEPT !.panel = p]
    OBVIOUS
  <1>4. [s EXCEPT !.panel.active = i] = t
    BY <1>1, <1>3
  <1>5. /\ t \in OrderScreen /\ t.panel.active = i /\ t.panel.cases = s.panel.cases /\ t.sure = s.sure
        /\ t.id = s.id /\ t.order = s.order /\ t.payment = s.payment /\ t.cod = s.cod
    BY <1>2, <1>3, OrderPanel
  <1> QED
    BY <1>4, <1>5, Zenon

LEMMA OrderPanelled ==
  ASSUME NEW s \in OrderScreen
  PROVE  /\ Order!Panelled(s) \in OrderScreen /\ ShowsAlike(Order!Panelled(s), s)
         /\ Order!Panelled(s).sure = s.sure
  <1>1. PICK b \in BOOLEAN :
          b = (s.panel.busy /\ s.panel.mode = screen.panel.mode /\ (s.panel.active = 0 <=> screen.panel.active = 0))
    OBVIOUS
  <1>2. Order!InPlaceOf(screen.panel, s.panel) = [s.panel EXCEPT !.busy = b]
    <2>1. Order!InPlaceOf(screen.panel, s.panel)
            = [s.panel EXCEPT !.busy = @ /\ s.panel.mode = screen.panel.mode
                                         /\ (s.panel.active = 0 <=> screen.panel.active = 0)]
      BY DEF Order!InPlaceOf
    <2>2. PICK p : p = s.panel /\ p = [cases |-> p.cases, active |-> p.active, mode |-> p.mode, busy |-> p.busy]
      BY OrderScreenIs
    <2> QED
      BY <1>1, <2>1, <2>2
  <1>3. PICK p : p = [s.panel EXCEPT !.busy = b]
    OBVIOUS
  <1>4. p \in Panels /\ p.cases = s.panel.cases /\ p.active = s.panel.active
    BY <1>3, OrderFields, PanelChanges
  <1>5. Order!Panelled(s) = [s EXCEPT !.panel = p]
    BY <1>2, <1>3 DEF Order!Panelled
  <1> QED
    BY <1>4, <1>5, OrderPanel DEF ShowsAlike

-----------------------------------------------------------------------------
(* The clicks.                                                               *)
LEMMA OrderPageOpened ==
  ASSUME OrderPageInv, NEW o \in BuyerOrders, Order!Open(o)
  PROVE  OrderPageInv'
  <1> DEFINE orphans == {[c EXCEPT !.live = FALSE] : c \in calls}
  <1>1. PICK s : s = Order!Page(o, screen.sure \/ calls = {}, screen.clicks + 1, screen.told)
    OBVIOUS
  <1>2. PICK g : g = Order!Call("get", o, None)
    OBVIOUS
  <1>3. Order!Send(s, {g}, orphans)
    BY <1>1, <1>2 DEF Order!Open
  <1>4. s \in OrderScreen /\ s.id = o /\ s.payment = None /\ s.cod = None /\ s.order = None
    <2>1. PICK n \in Nat, b \in BOOLEAN, f \in BOOLEAN, t \in SUBSET BuyerOrders, m \in PanelModes :
            /\ n = screen.clicks + 1 /\ b = (screen.sure \/ calls = {}) /\ f = FALSE /\ t = screen.told /\ m = "none"
      <3>1. screen \in OrderScreen
        BY DEF OrderPageInv, OrderPageOK
      <3>2. "none" \in PanelModes
        BY DEF PanelModes
      <3> QED
        BY <3>1, <3>2, OrderFields
    <2>2. PICK p \in Panels : p = [cases |-> None, active |-> 0, mode |-> m, busy |-> f]
      BY DEF Panels, PanelCases
    <2>3. Order!NoPanel = p
      BY <2>1, <2>2 DEF Order!NoPanel
    <2>4. s = [id |-> o, order |-> None, payment |-> None, cod |-> None, sent |-> f, busy |-> f,
               panel |-> p, told |-> t, sure |-> b, clicks |-> n]
      BY <1>1, <2>1, <2>3 DEF Order!Page
    <2> QED
      BY <2>4 DEF OrderScreen, ShownPayments
  <1>5. OrderCall(g) /\ g.kind = "get" /\ g.id = o /\ g.live /\ g.reply = None
    BY <1>2, OrderCallIs, PageAssumption DEF OrderCall, OrderReads
  <1>6. ASSUME NEW c \in orphans
        PROVE  OrderCall(c) /\ ~c.live
    <2>1. PICK d \in calls : c = [d EXCEPT !.live = FALSE]
      OBVIOUS
    <2>2. OrderCall(d)
      BY DEF OrderPageInv, OrderPageOK
    <2>3. PICK f \in BOOLEAN : f = FALSE
      OBVIOUS
    <2>4. c = [kind |-> d.kind, id |-> d.id, arg |-> d.arg, live |-> f, reply |-> d.reply]
      BY <2>1, <2>2, <2>3 DEF OrderCall
    <2> QED
      BY <2>2, <2>3, <2>4 DEF OrderCall
  <1>7. ASSUME \A c \in orphans, d \in {g} : ~Order!Cross(c, d)
        PROVE  OrderIsSure(s, orphans \cup {g}, held)
    <2>1. \A c \in orphans \cup {g} : c.kind \notin Order!Writes
      BY <1>5, <1>7 DEF Order!Cross, Order!Writes
    <2>2. \A c \in orphans \cup {g} : CallIsCurrent(c, s, held)
      BY <1>4, <1>5, <1>6, <2>1 DEF CallIsCurrent
    <2>3. OrderIsCurrent(s, orphans \cup {g}, held)
      BY <1>4 DEF OrderIsCurrent, PaymentIsCurrent, CodIsCurrent
    <2> QED
      BY <2>1, <2>2, <2>3 DEF OrderIsSure, Order!Cross
  <1>8. OrdersHeld(held)
    BY DEF OrderPageInv, OrderPageOK
  <1>9. PICK cs : cs = orphans
    OBVIOUS
  <1> HIDE DEF orphans
  <1> QED
    BY <1>3, <1>4, <1>5, <1>6, <1>7, <1>8, <1>9, OrderSends

LEMMA OrderPageMoved ==
  ASSUME OrderPageInv, NEW o \in BuyerOrders, Order!Move(o)
  PROVE  OrderPageInv'
  <1>1. PICK n \in Nat, f \in BOOLEAN : n = screen.clicks + 1 /\ f = FALSE
    BY OrderFields DEF OrderPageInv, OrderPageOK
  <1>2. PICK s : s = [screen EXCEPT !.clicks = n, !.id = o, !.sure = f]
    OBVIOUS
  <1>3. PICK g : g = Order!Call("get", o, None)
    OBVIOUS
  <1>4. Order!Send(s, {g}, calls)
    <2>1. screen \in OrderScreen
      BY DEF OrderPageInv, OrderPageOK
    <2>2. [Order!Clicked EXCEPT !.id = o, !.sure = FALSE] = s
      BY <1>1, <1>2, <2>1, OrderScreenIs DEF Order!Clicked
    <2> QED
      BY <1>3, <2>2 DEF Order!Move
  <1>5. s \in OrderScreen /\ s.id = o /\ ~s.sure
    BY <1>1, <1>2 DEF OrderPageInv, OrderPageOK, OrderScreen
  <1>6. OrderCall(g)
    BY <1>3, OrderCallIs, PageAssumption DEF OrderCall, OrderReads
  <1>7. OrdersHeld(held) /\ \A c \in calls : OrderCall(c)
    BY DEF OrderPageInv, OrderPageOK
  <1> QED
    BY <1>4, <1>5, <1>6, <1>7, OrderSends

(* The buttons that send a write.                                            *)
LEMMA OrderWriteIsCall ==
  ASSUME OrderPageInv, screen.order # None, NEW kind \in Order!Writes, NEW arg,
         kind \in {"otp", "verify"} => screen.order.id \in Cod, kind = "capture" => screen.order.id \notin Cod,
         kind \in {"cancel", "capture"} => arg = screen.id, kind = "request" => arg \in Nat,
         NEW w, w = Order!Call(kind, screen.order.id, arg)
  PROVE  /\ OrderCall(w) /\ w.kind = kind /\ w.live /\ w.reply = None /\ w.id = screen.order.id
         /\ w.kind \in {"cancel", "capture"} => w.arg = screen.id
  <1>1. screen.order.id \in BuyerOrders /\ screen.id \in BuyerOrders
    BY OrderScreenIs DEF OrderPageInv, OrderPageOK, OrderOpened, ShownOrders
  <1>2. kind \notin {"get", "payment", "cod", "list"}
    BY DEF Order!Writes
  <1> QED
    BY <1>1, <1>2, OrderCallIs DEF OrderCall, OrderReads

LEMMA OrderCancels ==
  ASSUME OrderPageInv, Order!Cancel
  PROVE  OrderPageInv'
  <1>1. PICK s : s = Order!Clicked
    OBVIOUS
  <1>2. PICK w : w = Order!Call("cancel", screen.order.id, screen.id)
    OBVIOUS
  <1>3. screen.order # None /\ Order!Send(s, {w}, calls)
    BY <1>1, <1>2 DEF Order!Cancel, Order!Shown
  <1>4. s \in OrderScreen /\ ShowsAlike(s, screen) /\ s.sure = screen.sure
    BY <1>1, OrderClicked DEF Order!Clicked, OrderPageInv, OrderPageOK
  <1>5. "cancel" \in Order!Writes
    BY DEF Order!Writes
  <1>6. /\ OrderCall(w) /\ w.kind \in Order!Writes /\ w.live /\ w.reply = None /\ w.id = screen.order.id
        /\ w.kind \in {"cancel", "capture"} => w.arg = screen.id
    BY <1>2, <1>3, <1>5, OrderWriteIsCall
  <1> QED
    BY <1>3, <1>4, <1>6, OrderWrites

(* The payment and the verification keep their step busy meanwhile.          *)
LEMMA OrderStepTaken ==
  ASSUME OrderPageInv, screen.order # None, NEW kind \in {"capture", "otp", "verify"}, NEW arg,
         kind \in {"otp", "verify"} => screen.order.id \in Cod,
         kind = "capture" => screen.order.id \notin Cod /\ arg = screen.id,
         Order!Send([Order!Clicked EXCEPT !.busy = TRUE], {Order!Call(kind, screen.order.id, arg)}, calls)
  PROVE  OrderPageInv'
  <1>1. PICK k : k = Order!Clicked
    OBVIOUS
  <1>2. PICK b \in BOOLEAN : b = TRUE
    OBVIOUS
  <1>3. PICK s : s = [k EXCEPT !.busy = b]
    OBVIOUS
  <1>4. PICK w : w = Order!Call(kind, screen.order.id, arg)
    OBVIOUS
  <1>5. Order!Send(s, {w}, calls)
    BY <1>1, <1>2, <1>3, <1>4
  <1>6. k \in OrderScreen /\ ShowsAlike(k, screen) /\ k.sure = screen.sure
    BY <1>1, OrderClicked DEF Order!Clicked, OrderPageInv, OrderPageOK
  <1>7. s \in OrderScreen /\ ShowsAlike(s, k) /\ s.sure = k.sure
    BY <1>3, <1>6, OrderBusy
  <1>8. ShowsAlike(s, screen)
    BY <1>6, <1>7 DEF ShowsAlike
  <1>9. kind \in Order!Writes /\ kind # "cancel" /\ kind # "request"
    BY DEF Order!Writes
  <1>10. /\ OrderCall(w) /\ w.kind \in Order!Writes /\ w.live /\ w.reply = None /\ w.id = screen.order.id
         /\ w.kind \in {"cancel", "capture"} => w.arg = screen.id
    BY <1>4, <1>9, OrderWriteIsCall
  <1> QED
    BY <1>5, <1>6, <1>7, <1>8, <1>10, OrderWrites

LEMMA OrderSteps ==
  ASSUME OrderPageInv, Order!Capture \/ Order!SendOtp \/ Order!Verify
  PROVE  OrderPageInv'
  <1>1. CASE Order!Capture
    <2>1. /\ screen.order # None /\ screen.order.id \notin Cod
          /\ Order!Send([Order!Clicked EXCEPT !.busy = TRUE], {Order!Call("capture", screen.order.id, screen.id)}, calls)
      BY <1>1 DEF Order!Capture, Order!IsOf, Order!Method, Order!Shown
    <2> QED
      BY <2>1, OrderStepTaken
  <1>2. CASE Order!SendOtp
    <2>1. /\ screen.order # None /\ screen.order.id \in Cod
          /\ Order!Send([Order!Clicked EXCEPT !.busy = TRUE], {Order!Call("otp", screen.order.id, None)}, calls)
      BY <1>2 DEF Order!SendOtp, Order!IsOf, Order!Method, Order!Shown
    <2> QED
      BY <2>1, OrderStepTaken
  <1>3. CASE Order!Verify
    <2>1. PICK code :
          /\ screen.order # None /\ screen.order.id \in Cod
          /\ Order!Send([Order!Clicked EXCEPT !.busy = TRUE], {Order!Call("verify", screen.order.id, code)}, calls)
      BY <1>3 DEF Order!Verify, Order!IsOf, Order!Method, Order!Shown
    <2> QED
      BY <2>1, OrderStepTaken
  <1> QED
    BY <1>1, <1>2, <1>3

(* So do a return and its evidence with their form.                          *)
LEMMA PanelFormSent ==
  ASSUME OrderPageInv, screen.order # None, NEW kind \in {"request", "evidence"}, NEW arg,
         kind = "request" => arg \in Nat,
         Order!Send([Order!Clicked EXCEPT !.panel.busy = TRUE], {Order!Call(kind, screen.order.id, arg)}, calls)
  PROVE  OrderPageInv'
  <1>1. PICK k : k = Order!Clicked
    OBVIOUS
  <1>2. PICK b \in BOOLEAN : b = TRUE
    OBVIOUS
  <1>3. PICK s : s = [k EXCEPT !.panel.busy = b]
    OBVIOUS
  <1>4. PICK w : w = Order!Call(kind, screen.order.id, arg)
    OBVIOUS
  <1>5. Order!Send(s, {w}, calls)
    BY <1>1, <1>2, <1>3, <1>4
  <1>6. k \in OrderScreen /\ ShowsAlike(k, screen) /\ k.sure = screen.sure
    BY <1>1, OrderClicked DEF Order!Clicked, OrderPageInv, OrderPageOK
  <1>7. s \in OrderScreen /\ ShowsAlike(s, k) /\ s.sure = k.sure
    BY <1>3, <1>6, PanelBusy
  <1>8. ShowsAlike(s, screen)
    BY <1>6, <1>7 DEF ShowsAlike
  <1>9. kind \in Order!Writes /\ kind \notin {"otp", "verify", "capture", "cancel"}
    BY DEF Order!Writes
  <1>10. /\ OrderCall(w) /\ w.kind \in Order!Writes /\ w.live /\ w.reply = None /\ w.id = screen.order.id
         /\ w.kind \in {"cancel", "capture"} => w.arg = screen.id
    BY <1>4, <1>9, OrderWriteIsCall
  <1> QED
    BY <1>5, <1>6, <1>7, <1>8, <1>10, OrderWrites

LEMMA PanelForms ==
  ASSUME OrderPageInv, Order!Submit \/ Order!Attach
  PROVE  OrderPageInv'
  <1>1. CASE Order!Submit
    <2>1. screen.order # None
      BY <1>1 DEF Order!Submit, Order!CanStart, Order!HasPanel, Order!Shown
    <2>2. PICK n \in 1 .. Units :
            Order!Send([Order!Clicked EXCEPT !.panel.busy = TRUE], {Order!Call("request", screen.order.id, n)}, calls)
      BY <1>1 DEF Order!Submit, Order!Shown
    <2>3. n \in Nat
      OBVIOUS
    <2> QED
      BY <2>1, <2>2, <2>3, PanelFormSent
  <1>2. CASE Order!Attach
    <2>1. screen.order # None
      BY <1>2 DEF Order!Attach, Order!HasPanel, Order!Shown
    <2>2. PICK n :
            Order!Send([Order!Clicked EXCEPT !.panel.busy = TRUE], {Order!Call("evidence", screen.order.id, n)}, calls)
      BY <1>2 DEF Order!Attach, Order!Shown
    <2> QED
      BY <2>1, <2>2, PanelFormSent
  <1> QED
    BY <1>1, <1>2

(* A step of the page alone.                                                 *)
LEMMA OrderTurns ==
  ASSUME OrderPageInv, NEW s \in OrderScreen, screen' = s, UNCHANGED <<calls, held>>, s.id = screen.id,
         s.order = screen.order, s.sure => OrderIsSure(s, calls, held)
  PROVE  OrderPageInv'
  <1>1. OrderPageOK(s, calls, held)
    BY DEF OrderPageInv, OrderPageOK, OrderOpened
  <1> QED
    BY <1>1 DEF OrderPageInv

LEMMA PanelFormOpened ==
  ASSUME OrderPageInv, Order!OpenForm
  PROVE  OrderPageInv'
  <1>1. PICK k : k = Order!Clicked
    OBVIOUS
  <1>2. PICK m \in PanelModes : m = "form"
    BY DEF PanelModes
  <1>3. PICK t : t = [k EXCEPT !.panel.mode = m]
    OBVIOUS
  <1>4. PICK s : s = Order!Panelled(t)
    OBVIOUS
  <1>5. screen' = s /\ UNCHANGED <<calls, held>>
    BY <1>1, <1>2, <1>3, <1>4 DEF Order!OpenForm
  <1>6. k \in OrderScreen /\ ShowsAlike(k, screen) /\ k.sure = screen.sure
    BY <1>1, OrderClicked DEF Order!Clicked, OrderPageInv, OrderPageOK
  <1>7. t \in OrderScreen /\ ShowsAlike(t, k) /\ t.sure = k.sure
    BY <1>3, <1>6, OrderMode
  <1>8. s \in OrderScreen /\ ShowsAlike(s, t) /\ s.sure = t.sure
    BY <1>4, <1>7, OrderPanelled
  <1>9. ShowsAlike(s, screen)
    BY <1>6, <1>7, <1>8 DEF ShowsAlike
  <1>10. s.sure => OrderIsSure(s, calls, held)
    BY <1>6, <1>7, <1>8, <1>9, SureAlike DEF OrderPageInv, OrderPageOK
  <1> QED
    BY <1>5, <1>8, <1>9, <1>10, OrderTurns DEF ShowsAlike

(* Another panel under the same order.                                       *)
LEMMA PanelTurns ==
  ASSUME NEW s, NEW t, NEW cs, NEW h, OrderIsSure(s, cs, h),
         t.id = s.id, t.order = s.order, t.payment = s.payment, t.cod = s.cod,
         t.order # None => PanelIsCurrent(t, cs, h)
  PROVE  OrderIsSure(t, cs, h)
  BY DEF OrderIsSure, OrderIsCurrent, CallIsCurrent, PaymentIsCurrent, CodIsCurrent, StatusIsCurrent

LEMMA EvidenceOpened ==
  ASSUME OrderPageInv, Order!OpenEvidence
  PROVE  OrderPageInv'
  <1>1. PICK k : k = Order!Clicked
    OBVIOUS
  <1>2. PICK i \in DOMAIN screen.panel.cases :
          /\ Order!Live(screen.panel.cases[i])
          /\ screen' = Order!Panelled([k EXCEPT !.panel.active = i, !.panel.mode = "evidence"])
    BY <1>1 DEF Order!OpenEvidence
  <1>3. /\ screen.panel.cases # None /\ UNCHANGED <<calls, held>>
        /\ screen.order # None /\ screen.order.status = "DELIVERED"
    BY DEF Order!OpenEvidence, Order!HasPanel, Order!Shown
  <1>4. screen \in OrderScreen /\ screen.panel \in Panels
    BY OrderFields DEF OrderPageInv, OrderPageOK
  <1>5. screen.panel.cases \in Seq(OpenCases)
    BY <1>3, <1>4 DEF Panels, PanelCases
  <1>6. i \in Nat /\ i # 0
    BY <1>5
  <1>7. PICK m \in PanelModes : m = "evidence"
    BY DEF PanelModes
  <1>8. PICK a : a = [k EXCEPT !.panel.active = i]
    OBVIOUS
  <1>9. PICK t : t = [a EXCEPT !.panel.mode = m]
    OBVIOUS
  <1>10. k \in OrderScreen /\ ShowsAlike(k, screen) /\ k.sure = screen.sure
    BY <1>1, OrderClicked DEF Order!Clicked, OrderPageInv, OrderPageOK
  <1>11. /\ a \in OrderScreen /\ a.panel.active = i /\ a.panel.cases = k.panel.cases /\ a.sure = k.sure
         /\ a.id = k.id /\ a.order = k.order /\ a.payment = k.payment /\ a.cod = k.cod
    BY <1>6, <1>8, <1>10, OrderActive
  <1>12. t \in OrderScreen /\ ShowsAlike(t, a) /\ t.sure = a.sure
    BY <1>9, <1>11, OrderMode
  <1>13. PICK s : s = Order!Panelled(t)
    OBVIOUS
  <1>14. screen' = s
    <2>1. [k EXCEPT !.panel.active = i, !.panel.mode = "evidence"] = t
      BY <1>7, <1>8, <1>9
    <2> QED
      BY <1>2, <1>13, <2>1
  <1>15. s \in OrderScreen /\ ShowsAlike(s, t) /\ s.sure = t.sure
    BY <1>12, <1>13, OrderPanelled
  <1>16. /\ s.id = screen.id /\ s.order = screen.order /\ s.payment = screen.payment /\ s.cod = screen.cod
         /\ s.sure = screen.sure /\ s.panel.active = i /\ s.panel.cases = screen.panel.cases
    BY <1>10, <1>11, <1>12, <1>15 DEF ShowsAlike
  <1>17. ASSUME s.sure PROVE OrderIsSure(s, calls, held)
    <2>1. OrderIsSure(screen, calls, held)
      BY <1>16, <1>17 DEF OrderPageInv, OrderPageOK
    <2>2. PanelIsCurrent(screen, calls, held)
      BY <1>3, <2>1 DEF OrderIsSure, OrderIsCurrent
    <2>3. ASSUME PanelIsRight(screen.panel, held[screen.id].cases)
          PROVE  PanelIsRight(s.panel, held[screen.id].cases)
      <3>1. held[screen.id].cases = screen.panel.cases
        BY <2>3 DEF PanelIsRight
      <3>2. Order!First(screen.panel.cases) # 0
        BY <1>2, <1>5, FirstOpen
      <3> QED
        BY <1>2, <1>6, <1>16, <3>1, <3>2 DEF PanelIsRight
    <2>4. PanelIsCurrent(s, calls, held)
      BY <1>3, <1>16, <2>2, <2>3 DEF PanelIsCurrent
    <2> QED
      BY <1>16, <2>1, <2>4, PanelTurns
  <1> QED
    BY <1>3, <1>14, <1>15, <1>16, <1>17, OrderTurns

(* Operators and couriers: what the page shows may be out of date.           *)
LEMMA OrderProgresses ==
  ASSUME OrderPageInv, NEW o \in BuyerOrders, Order!Progress(o)
  PROVE  OrderPageInv'
  <1>1. PICK f \in BOOLEAN : f = FALSE
    OBVIOUS
  <1>2. PICK t : t = [screen EXCEPT !.sure = f]
    OBVIOUS
  <1>3. t \in OrderScreen /\ ShowsAlike(t, screen) /\ ~t.sure
    BY <1>1, <1>2, OrderUnsure DEF OrderPageInv, OrderPageOK
  <1>4. screen' = t /\ calls' = calls
    BY <1>1, <1>2 DEF Order!Progress
  <1>5. PICK h : h = held[o]
    OBVIOUS
  <1>6. OrdersHeld(held) /\ h \in OrderRows
    BY <1>5 DEF OrderPageInv, OrderPageOK, OrdersHeld
  <1>7. PICK s \in OrderStatuses, d \in CodStatuses, p \in BOOLEAN, cs \in Seq(OpenCases) :
          h = [status |-> s, cod |-> d, paid |-> p, cases |-> cs]
    BY <1>6 DEF OrderRows
  <1>8. PICK g \in OrderRows : /\ held' = [held EXCEPT ![o] = g] /\ g.paid = p /\ g.cod = d
                               /\ g.status = s \/ p \/ d = "CONFIRMED"
    <2>1. ASSUME h.status \in DOMAIN Order!NextStatus, Order!Cleared(o),
                 held' = [held EXCEPT ![o].status = Order!NextStatus[@]]
          PROVE  \E g \in OrderRows : /\ held' = [held EXCEPT ![o] = g] /\ g.paid = p /\ g.cod = d
                                      /\ g.status = s \/ p \/ d = "CONFIRMED"
      <3>1. PICK n \in OrderStatuses : n = Order!NextStatus[s]
        BY <1>7, <2>1 DEF Order!NextStatus, OrderStatuses
      <3>2. PICK g : g = [status |-> n, cod |-> d, paid |-> p, cases |-> cs]
        OBVIOUS
      <3>3. held' = [held EXCEPT ![o] = g]
        <4>1. held' = [held EXCEPT ![o] = [held[o] EXCEPT !.status = Order!NextStatus[held[o].status]]]
          BY <2>1
        <4>2. h.status = s /\ [h EXCEPT !.status = n] = g
          BY <1>7, <3>2
        <4> QED
          BY <1>5, <3>1, <4>1, <4>2
      <3>4. p \/ d = "CONFIRMED"
        BY <1>5, <1>7, <2>1 DEF Order!Cleared
      <3>5. g \in OrderRows
        BY <1>7, <3>1, <3>2 DEF OrderRows
      <3>6. g.paid = p /\ g.cod = d
        BY <3>2
      <3> QED
        BY <3>3, <3>4, <3>5, <3>6, Zenon
    <2>2. ASSUME NEW i, NEW x \in {"REJECTED", "COMPLETED"}, held' = [held EXCEPT ![o].cases[i].status = x]
          PROVE  \E g \in OrderRows : /\ held' = [held EXCEPT ![o] = g] /\ g.paid = p /\ g.cod = d
                                      /\ g.status = s \/ p \/ d = "CONFIRMED"
      <3>1. PICK ds : ds = [cs EXCEPT ![i].status = x]
        OBVIOUS
      <3>2. ds \in Seq(OpenCases)
        BY <3>1, CaseChanges
      <3>3. PICK g : g = [status |-> s, cod |-> d, paid |-> p, cases |-> ds]
        OBVIOUS
      <3>4. held' = [held EXCEPT ![o] = g]
        <4>1. held' = [held EXCEPT ![o] = [held[o] EXCEPT !.cases = [held[o].cases EXCEPT ![i].status = x]]]
          BY <2>2
        <4>2. h.cases = cs /\ [h EXCEPT !.cases = ds] = g
          BY <1>7, <3>3
        <4> QED
          BY <1>5, <3>1, <4>1, <4>2
      <3>5. g \in OrderRows
        BY <1>7, <3>2, <3>3 DEF OrderRows
      <3>6. g.paid = p /\ g.cod = d /\ g.status = s
        BY <3>3
      <3> QED
        BY <3>4, <3>5, <3>6, Zenon
    <2> QED
      BY <1>5, <2>1, <2>2 DEF Order!Progress
  <1>9. OrdersHeld(held')
    <2>1. held' \in [BuyerOrders -> OrderRows]
      BY <1>6, <1>8 DEF OrdersHeld
    <2>2. ASSUME NEW q \in BuyerOrders \cap Cod
          PROVE  ~held'[q].paid /\ (held'[q].cod = "CONFIRMED" \/ held'[q].status \in {"PLACED", "CANCELLED"})
      <3>1. CASE q = o
        <4>1. held'[q] = g
          BY <1>6, <1>8, <3>1 DEF OrdersHeld
        <4>2. ~h.paid /\ (h.cod = "CONFIRMED" \/ h.status \in {"PLACED", "CANCELLED"})
          BY <1>5, <1>6, <2>2, <3>1 DEF OrdersHeld
        <4>3. h.paid = p /\ h.cod = d /\ h.status = s
          BY <1>7
        <4> QED
          BY <1>8, <4>1, <4>2, <4>3
      <3>2. CASE q # o
        BY <1>6, <1>8, <2>2, <3>2 DEF OrdersHeld
      <3> QED
        BY <3>1, <3>2
    <2> QED
      BY <2>1, <2>2 DEF OrdersHeld
  <1>10. OrderPageOK(t, calls, held')
    BY <1>3, <1>9 DEF OrderPageInv, OrderPageOK, OrderOpened, ShowsAlike
  <1> QED
    BY <1>4, <1>10 DEF OrderPageInv

-----------------------------------------------------------------------------
(* The server answers.                                                       *)
LEMMA AlikeItself == \A s : ShowsAlike(s, s)
  BY DEF ShowsAlike

LEMMA OrderReplyTypes ==
  ASSUME NEW c, OrderCall(c), NEW h \in OrderRows, NEW r, r = Order!Served(c, h),
         NEW e, e = [c EXCEPT !.reply = r]
  PROVE  /\ OrderCall(e) /\ e.kind = c.kind /\ e.id = c.id /\ e.arg = c.arg /\ e.live = c.live /\ e.reply = r
         /\ r # Refused => r \in OrderRows
  <1>1. e = [kind |-> c.kind, id |-> c.id, arg |-> c.arg, live |-> c.live, reply |-> r]
    <2>1. PICK k, o, a, l, p : c = [kind |-> k, id |-> o, arg |-> a, live |-> l, reply |-> p]
      BY DEF OrderCall
    <2> QED
      BY <2>1
  <1>2. r # Refused => r \in OrderRows
    BY OrderServed
  <1>3. c.kind \in {"get", "payment", "list"} => r = h
    BY DEF Order!Served
  <1>4. r \in OrderRows \cup {None, Refused}
    BY <1>2
  <1>5. /\ e.kind = c.kind /\ e.id = c.id /\ e.arg = c.arg /\ e.live = c.live /\ e.reply = r
        /\ e = [kind |-> e.kind, id |-> e.id, arg |-> e.arg, live |-> e.live, reply |-> e.reply]
    BY <1>1
  <1> QED
    BY <1>2, <1>3, <1>4, <1>5, NoRowIsAnAnswer DEF OrderCall

(* A write that was carried out, alone.                                      *)
LEMMA OrderWritten ==
  ASSUME OrderPageInv, screen.sure, NEW c \in calls, c.kind \in Order!Writes, c.reply = None,
         NEW r, r = Order!Served(c, held[c.id]), r # Refused,
         NEW e, e = [c EXCEPT !.reply = r], NEW g, g = [held EXCEPT ![c.id] = r]
  PROVE  OrderIsSure(screen, {e}, g)
  <1>1. /\ calls = {c} /\ c.live /\ c.id = screen.id /\ (c.kind \in {"cancel", "capture"} => c.arg = screen.id)
        /\ \A kinds \in SUBSET OrderReads : ~AskedFor(calls, kinds)
    BY WriteIsAlone
  <1>2. \A kinds : ~WrittenBy(calls, kinds)
    BY <1>1 DEF WrittenBy
  <1>3. /\ {"get", "payment"} \in SUBSET OrderReads /\ {"get"} \in SUBSET OrderReads
        /\ {"list"} \in SUBSET OrderReads
    BY DEF OrderReads
  <1>4. PICK h : h = held[screen.id]
    OBVIOUS
  <1>5. OrderCall(c) /\ OrdersHeld(held) /\ screen.id \in BuyerOrders
    BY <1>1 DEF OrderPageInv, OrderPageOK, OrderCall
  <1>6. h \in OrderRows /\ r = Order!Served(c, h)
    BY <1>1, <1>4, <1>5 DEF OrdersHeld
  <1>7. /\ r \in OrderRows
        /\ c.kind = "cancel" => r.status = "CANCELLED" /\ r.cod = h.cod /\ r.paid = h.paid /\ r.cases = h.cases
        /\ c.kind = "capture" => r.status = h.status /\ r.cod = h.cod /\ r.cases = h.cases
        /\ c.kind = "otp" =>
             r.status = h.status /\ h.cod # "CONFIRMED" /\ r.cod # "CONFIRMED" /\ r.paid = h.paid /\ r.cases = h.cases
        /\ c.kind = "verify" =>
             \/ r = h
             \/ /\ h.status # "CANCELLED" /\ h.cod # "CONFIRMED" /\ r.status = "CONFIRMED" /\ r.cod = "CONFIRMED"
                /\ r.paid = h.paid /\ r.cases = h.cases
        /\ c.kind \in {"request", "evidence"} => r.status = h.status /\ r.cod = h.cod /\ r.paid = h.paid
    BY <1>5, <1>6, OrderServed
  <1>8. /\ e.kind = c.kind /\ e.id = c.id /\ e.arg = c.arg /\ e.live = c.live /\ e.reply = r
        /\ r \notin {None, Refused}
    BY <1>5, <1>6, <1>7, OrderReplyTypes, NoRowIsAnAnswer
  <1>9. \A kinds : c.kind \in kinds => WrittenBy({e}, kinds)
    BY <1>8 DEF WrittenBy
  <1>10. g[screen.id] = r
    BY <1>1, <1>5 DEF OrdersHeld
  <1>11. OrderIsCurrent(screen, calls, held)
    BY DEF OrderPageInv, OrderPageOK, OrderIsSure
  <1>12. /\ screen.id \in Cod => screen.payment = None
         /\ screen.payment = None \/ screen.payment = h.paid
         /\ screen.cod = None \/ screen.cod = h.cod
    BY <1>1, <1>2, <1>3, <1>4, <1>11 DEF OrderIsCurrent, PaymentIsCurrent, CodIsCurrent
  <1>13. PaymentIsCurrent(screen, {e}, g)
    <2>1. CASE c.kind = "capture"
      BY <1>9, <1>12, <2>1 DEF PaymentIsCurrent
    <2>2. CASE c.kind # "capture"
      <3>1. r.paid = h.paid
        BY <1>7, <2>2 DEF Order!Writes
      <3> QED
        BY <1>10, <1>12, <3>1 DEF PaymentIsCurrent
    <2> QED
      BY <2>1, <2>2
  <1>14. CodIsCurrent(screen, {e}, g)
    <2>1. CASE c.kind \in {"otp", "verify"}
      BY <1>9, <2>1 DEF CodIsCurrent
    <2>2. CASE c.kind \notin {"otp", "verify"}
      <3>1. r.cod = h.cod
        BY <1>7, <2>2 DEF Order!Writes
      <3> QED
        BY <1>10, <1>12, <3>1 DEF CodIsCurrent
    <2> QED
      BY <2>1, <2>2
  <1>15. ASSUME screen.order # None
         PROVE  StatusIsCurrent(screen, {e}, g) /\ PanelIsCurrent(screen, {e}, g)
    <2>1. \/ screen.order.status = h.status
          \/ /\ screen.order.status = "PLACED" /\ h.status = "CONFIRMED" /\ h.cod = "CONFIRMED"
             /\ screen.cod = "CONFIRMED"
      BY <1>1, <1>2, <1>3, <1>4, <1>11, <1>15 DEF OrderIsCurrent, StatusIsCurrent
    <2>2. \/ screen.order.status # "DELIVERED"
          \/ PanelIsRight(screen.panel, h.cases)
      BY <1>1, <1>2, <1>3, <1>4, <1>11, <1>15 DEF OrderIsCurrent, PanelIsCurrent
    <2>3. CASE c.kind \in {"cancel", "capture"}
      <3>1. r.cases = h.cases
        BY <1>7, <2>3
      <3> QED
        BY <1>9, <1>10, <2>2, <2>3, <3>1 DEF StatusIsCurrent, PanelIsCurrent
    <2>4. CASE c.kind = "otp"
      BY <1>7, <1>10, <2>1, <2>2, <2>4 DEF StatusIsCurrent, PanelIsCurrent
    <2>5. CASE c.kind = "verify" /\ r = h
      <3>1. WrittenBy({e}, {"verify"})
        BY <1>9, <2>5
      <3> QED
        BY <1>10, <2>1, <2>2, <2>5, <3>1 DEF StatusIsCurrent, PanelIsCurrent
    <2>6. CASE c.kind = "verify" /\ r # h
      <3>1. WrittenBy({e}, {"verify"})
        BY <1>9, <2>6
      <3>2. c.id \in Cod
        BY <1>5, <2>6 DEF OrderCall
      <3>3. h.status = "PLACED"
        BY <1>1, <1>4, <1>5, <1>7, <2>6, <3>2 DEF OrdersHeld
      <3>4. screen.order.status = "PLACED" /\ r.status = "CONFIRMED" /\ r.cod = "CONFIRMED" /\ r.cases = h.cases
        BY <1>7, <2>1, <2>6, <3>3
      <3> QED
        BY <1>10, <3>1, <3>4 DEF StatusIsCurrent, PanelIsCurrent
    <2>7. CASE c.kind \in {"request", "evidence"}
      <3>1. WrittenBy({e}, {"request", "evidence"})
        BY <1>9, <2>7
      <3> QED
        BY <1>7, <1>10, <2>1, <2>7, <3>1 DEF StatusIsCurrent, PanelIsCurrent
    <2> QED
      BY <2>3, <2>4, <2>5, <2>6, <2>7 DEF Order!Writes
  <1>16. OrderIsCurrent(screen, {e}, g)
    BY <1>11, <1>13, <1>14, <1>15 DEF OrderIsCurrent
  <1>17. CallIsCurrent(e, screen, g)
    BY <1>1, <1>8, <1>10 DEF CallIsCurrent
  <1> QED
    BY <1>16, <1>17 DEF OrderIsSure

(* A read, or a refusal.                                                     *)
LEMMA OrderReadServed ==
  ASSUME OrderPageInv, screen.sure, NEW c \in calls, c.reply = None,
         NEW r, r = Refused \/ (c.kind \in OrderReads /\ r = held[c.id]),
         NEW e, e.kind = c.kind, e.id = c.id, e.arg = c.arg, e.live = c.live, e.reply = r
  PROVE  OrderIsSure(screen, (calls \ {c}) \cup {e}, held)
  <1>1. OrderIsSure(screen, calls, held)
    BY DEF OrderPageInv, OrderPageOK
  <1>2. PICK ds : ds = (calls \ {c}) \cup {e}
    OBVIOUS
  <1>3. OrderIsCurrent(screen, ds, held)
    <2>1. \A d \in calls : d.live /\ d.kind \in OrderReads => \E x \in ds : x.kind = d.kind /\ x.live
      BY <1>2
    <2>2. \A d \in calls : d.kind \in Order!Writes /\ d.reply \notin {None, Refused} =>
            \E x \in ds : x.kind = d.kind /\ x.reply \notin {None, Refused}
      BY <1>2
    <2> QED
      BY <1>1, <2>1, <2>2, AlikeItself, StaysCurrent DEF OrderIsSure
  <1>4. \A x, y \in ds : x # y => ~Order!Cross(x, y)
    BY <1>1, <1>2 DEF OrderIsSure, Order!Cross
  <1>5. CallIsCurrent(e, screen, held)
    BY <1>1 DEF OrderIsSure, CallIsCurrent
  <1> QED
    BY <1>1, <1>2, <1>3, <1>4, <1>5 DEF OrderIsSure

LEMMA OrderServes ==
  ASSUME OrderPageInv, NEW c \in calls, Order!Serve(c)
  PROVE  OrderPageInv'
  <1>1. OrderCall(c) /\ OrdersHeld(held) /\ screen \in OrderScreen /\ OrderOpened(screen, calls)
    BY DEF OrderPageInv, OrderPageOK
  <1>2. PICK h : h = held[c.id]
    OBVIOUS
  <1>3. h \in OrderRows
    BY <1>1, <1>2 DEF OrdersHeld, OrderCall
  <1>4. PICK r : r = Order!Served(c, h)
    OBVIOUS
  <1>5. PICK e : e = [c EXCEPT !.reply = r]
    OBVIOUS
  <1>6. /\ c.reply = None /\ calls' = (calls \ {c}) \cup {e} /\ screen' = screen
        /\ held' = IF r = Refused THEN held ELSE [held EXCEPT ![c.id] = r]
    BY <1>2, <1>4, <1>5 DEF Order!Serve, Order!Replied
  <1>7. /\ OrderCall(e) /\ e.kind = c.kind /\ e.id = c.id /\ e.arg = c.arg /\ e.live = c.live /\ e.reply = r
        /\ r # Refused => r \in OrderRows
    BY <1>1, <1>3, <1>4, <1>5, OrderReplyTypes
  <1>8. PICK g : g = [held EXCEPT ![c.id] = r]
    OBVIOUS
  <1>9. c.kind \in OrderReads => r = h \/ r = Refused
    BY <1>1, <1>3, <1>4, OrderServed
  <1>10. c.kind \in OrderReads => held' = held
    BY <1>1, <1>2, <1>6, <1>9 DEF OrdersHeld
  <1>11. OrdersHeld(held')
    <2>1. CASE r = Refused
      BY <1>1, <1>6, <2>1
    <2>2. CASE r # Refused
      <3>1. held' = g
        BY <1>6, <1>8, <2>2
      <3>2. g \in [BuyerOrders -> OrderRows]
        BY <1>1, <1>7, <1>8, <2>2 DEF OrdersHeld
      <3>3. ASSUME c.id \in Cod
            PROVE  ~r.paid /\ (r.cod = "CONFIRMED" \/ r.status \in {"PLACED", "CANCELLED"})
        <4>1. ~h.paid /\ (h.cod = "CONFIRMED" \/ h.status \in {"PLACED", "CANCELLED"})
          BY <1>1, <1>2, <3>3 DEF OrdersHeld, OrderCall
        <4>2. c.kind # "capture"
          BY <1>1, <3>3 DEF OrderCall
        <4>3. c.kind \in OrderReads => r = h
          BY <1>9, <2>2
        <4>4. /\ c.kind = "cancel" => r.status = "CANCELLED" /\ r.paid = h.paid
              /\ c.kind = "otp" => r.status = h.status /\ h.cod # "CONFIRMED" /\ r.paid = h.paid
              /\ c.kind = "verify" => r = h \/ (r.cod = "CONFIRMED" /\ r.paid = h.paid)
              /\ c.kind \in {"request", "evidence"} => r.status = h.status /\ r.cod = h.cod /\ r.paid = h.paid
          BY <1>1, <1>3, <1>4, <2>2, OrderServed
        <4> QED
          BY <1>1, <4>1, <4>2, <4>3, <4>4 DEF OrderCall, Order!Writes
      <3>4. ASSUME NEW q \in BuyerOrders \cap Cod
            PROVE  ~g[q].paid /\ (g[q].cod = "CONFIRMED" \/ g[q].status \in {"PLACED", "CANCELLED"})
        <4>1. CASE q = c.id
          <5>1. g[q] = r
            BY <1>1, <1>8, <4>1 DEF OrdersHeld
          <5> QED
            BY <3>3, <4>1, <5>1
        <4>2. CASE q # c.id
          <5>1. g[q] = held[q]
            BY <1>1, <1>8, <4>2 DEF OrdersHeld
          <5> QED
            BY <1>1, <5>1 DEF OrdersHeld
        <4> QED
          BY <4>1, <4>2
      <3> QED
        BY <3>1, <3>2, <3>4 DEF OrdersHeld
    <2> QED
      BY <2>1, <2>2
  <1>12. ASSUME screen.sure
         PROVE  OrderIsSure(screen, (calls \ {c}) \cup {e}, held')
    <2>1. CASE c.kind \in OrderReads
      BY <1>2, <1>6, <1>7, <1>9, <1>10, <1>12, <2>1, OrderReadServed
    <2>2. CASE c.kind \in Order!Writes /\ r = Refused
      <3>1. held' = held
        BY <1>6, <2>2
      <3> QED
        BY <1>6, <1>7, <1>12, <2>2, <3>1, OrderReadServed
    <2>3. CASE c.kind \in Order!Writes /\ r # Refused
      <3>1. held' = g
        BY <1>6, <1>8, <2>3
      <3>2. (calls \ {c}) \cup {e} = {e}
        BY <1>12, <2>3, WriteIsAlone
      <3>3. OrderIsSure(screen, {e}, g)
        BY <1>2, <1>4, <1>5, <1>6, <1>8, <1>12, <2>3, OrderWritten
      <3> QED
        BY <3>1, <3>2, <3>3
    <2> QED
      BY <1>1, <2>1, <2>2, <2>3 DEF OrderCall
  <1>13. OrderPageOK(screen, (calls \ {c}) \cup {e}, held')
    <2>1. \A d \in (calls \ {c}) \cup {e} : OrderCall(d)
      BY <1>7 DEF OrderPageInv, OrderPageOK
    <2>2. screen.id \in BuyerOrders
      BY <1>1 DEF OrderOpened
    <2> QED
      BY <1>1, <1>11, <1>12, <2>1, <2>2 DEF OrderPageOK, OrderOpened
  <1> QED
    BY <1>6, <1>13 DEF OrderPageInv

-----------------------------------------------------------------------------
(* The answers.                                                              *)
LEMMA OrderFreed ==
  ASSUME NEW c, screen \in OrderScreen
  PROVE  Order!Freed(c) \in OrderScreen /\ ShowsAlike(Order!Freed(c), screen) /\ Order!Freed(c).sure = screen.sure
  <1>1. PICK f \in BOOLEAN, b \in BOOLEAN, d \in BOOLEAN :
          /\ f = FALSE /\ b = (screen.panel.busy /\ screen.panel.mode = "evidence")
          /\ d = (screen.panel.busy /\ screen.panel.mode = "form")
    OBVIOUS
  <1>2. \/ Order!Freed(c) = screen
        \/ Order!Freed(c) = [screen EXCEPT !.busy = f]
        \/ Order!Freed(c) = [screen EXCEPT !.panel.busy = @ /\ screen.panel.mode = "evidence"]
        \/ Order!Freed(c) = [screen EXCEPT !.panel.busy = @ /\ screen.panel.mode = "form"]
    BY <1>1 DEF Order!Freed
  <1>3. /\ [screen EXCEPT !.panel.busy = @ /\ screen.panel.mode = "evidence"] = [screen EXCEPT !.panel.busy = b]
        /\ [screen EXCEPT !.panel.busy = @ /\ screen.panel.mode = "form"] = [screen EXCEPT !.panel.busy = d]
    <2>1. PICK o, p, x : screen = [id |-> screen.id, order |-> screen.order, payment |-> screen.payment, cod |-> screen.cod,
                          sent |-> screen.sent, busy |-> screen.busy, panel |-> p, told |-> screen.told,
                          sure |-> screen.sure, clicks |-> screen.clicks]
                       /\ p = [cases |-> o, active |-> p.active, mode |-> p.mode, busy |-> x]
      BY OrderScreenIs
    <2> QED
      BY <1>1, <2>1
  <1>4. CASE Order!Freed(c) = screen
    BY <1>4, AlikeItself
  <1>5. CASE Order!Freed(c) = [screen EXCEPT !.busy = f]
    BY <1>5, OrderBusy
  <1>6. CASE Order!Freed(c) = [screen EXCEPT !.panel.busy = b]
    BY <1>6, PanelBusy
  <1>7. CASE Order!Freed(c) = [screen EXCEPT !.panel.busy = d]
    BY <1>7, PanelBusy
  <1> QED
    BY <1>2, <1>3, <1>4, <1>5, <1>6, <1>7

LEMMA SureWithout ==
  ASSUME NEW t, NEW c, OrderIsSure(screen, calls, held), OrderIsCurrent(t, calls \ {c}, held), t.id = screen.id
  PROVE  OrderIsSure(t, calls \ {c}, held)
  BY DEF OrderIsSure, CallIsCurrent

(* What the page knows when a read is answered ...                           *)
LEMMA ReadAnswered ==
  ASSUME OrderPageInv, NEW c, Order!Received(c), c.kind \in OrderReads
  PROVE  /\ OrderCall(c) /\ OrdersHeld(held) /\ screen \in OrderScreen /\ c \in calls /\ c.reply \in OrderRows
         /\ c.id \in BuyerOrders /\ screen.id \in BuyerOrders
         /\ screen.sure =>
              /\ OrderIsSure(screen, calls, held)
              /\ c.id = screen.id /\ c.reply = held[screen.id] /\ held[screen.id] \in OrderRows
              /\ \A d \in calls : d.kind \in OrderReads /\ d.kind \notin Order!Writes
              /\ screen.id \in Cod => screen.payment = None
              /\ screen.payment = None \/ AskedFor(calls, {"get", "payment"}) \/ screen.payment = held[screen.id].paid
              /\ screen.cod = None \/ screen.cod = held[screen.id].cod
              /\ screen.order # None =>
                   /\ screen.order.id = screen.id
                   /\ \/ AskedFor(calls, {"get"})
                      \/ screen.order.status = held[screen.id].status
                      \/ /\ screen.order.status = "PLACED" /\ held[screen.id].status = "CONFIRMED"
                         /\ held[screen.id].cod = "CONFIRMED" /\ screen.cod = "CONFIRMED"
                   /\ \/ screen.order.status # "DELIVERED" \/ AskedFor(calls, {"list"})
                      \/ PanelIsRight(screen.panel, held[screen.id].cases)
  <1>1. c \in calls /\ c.live /\ c.reply \notin {None, Refused}
    BY DEF Order!Received
  <1>2. /\ OrderCall(c) /\ OrdersHeld(held) /\ screen \in OrderScreen
        /\ screen.sure => OrderIsSure(screen, calls, held)
        /\ screen.id \in BuyerOrders
    BY <1>1 DEF OrderPageInv, OrderPageOK, OrderOpened
  <1>3. c.reply \in OrderRows /\ c.id \in BuyerOrders
    BY <1>1, <1>2 DEF OrderCall
  <1>4. ASSUME screen.sure
        PROVE  /\ c.id = screen.id /\ c.reply = held[screen.id]
               /\ \A d \in calls : d.kind \in OrderReads /\ d.kind \notin Order!Writes
               /\ \A kinds \in SUBSET Order!Writes : ~WrittenBy(calls, kinds)
    BY <1>1, <1>4, ReadsAmongReads
  <1>5. /\ {"capture"} \in SUBSET Order!Writes /\ {"otp", "verify"} \in SUBSET Order!Writes
        /\ {"cancel", "capture"} \in SUBSET Order!Writes /\ {"verify"} \in SUBSET Order!Writes
        /\ {"request", "evidence"} \in SUBSET Order!Writes
    BY DEF Order!Writes
  <1>6. ASSUME screen.sure
        PROVE  /\ screen.id \in Cod => screen.payment = None
               /\ screen.payment = None \/ AskedFor(calls, {"get", "payment"}) \/ screen.payment = held[screen.id].paid
               /\ screen.cod = None \/ screen.cod = held[screen.id].cod
    BY <1>2, <1>4, <1>5, <1>6 DEF OrderIsSure, OrderIsCurrent, PaymentIsCurrent, CodIsCurrent
  <1>7. ASSUME screen.sure, screen.order # None
        PROVE  /\ screen.order.id = screen.id
               /\ \/ AskedFor(calls, {"get"})
                  \/ screen.order.status = held[screen.id].status
                  \/ /\ screen.order.status = "PLACED" /\ held[screen.id].status = "CONFIRMED"
                     /\ held[screen.id].cod = "CONFIRMED" /\ screen.cod = "CONFIRMED"
    BY <1>2, <1>4, <1>5, <1>7 DEF OrderIsSure, OrderIsCurrent, StatusIsCurrent
  <1>8. ASSUME screen.sure, screen.order # None
        PROVE  \/ screen.order.status # "DELIVERED" \/ AskedFor(calls, {"list"})
               \/ PanelIsRight(screen.panel, held[screen.id].cases)
    BY <1>2, <1>4, <1>5, <1>8 DEF OrderIsSure, OrderIsCurrent, PanelIsCurrent
  <1>9. screen.sure => held[screen.id] \in OrderRows
    BY <1>2 DEF OrdersHeld
  <1> QED
    BY <1>1, <1>2, <1>3, <1>4, <1>6, <1>7, <1>8, <1>9

LEMMA StillAsked ==
  ASSUME NEW c, NEW kinds, c.kind \notin kinds, AskedFor(calls, kinds)
  PROVE  AskedFor(calls \ {c}, kinds)
  BY DEF AskedFor

LEMMA OrderPaymentAnswered ==
  ASSUME OrderPageInv, NEW c, Order!AnswerPayment(c)
  PROVE  OrderPageInv'
  <1>1. PICK p : p = c.reply.paid
    OBVIOUS
  <1>2. PICK t : t = [screen EXCEPT !.payment = p]
    OBVIOUS
  <1>3. Order!Received(c) /\ c.kind = "payment" /\ Order!Show(t, c)
    BY <1>1, <1>2 DEF Order!AnswerPayment
  <1>4. c.kind \in OrderReads
    BY <1>3 DEF OrderReads
  <1>5. /\ OrderCall(c) /\ OrdersHeld(held) /\ screen \in OrderScreen /\ c \in calls /\ c.reply \in OrderRows
    BY <1>3, <1>4, ReadAnswered
  <1>6. p \in BOOLEAN
    BY <1>1, <1>5 DEF OrderRows
  <1>7. /\ t \in OrderScreen /\ t.id = screen.id /\ t.order = screen.order /\ t.cod = screen.cod
        /\ t.panel = screen.panel /\ t.payment = p /\ t.sure = screen.sure
    BY <1>2, <1>5, <1>6 DEF OrderScreen, ShownPayments
  <1>8. ASSUME t.sure
        PROVE  OrderIsSure(t, calls \ {c}, held)
    <2>1. screen.sure
      BY <1>7, <1>8
    <2>2. PaymentIsCurrent(t, calls \ {c}, held)
      <3>1. c.id = screen.id /\ c.reply = held[screen.id]
        BY <1>3, <1>4, <2>1, ReadAnswered
      <3>2. c.id \notin Cod
        BY <1>3, <1>5 DEF OrderCall
      <3> QED
        BY <1>1, <1>7, <3>1, <3>2 DEF PaymentIsCurrent
    <2>3. CodIsCurrent(t, calls \ {c}, held)
      BY <1>3, <1>4, <1>7, <2>1, ReadAnswered DEF CodIsCurrent
    <2>4. t.order # None => /\ t.order.id = t.id /\ StatusIsCurrent(t, calls \ {c}, held)
                            /\ PanelIsCurrent(t, calls \ {c}, held)
      <3>1. /\ AskedFor(calls, {"get"}) => AskedFor(calls \ {c}, {"get"})
            /\ AskedFor(calls, {"list"}) => AskedFor(calls \ {c}, {"list"})
        BY <1>3, StillAsked
      <3> QED
        BY <1>3, <1>4, <1>7, <2>1, <3>1, ReadAnswered DEF StatusIsCurrent, PanelIsCurrent
    <2>5. OrderIsCurrent(t, calls \ {c}, held)
      BY <2>2, <2>3, <2>4 DEF OrderIsCurrent
    <2>6. OrderIsSure(screen, calls, held)
      BY <1>3, <1>4, <2>1, ReadAnswered
    <2> QED
      BY <1>7, <2>5, <2>6, SureWithout
  <1> QED
    BY <1>3, <1>5, <1>7, <1>8, OrderShows

LEMMA OrderCodAnswered ==
  ASSUME OrderPageInv, NEW c, Order!AnswerCod(c)
  PROVE  OrderPageInv'
  <1>1. PICK p : p = c.reply.cod
    OBVIOUS
  <1>2. PICK t : t = [screen EXCEPT !.cod = p]
    OBVIOUS
  <1>3. Order!Received(c) /\ c.kind = "cod" /\ Order!Show(t, c)
    BY <1>1, <1>2 DEF Order!AnswerCod
  <1>4. c.kind \in OrderReads
    BY <1>3 DEF OrderReads
  <1>5. /\ OrderCall(c) /\ OrdersHeld(held) /\ screen \in OrderScreen /\ c \in calls /\ c.reply \in OrderRows
    BY <1>3, <1>4, ReadAnswered
  <1>6. p \in CodStatuses
    BY <1>1, <1>5 DEF OrderRows
  <1>7. /\ t \in OrderScreen /\ t.id = screen.id /\ t.order = screen.order /\ t.payment = screen.payment
        /\ t.panel = screen.panel /\ t.cod = p /\ t.sure = screen.sure
    BY <1>2, <1>5, <1>6 DEF OrderScreen
  <1>8. ASSUME t.sure
        PROVE  OrderIsSure(t, calls \ {c}, held)
    <2>1. screen.sure
      BY <1>7, <1>8
    <2>2. c.id = screen.id /\ c.reply = held[screen.id]
      BY <1>3, <1>4, <2>1, ReadAnswered
    <2>3. /\ AskedFor(calls, {"get"}) => AskedFor(calls \ {c}, {"get"})
          /\ AskedFor(calls, {"list"}) => AskedFor(calls \ {c}, {"list"})
          /\ AskedFor(calls, {"get", "payment"}) => AskedFor(calls \ {c}, {"get", "payment"})
      BY <1>3, StillAsked
    <2>4. PaymentIsCurrent(t, calls \ {c}, held)
      BY <1>3, <1>4, <1>7, <2>1, <2>3, ReadAnswered DEF PaymentIsCurrent
    <2>5. CodIsCurrent(t, calls \ {c}, held)
      BY <1>1, <1>7, <2>2 DEF CodIsCurrent
    <2>6. t.order # None => /\ t.order.id = t.id /\ StatusIsCurrent(t, calls \ {c}, held)
                            /\ PanelIsCurrent(t, calls \ {c}, held)
      BY <1>1, <1>3, <1>4, <1>7, <2>1, <2>2, <2>3, ReadAnswered DEF StatusIsCurrent, PanelIsCurrent
    <2>7. OrderIsCurrent(t, calls \ {c}, held)
      BY <2>4, <2>5, <2>6 DEF OrderIsCurrent
    <2>8. OrderIsSure(screen, calls, held)
      BY <1>3, <1>4, <2>1, ReadAnswered
    <2> QED
      BY <1>7, <2>7, <2>8, SureWithout
  <1> QED
    BY <1>3, <1>5, <1>7, <1>8, OrderShows

LEMMA OrderListAnswered ==
  ASSUME OrderPageInv, NEW c, Order!AnswerList(c)
  PROVE  OrderPageInv'
  <1>1. PICK cs : cs = c.reply.cases
    OBVIOUS
  <1>2. PICK s : s = [screen EXCEPT !.panel.cases = cs, !.panel.active = Order!First(cs)]
    OBVIOUS
  <1>3. PICK t : t = IF Order!HasPanel(screen.order) THEN Order!Panelled(s) ELSE screen
    OBVIOUS
  <1>4. Order!Received(c) /\ c.kind = "list" /\ Order!Show(t, c)
    BY <1>1, <1>2, <1>3 DEF Order!AnswerList, Order!Shown
  <1>5. c.kind \in OrderReads
    BY <1>4 DEF OrderReads
  <1>6. /\ OrderCall(c) /\ OrdersHeld(held) /\ screen \in OrderScreen /\ c \in calls /\ c.reply \in OrderRows
    BY <1>4, <1>5, ReadAnswered
  <1>7. cs \in Seq(OpenCases)
    BY <1>1, <1>6 DEF OrderRows
  <1>8. /\ s \in OrderScreen /\ s.id = screen.id /\ s.order = screen.order /\ s.payment = screen.payment
        /\ s.cod = screen.cod /\ s.sure = screen.sure /\ s.panel.cases = cs /\ s.panel.active = Order!First(cs)
    <2>1. PICK i \in Nat : i = Order!First(cs)
      BY <1>7, FirstOpen
    <2>2. screen.panel \in Panels /\ cs \in PanelCases
      BY <1>6, <1>7, OrderFields DEF PanelCases
    <2>3. PICK p : p = [screen.panel EXCEPT !.cases = cs]
      OBVIOUS
    <2>4. p \in Panels /\ p.cases = cs
      BY <2>2, <2>3, PanelChanges
    <2>5. PICK q : q = [p EXCEPT !.active = i]
      OBVIOUS
    <2>6. q \in Panels /\ q.cases = cs /\ q.active = i
      BY <2>4, <2>5, PanelChanges
    <2>7. PICK x : x = [screen EXCEPT !.panel = q]
      OBVIOUS
    <2>8. s = x
      BY <1>2, <2>1, <2>3, <2>5, <2>7
    <2> QED
      BY <1>6, <2>1, <2>6, <2>7, <2>8, OrderPanel
  <1>9. /\ t \in OrderScreen /\ t.id = screen.id /\ t.order = screen.order /\ t.payment = screen.payment
        /\ t.cod = screen.cod /\ t.sure = screen.sure
        /\ Order!HasPanel(screen.order) => t.panel.cases = cs /\ t.panel.active = Order!First(cs)
    BY <1>3, <1>6, <1>8, OrderPanelled DEF ShowsAlike
  <1>10. ASSUME t.sure
         PROVE  OrderIsSure(t, calls \ {c}, held)
    <2>1. screen.sure
      BY <1>9, <1>10
    <2>2. c.id = screen.id /\ c.reply = held[screen.id]
      BY <1>4, <1>5, <2>1, ReadAnswered
    <2>3. /\ AskedFor(calls, {"get"}) => AskedFor(calls \ {c}, {"get"})
          /\ AskedFor(calls, {"get", "payment"}) => AskedFor(calls \ {c}, {"get", "payment"})
      BY <1>4, StillAsked
    <2>4. PaymentIsCurrent(t, calls \ {c}, held)
      BY <1>4, <1>5, <1>9, <2>1, <2>3, ReadAnswered DEF PaymentIsCurrent
    <2>5. CodIsCurrent(t, calls \ {c}, held)
      BY <1>4, <1>5, <1>9, <2>1, ReadAnswered DEF CodIsCurrent
    <2>6. t.order # None => t.order.id = t.id /\ StatusIsCurrent(t, calls \ {c}, held)
      BY <1>4, <1>5, <1>9, <2>1, <2>3, ReadAnswered DEF StatusIsCurrent
    <2>7. ASSUME t.order # None, t.order.status = "DELIVERED"
          PROVE  PanelIsRight(t.panel, held[t.id].cases)
      <3>1. t.panel.cases = cs /\ t.panel.active = Order!First(cs) /\ cs = held[t.id].cases
        BY <1>1, <1>9, <2>2, <2>7 DEF Order!HasPanel
      <3>2. Order!First(cs) # 0 => Order!Live(cs[Order!First(cs)])
        BY <1>7, FirstOpen
      <3> QED
        BY <3>1, <3>2 DEF PanelIsRight
    <2>8. OrderIsCurrent(t, calls \ {c}, held)
      BY <2>4, <2>5, <2>6, <2>7 DEF OrderIsCurrent, PanelIsCurrent
    <2>9. OrderIsSure(screen, calls, held)
      BY <1>4, <1>5, <2>1, ReadAnswered
    <2> QED
      BY <1>9, <2>8, <2>9, SureWithout
  <1> QED
    BY <1>4, <1>6, <1>9, <1>10, OrderShows

(* The order itself: the page asks for what goes with it.                    *)
LEMMA OrderGetAnswered ==
  ASSUME OrderPageInv, NEW c, Order!AnswerGet(c)
  PROVE  OrderPageInv'
  <1> DEFINE o == [id |-> c.id, status |-> c.reply.status]
             kept == Order!HasPanel(screen.order) /\ Order!HasPanel(o)
             same == screen.order # None /\ Order!Method(screen.order.id) = Order!Method(c.id)
             lists == Order!HasPanel(o) /\ ~(kept /\ screen.order.id = c.id)
             pay == Order!Call(IF c.id \in Cod THEN "cod" ELSE "payment", c.id, None)
             list == Order!Call("list", c.id, None)
             new == {pay} \cup (IF lists THEN {list} ELSE {})
  <1>1. PICK x : x = o
    OBVIOUS
  <1>2. PICK p : p = IF kept THEN screen.panel ELSE Order!NoPanel
    OBVIOUS
  <1>3. PICK a \in BOOLEAN, b \in BOOLEAN : a = (screen.sent /\ same) /\ b = (screen.busy /\ same)
    OBVIOUS
  <1>4. PICK s : s = [screen EXCEPT !.order = x, !.panel = p, !.sent = a, !.busy = b]
    OBVIOUS
  <1>5. Order!Received(c) /\ c.kind = "get" /\ Order!Send(s, new, calls \ {c})
    BY <1>1, <1>2, <1>3, <1>4 DEF Order!AnswerGet, Order!Shown
  <1>6. c.kind \in OrderReads
    BY <1>5 DEF OrderReads
  <1>7. /\ OrderCall(c) /\ OrdersHeld(held) /\ screen \in OrderScreen /\ c \in calls /\ c.reply \in OrderRows
        /\ c.id \in BuyerOrders /\ screen.id \in BuyerOrders
    BY <1>5, <1>6, ReadAnswered
  <1>8. x \in ShownOrders /\ x.id = c.id /\ x.status = c.reply.status
    BY <1>1, <1>7 DEF ShownOrders, OrderRows
  <1>9. p \in Panels
    <2>1. Order!NoPanel \in Panels
      <3>1. PICK m \in PanelModes, f \in BOOLEAN, n \in PanelCases : m = "none" /\ f = FALSE /\ n = None
        BY DEF PanelModes, PanelCases
      <3>2. Order!NoPanel = [cases |-> n, active |-> 0, mode |-> m, busy |-> f]
        BY <3>1 DEF Order!NoPanel
      <3> QED
        BY <3>2 DEF Panels
    <2> QED
      BY <1>2, <1>7, <2>1, OrderFields
  <1>10. /\ s \in OrderScreen /\ s.id = screen.id /\ s.order = x /\ s.payment = screen.payment /\ s.cod = screen.cod
         /\ s.panel = p /\ s.sure = screen.sure
    BY <1>3, <1>4, <1>7, <1>8, <1>9 DEF OrderScreen
  <1>11. PICK y : y = pay
    OBVIOUS
  <1>12. /\ OrderCall(y) /\ y.id = c.id /\ y.live /\ y.reply = None /\ y.kind \in OrderReads
         /\ c.id \notin Cod => y.kind = "payment"
    <2>1. CASE c.id \in Cod
      BY <1>7, <1>11, <2>1, OrderCallIs, PageAssumption DEF OrderCall, OrderReads
    <2>2. CASE c.id \notin Cod
      BY <1>7, <1>11, <2>2, OrderCallIs, PageAssumption DEF OrderCall, OrderReads
    <2> QED
      BY <2>1, <2>2
  <1>13. PICK z : z = list
    OBVIOUS
  <1>14. OrderCall(z) /\ z.id = c.id /\ z.live /\ z.reply = None /\ z.kind = "list"
    BY <1>7, <1>13, OrderCallIs, PageAssumption DEF OrderCall, OrderReads
  <1>15. PICK ds : ds = new
    OBVIOUS
  <1>16. /\ \A d \in ds : OrderCall(d) /\ d.id = c.id /\ d.reply = None /\ d.kind \in OrderReads
         /\ y \in ds /\ (lists => z \in ds)
    <2>1. "list" \in OrderReads
      BY DEF OrderReads
    <2>2. \A d \in ds : d = y \/ d = z
      BY <1>11, <1>13, <1>15
    <2>3. y \in ds /\ (lists => z \in ds)
      BY <1>11, <1>13, <1>15
    <2> QED
      BY <1>12, <1>14, <2>1, <2>2, <2>3
  <1>17. PICK lack \in BOOLEAN : lack = lists
    OBVIOUS
  <1>18. ~lack /\ x.status = "DELIVERED" /\ x # None =>
           p = screen.panel /\ screen.order # None /\ screen.order.status = "DELIVERED"
    BY <1>1, <1>2, <1>17 DEF Order!HasPanel
  <1>19. Order!Send(s, ds, calls \ {c}) /\ (lack => z \in ds)
    BY <1>5, <1>15, <1>16, <1>17
  <1> HIDE DEF o, kept, same, lists, pay, list, new
  <1>20. ASSUME s.sure
         PROVE  OrderIsSure(s, (calls \ {c}) \cup ds, held)
    <2>1. screen.sure
      BY <1>10, <1>20
    <2>2. PICK es : es = (calls \ {c}) \cup ds
      OBVIOUS
    <2>3. /\ OrderIsSure(screen, calls, held) /\ c.id = screen.id /\ c.reply = held[screen.id]
          /\ \A d \in calls : d.kind \in OrderReads /\ d.kind \notin Order!Writes
      BY <1>5, <1>6, <2>1, ReadAnswered
    <2>4. \A d \in es : d.kind \notin Order!Writes
      BY <1>16, <2>2, <2>3 DEF OrderReads, Order!Writes
    <2>5. \A d \in es : CallIsCurrent(d, s, held)
      <3>1. SUFFICES ASSUME NEW d \in es PROVE CallIsCurrent(d, s, held)
        OBVIOUS
      <3>2. CASE d \in calls
        BY <1>10, <2>3, <3>2 DEF OrderIsSure, CallIsCurrent
      <3>3. CASE d \in ds
        BY <1>10, <1>16, <2>3, <2>4, <3>3 DEF CallIsCurrent, Order!Writes
      <3> QED
        BY <2>2, <3>2, <3>3
    <2>6. PaymentIsCurrent(s, es, held)
      <3>1. CASE c.id \in Cod
        BY <1>5, <1>6, <1>10, <2>1, <2>3, <3>1, ReadAnswered DEF PaymentIsCurrent
      <3>2. CASE c.id \notin Cod
        <4>1. y \in es /\ y.live /\ y.kind = "payment"
          BY <1>12, <1>16, <2>2, <3>2
        <4>2. AskedFor(es, {"get", "payment"})
          BY <4>1 DEF AskedFor
        <4> QED
          BY <1>10, <2>3, <3>2, <4>2 DEF PaymentIsCurrent
      <3> QED
        BY <3>1, <3>2
    <2>7. CodIsCurrent(s, es, held)
      BY <1>5, <1>6, <1>10, <2>1, ReadAnswered DEF CodIsCurrent
    <2>8. s.order.id = s.id /\ StatusIsCurrent(s, es, held)
      BY <1>8, <1>10, <2>3 DEF StatusIsCurrent
    <2>9. s.order # None => PanelIsCurrent(s, es, held)
      <3>1. CASE s.order.status # "DELIVERED"
        BY <3>1 DEF PanelIsCurrent
      <3>2. CASE lack
        <4>1. z \in es /\ z.live /\ z.kind = "list"
          BY <1>14, <1>19, <2>2, <3>2
        <4>2. AskedFor(es, {"list"})
          BY <4>1 DEF AskedFor
        <4> QED
          BY <4>2 DEF PanelIsCurrent
      <3>3. ASSUME s.order.status = "DELIVERED", s.order # None, ~lack
            PROVE  PanelIsCurrent(s, es, held)
        <4>1. s.panel = screen.panel /\ screen.order # None /\ screen.order.status = "DELIVERED"
          BY <1>10, <1>18, <3>3
        <4>2. AskedFor(calls, {"list"}) \/ PanelIsRight(screen.panel, held[screen.id].cases)
          BY <1>5, <1>6, <2>1, <4>1, ReadAnswered
        <4>3. AskedFor(calls, {"list"}) => AskedFor(es, {"list"})
          BY <1>5, <2>2 DEF AskedFor
        <4> QED
          BY <1>10, <4>1, <4>2, <4>3 DEF PanelIsCurrent
      <3> QED
        BY <3>1, <3>2, <3>3
    <2>10. OrderIsCurrent(s, es, held)
      BY <2>6, <2>7, <2>8, <2>9 DEF OrderIsCurrent
    <2> QED
      BY <2>2, <2>4, <2>5, <2>10 DEF OrderIsSure, Order!Cross
  <1>21. \A d \in ds \cup (calls \ {c}) : OrderCall(d)
    BY <1>16 DEF OrderPageInv, OrderPageOK
  <1> QED
    BY <1>7, <1>10, <1>19, <1>20, <1>21, OrderSends

(* ... and what it knows when a write is.                                    *)
LEMMA WriteAnswered ==
  ASSUME OrderPageInv, NEW c, Order!Received(c), c.kind \in Order!Writes
  PROVE  /\ OrderCall(c) /\ OrdersHeld(held) /\ screen \in OrderScreen /\ c \in calls /\ c.reply \in OrderRows
         /\ c.id \in BuyerOrders /\ screen.id \in BuyerOrders
         /\ screen.sure =>
              /\ OrderIsSure(screen, calls, held)
              /\ calls = {c} /\ c.id = screen.id /\ c.reply = held[screen.id]
              /\ c.kind \in {"cancel", "capture"} => c.arg = screen.id
              /\ \A kinds \in SUBSET OrderReads : ~AskedFor(calls, kinds)
              /\ \A kinds : c.kind \notin kinds => ~WrittenBy(calls, kinds)
  <1>1. c \in calls /\ c.live /\ c.reply \notin {None, Refused}
    BY DEF Order!Received
  <1>2. /\ OrderCall(c) /\ OrdersHeld(held) /\ screen \in OrderScreen
        /\ screen.sure => OrderIsSure(screen, calls, held)
        /\ screen.id \in BuyerOrders
    BY <1>1 DEF OrderPageInv, OrderPageOK, OrderOpened
  <1>3. c.reply \in OrderRows /\ c.id \in BuyerOrders
    BY <1>1, <1>2 DEF OrderCall
  <1> QED
    BY <1>1, <1>2, <1>3, WriteIsAlone

(* The verification is shown as answered, and was the only write.            *)
LEMMA CodShown ==
  ASSUME OrderPageInv, NEW c, Order!Received(c), c.kind \in {"otp", "verify"},
         NEW t \in OrderScreen, t.id = screen.id, t.order = screen.order, t.payment = screen.payment,
         t.cod = c.reply.cod, t.panel.cases = screen.panel.cases, t.panel.active = screen.panel.active,
         t.sure = screen.sure, Order!Show(t, c)
  PROVE  OrderPageInv'
  <1>1. c.kind \in Order!Writes
    BY DEF Order!Writes
  <1>2. c \in calls
    BY DEF Order!Received
  <1>3. ASSUME t.sure PROVE OrderIsSure(t, calls \ {c}, held)
    <2>1. /\ OrderIsSure(screen, calls, held)
          /\ calls = {c} /\ c.id = screen.id /\ c.reply = held[screen.id]
          /\ \A kinds \in SUBSET OrderReads : ~AskedFor(calls, kinds)
          /\ \A kinds : c.kind \notin kinds => ~WrittenBy(calls, kinds)
      BY <1>1, <1>3, WriteAnswered
    <2>2. /\ {"get", "payment"} \in SUBSET OrderReads /\ {"get"} \in SUBSET OrderReads
          /\ {"list"} \in SUBSET OrderReads
      BY DEF OrderReads
    <2>3. PaymentIsCurrent(t, calls \ {c}, held)
      BY <2>1, <2>2 DEF OrderIsSure, OrderIsCurrent, PaymentIsCurrent
    <2>4. CodIsCurrent(t, calls \ {c}, held)
      BY <2>1 DEF CodIsCurrent
    <2>5. t.order # None => t.order.id = t.id /\ StatusIsCurrent(t, calls \ {c}, held)
      BY <2>1, <2>2 DEF OrderIsSure, OrderIsCurrent, StatusIsCurrent
    <2>6. t.order # None => PanelIsCurrent(t, calls \ {c}, held)
      BY <2>1, <2>2 DEF OrderIsSure, OrderIsCurrent, PanelIsCurrent, PanelIsRight
    <2>7. OrderIsCurrent(t, calls \ {c}, held)
      BY <2>3, <2>4, <2>5, <2>6 DEF OrderIsCurrent
    <2> QED
      BY <2>1, <2>7, SureWithout
  <1> QED
    BY <1>2, <1>3, OrderShows

LEMMA OrderOtpAnswered ==
  ASSUME OrderPageInv, NEW c, Order!AnswerOtp(c) \/ Order!AnswerVerify(c)
  PROVE  OrderPageInv'
  <1>1. PICK s : s = Order!Freed(c)
    OBVIOUS
  <1>2. PICK p : p = c.reply.cod
    OBVIOUS
  <1>3. PICK b \in BOOLEAN : b = Order!IsOf("COD")
    BY DEF Order!IsOf
  <1>4. PICK m : m = s.told \cup {c.id}
    OBVIOUS
  <1>5. PICK t : \/ c.kind = "otp" /\ t = [s EXCEPT !.cod = p, !.sent = b]
                 \/ c.kind = "verify" /\ t = [s EXCEPT !.cod = p, !.told = m]
    BY DEF Order!AnswerOtp, Order!AnswerVerify
  <1>6. Order!Received(c) /\ c.kind \in {"otp", "verify"}
    BY DEF Order!AnswerOtp, Order!AnswerVerify
  <1>7. c.kind \in Order!Writes
    BY <1>6 DEF Order!Writes
  <1>8. Order!Show(t, c)
    BY <1>1, <1>2, <1>3, <1>4, <1>5 DEF Order!AnswerOtp, Order!AnswerVerify
  <1>9. OrderCall(c) /\ screen \in OrderScreen /\ c.reply \in OrderRows /\ c.id \in BuyerOrders
    BY <1>6, <1>7, WriteAnswered
  <1>10. p \in CodStatuses
    BY <1>2, <1>9 DEF OrderRows
  <1>11. s \in OrderScreen /\ ShowsAlike(s, screen) /\ s.sure = screen.sure
    BY <1>1, <1>9, OrderFreed
  <1>12. m \in SUBSET BuyerOrders
    BY <1>4, <1>9, <1>11, OrderFields
  <1>13. t \in OrderScreen /\ t.id = s.id /\ t.order = s.order /\ t.payment = s.payment /\ t.cod = p
         /\ t.panel = s.panel /\ t.sure = s.sure
    <2>1. CASE t = [s EXCEPT !.cod = p, !.sent = b]
      BY <1>10, <1>11, <2>1 DEF OrderScreen
    <2>2. CASE t = [s EXCEPT !.cod = p, !.told = m]
      BY <1>10, <1>11, <1>12, <2>2 DEF OrderScreen
    <2> QED
      BY <1>5, <2>1, <2>2
  <1> QED
    BY <1>2, <1>6, <1>8, <1>11, <1>13, CodShown DEF ShowsAlike

(* The order is loaded again once it was cancelled or paid.                  *)
LEMMA OrderWriteAnswered ==
  ASSUME OrderPageInv, NEW c, Order!AnswerOrder(c)
  PROVE  OrderPageInv'
  <1>1. PICK s : s = Order!Freed(c)
    OBVIOUS
  <1>2. PICK g : g = Order!Call("get", c.arg, None)
    OBVIOUS
  <1>3. Order!Received(c) /\ c.kind \in {"cancel", "capture"} /\ Order!Send(s, {g}, calls \ {c})
    BY <1>1, <1>2 DEF Order!AnswerOrder, Order!Load
  <1>4. c.kind \in Order!Writes
    BY <1>3 DEF Order!Writes
  <1>5. OrderCall(c) /\ OrdersHeld(held) /\ screen \in OrderScreen /\ screen.id \in BuyerOrders
    BY <1>3, <1>4, WriteAnswered
  <1>6. s \in OrderScreen /\ ShowsAlike(s, screen) /\ s.sure = screen.sure
    BY <1>1, <1>5, OrderFreed
  <1>7. OrderCall(g) /\ g.kind = "get" /\ g.id = c.arg /\ g.live /\ g.reply = None
    BY <1>2, <1>3, <1>5, OrderCallIs, PageAssumption DEF OrderCall, OrderReads
  <1>8. ASSUME s.sure
        PROVE  OrderIsSure(s, (calls \ {c}) \cup {g}, held)
    <2>1. /\ OrderIsSure(screen, calls, held)
          /\ calls = {c} /\ c.id = screen.id /\ c.arg = screen.id
          /\ \A kinds \in SUBSET OrderReads : ~AskedFor(calls, kinds)
          /\ \A kinds : c.kind \notin kinds => ~WrittenBy(calls, kinds)
      BY <1>3, <1>4, <1>6, <1>8, WriteAnswered
    <2>2. (calls \ {c}) \cup {g} = {g}
      BY <2>1
    <2>3. AskedFor({g}, {"get", "payment"}) /\ AskedFor({g}, {"get"})
      BY <1>7 DEF AskedFor
    <2>4. {"list"} \in SUBSET OrderReads
      BY DEF OrderReads
    <2>5. PaymentIsCurrent(s, {g}, held)
      BY <1>6, <2>1, <2>3 DEF OrderIsSure, OrderIsCurrent, PaymentIsCurrent, ShowsAlike
    <2>6. CodIsCurrent(s, {g}, held)
      BY <1>3, <1>6, <2>1 DEF OrderIsSure, OrderIsCurrent, CodIsCurrent, ShowsAlike
    <2>7. StatusIsCurrent(s, {g}, held)
      BY <2>3 DEF StatusIsCurrent
    <2>8. s.order # None => s.order.id = s.id /\ PanelIsCurrent(s, {g}, held)
      BY <1>3, <1>6, <2>1, <2>4 DEF OrderIsSure, OrderIsCurrent, PanelIsCurrent, PanelIsRight, ShowsAlike
    <2>9. OrderIsCurrent(s, {g}, held)
      BY <2>5, <2>6, <2>7, <2>8 DEF OrderIsCurrent
    <2>10. CallIsCurrent(g, s, held)
      BY <1>6, <1>7, <2>1 DEF CallIsCurrent, ShowsAlike
    <2> QED
      BY <2>2, <2>9, <2>10 DEF OrderIsSure
  <1>9. s.id \in BuyerOrders /\ \A d \in {g} \cup (calls \ {c}) : OrderCall(d)
    BY <1>5, <1>6, <1>7 DEF OrderPageInv, OrderPageOK, ShowsAlike
  <1> QED
    BY <1>3, <1>5, <1>6, <1>8, <1>9, OrderSends

(* So are the cases once one was opened or has its evidence.                 *)
LEMMA OrderCaseAnswered ==
  ASSUME OrderPageInv, NEW c, Order!AnswerCase(c)
  PROVE  OrderPageInv'
  <1>1. PICK d : d = Order!Freed(c)
    OBVIOUS
  <1>2. PICK n : n = Len(c.reply.cases)
    OBVIOUS
  <1>3. PICK m \in PanelModes : m = "evidence"
    BY DEF PanelModes
  <1>4. PICK t : t = [d EXCEPT !.panel.active = n, !.panel.mode = m]
    OBVIOUS
  <1>5. PICK s : s = IF c.kind = "request" /\ Order!HasPanel(screen.order) THEN Order!Panelled(t) ELSE d
    OBVIOUS
  <1>6. PICK g : g = Order!Call("list", c.id, None)
    OBVIOUS
  <1>7. Order!Received(c) /\ c.kind \in {"request", "evidence"} /\ Order!Send(s, {g}, calls \ {c})
    BY <1>1, <1>2, <1>3, <1>4, <1>5, <1>6 DEF Order!AnswerCase, Order!Shown
  <1>8. c.kind \in Order!Writes
    BY <1>7 DEF Order!Writes
  <1>9. /\ OrderCall(c) /\ OrdersHeld(held) /\ screen \in OrderScreen /\ screen.id \in BuyerOrders
        /\ c.id \in BuyerOrders /\ c.reply \in OrderRows
    BY <1>7, <1>8, WriteAnswered
  <1>10. d \in OrderScreen /\ ShowsAlike(d, screen) /\ d.sure = screen.sure
    BY <1>1, <1>9, OrderFreed
  <1>11. n \in Nat
    <2>1. PICK cs \in Seq(OpenCases) : cs = c.reply.cases
      BY <1>9 DEF OrderRows
    <2> QED
      BY <1>2, <2>1
  <1>12. /\ t \in OrderScreen /\ t.sure = d.sure
         /\ t.id = d.id /\ t.order = d.order /\ t.payment = d.payment /\ t.cod = d.cod
    <2>1. PICK a : a = [d EXCEPT !.panel.active = n]
      OBVIOUS
    <2>2. /\ a \in OrderScreen /\ a.sure = d.sure
          /\ a.id = d.id /\ a.order = d.order /\ a.payment = d.payment /\ a.cod = d.cod
      BY <1>10, <1>11, <2>1, OrderActive
    <2>3. t = [a EXCEPT !.panel.mode = m]
      BY <1>4, <2>1
    <2> QED
      BY <2>2, <2>3, OrderMode DEF ShowsAlike
  <1>13. /\ s \in OrderScreen /\ s.sure = screen.sure
         /\ s.id = screen.id /\ s.order = screen.order /\ s.payment = screen.payment /\ s.cod = screen.cod
    BY <1>5, <1>10, <1>12, OrderPanelled DEF ShowsAlike
  <1>14. OrderCall(g) /\ g.kind = "list" /\ g.id = c.id /\ g.live /\ g.reply = None
    BY <1>6, <1>9, OrderCallIs, PageAssumption DEF OrderCall, OrderReads
  <1>15. ASSUME s.sure
         PROVE  OrderIsSure(s, (calls \ {c}) \cup {g}, held)
    <2>1. /\ OrderIsSure(screen, calls, held)
          /\ calls = {c} /\ c.id = screen.id
          /\ \A kinds \in SUBSET OrderReads : ~AskedFor(calls, kinds)
          /\ \A kinds : c.kind \notin kinds => ~WrittenBy(calls, kinds)
      BY <1>7, <1>8, <1>13, <1>15, WriteAnswered
    <2>2. (calls \ {c}) \cup {g} = {g}
      BY <2>1
    <2>3. AskedFor({g}, {"list"})
      BY <1>14 DEF AskedFor
    <2>4. {"get", "payment"} \in SUBSET OrderReads /\ {"get"} \in SUBSET OrderReads
      BY DEF OrderReads
    <2>5. PaymentIsCurrent(s, {g}, held)
      BY <1>7, <1>13, <2>1, <2>4 DEF OrderIsSure, OrderIsCurrent, PaymentIsCurrent
    <2>6. CodIsCurrent(s, {g}, held)
      BY <1>7, <1>13, <2>1 DEF OrderIsSure, OrderIsCurrent, CodIsCurrent
    <2>7. s.order # None => s.order.id = s.id /\ StatusIsCurrent(s, {g}, held)
      BY <1>7, <1>13, <2>1, <2>4 DEF OrderIsSure, OrderIsCurrent, StatusIsCurrent
    <2>8. PanelIsCurrent(s, {g}, held)
      BY <2>3 DEF PanelIsCurrent
    <2>9. OrderIsCurrent(s, {g}, held)
      BY <2>5, <2>6, <2>7, <2>8 DEF OrderIsCurrent
    <2>10. CallIsCurrent(g, s, held)
      BY <1>13, <1>14, <2>1 DEF CallIsCurrent
    <2> QED
      BY <2>2, <2>9, <2>10 DEF OrderIsSure
  <1>16. s.id \in BuyerOrders /\ \A x \in {g} \cup (calls \ {c}) : OrderCall(x)
    BY <1>9, <1>13, <1>14 DEF OrderPageInv, OrderPageOK
  <1> QED
    BY <1>7, <1>9, <1>13, <1>15, <1>16, OrderSends

(* A refusal shows nothing new, and a call that is lost leaves doubt.        *)
LEMMA OrderRefused ==
  ASSUME OrderPageInv, NEW c, Order!Refuse(c)
  PROVE  OrderPageInv'
  <1>1. PICK s : s = Order!Freed(c)
    OBVIOUS
  <1>2. c \in calls /\ (c.reply = Refused \/ (~c.live /\ c.reply # None)) /\ Order!Show(s, c)
    BY <1>1 DEF Order!Refuse
  <1>3. screen \in OrderScreen /\ OrderCall(c)
    BY <1>2 DEF OrderPageInv, OrderPageOK
  <1>4. s \in OrderScreen /\ ShowsAlike(s, screen) /\ s.sure = screen.sure
    BY <1>1, <1>3, OrderFreed
  <1>5. ASSUME s.sure PROVE OrderIsSure(s, calls \ {c}, held)
    <2>1. OrderIsSure(screen, calls, held)
      BY <1>4, <1>5 DEF OrderPageInv, OrderPageOK
    <2>2. PICK ds : ds = calls \ {c}
      OBVIOUS
    <2>3. CASE c.kind = "cod"
      <3>1. CodIsCurrent(s, ds, held)
        <4>1. WrittenBy(calls, {"otp", "verify"}) => WrittenBy(ds, {"otp", "verify"})
          BY <2>2, <2>3 DEF WrittenBy
        <4> QED
          BY <1>4, <2>1, <4>1 DEF OrderIsSure, OrderIsCurrent, CodIsCurrent, ShowsAlike
      <3>2. PaymentIsCurrent(s, ds, held)
        <4>1. /\ AskedFor(calls, {"get", "payment"}) => AskedFor(ds, {"get", "payment"})
              /\ WrittenBy(calls, {"capture"}) => WrittenBy(ds, {"capture"})
          BY <2>2, <2>3 DEF WrittenBy, AskedFor
        <4> QED
          BY <1>4, <2>1, <4>1 DEF OrderIsSure, OrderIsCurrent, PaymentIsCurrent, ShowsAlike
      <3>3. s.order # None => s.order.id = s.id /\ StatusIsCurrent(s, ds, held)
        <4>1. /\ AskedFor(calls, {"get"}) => AskedFor(ds, {"get"})
              /\ WrittenBy(calls, {"cancel", "capture"}) => WrittenBy(ds, {"cancel", "capture"})
              /\ WrittenBy(calls, {"verify"}) => WrittenBy(ds, {"verify"})
          BY <2>2, <2>3 DEF WrittenBy, AskedFor
        <4> QED
          BY <1>4, <2>1, <4>1 DEF OrderIsSure, OrderIsCurrent, StatusIsCurrent, ShowsAlike
      <3>4. s.order # None => PanelIsCurrent(s, ds, held)
        <4>1. /\ AskedFor(calls, {"list"}) => AskedFor(ds, {"list"})
              /\ WrittenBy(calls, {"request", "evidence"}) => WrittenBy(ds, {"request", "evidence"})
          BY <2>2, <2>3 DEF WrittenBy, AskedFor
        <4> QED
          BY <1>4, <2>1, <4>1 DEF OrderIsSure, OrderIsCurrent, PanelIsCurrent, PanelIsRight, ShowsAlike
      <3>5. OrderIsCurrent(s, ds, held) /\ s.id = screen.id
        BY <1>4, <3>1, <3>2, <3>3, <3>4 DEF OrderIsCurrent, ShowsAlike
      <3> QED
        BY <2>1, <2>2, <3>5, SureWithout
    <2>4. CASE c.kind # "cod"
      <3>1. c.live => c.kind \notin OrderReads
        BY <1>2, <1>3, <2>4 DEF OrderCall, OrderReads
      <3>2. c.kind \in Order!Writes => c.reply \in {None, Refused}
        BY <1>2, <2>1 DEF OrderIsSure, CallIsCurrent
      <3>3. \A d \in calls : d.live /\ d.kind \in OrderReads => \E x \in ds : x.kind = d.kind /\ x.live
        BY <2>2, <3>1
      <3>4. \A d \in calls : d.kind \in Order!Writes /\ d.reply \notin {None, Refused} =>
              \E x \in ds : x.kind = d.kind /\ x.reply \notin {None, Refused}
        BY <2>2, <3>2
      <3>5. OrderIsCurrent(s, ds, held)
        BY <1>4, <2>1, <3>3, <3>4, StaysCurrent DEF OrderIsSure
      <3>6. s.id = screen.id
        BY <1>4 DEF ShowsAlike
      <3> QED
        BY <2>1, <2>2, <3>5, <3>6, SureWithout
    <2> QED
      BY <2>3, <2>4
  <1> QED
    BY <1>2, <1>4, <1>5, OrderShows DEF ShowsAlike

LEMMA OrderLost ==
  ASSUME OrderPageInv, NEW c, Order!Lose(c)
  PROVE  OrderPageInv'
  <1>1. PICK s : s = Order!Freed(c)
    OBVIOUS
  <1>2. PICK f \in BOOLEAN : f = FALSE
    OBVIOUS
  <1>3. PICK t : t = [s EXCEPT !.sure = f]
    OBVIOUS
  <1>4. c \in calls /\ Order!Show(t, c) /\ screen \in OrderScreen
    BY <1>1, <1>2, <1>3 DEF Order!Lose, OrderPageInv, OrderPageOK
  <1>5. s \in OrderScreen /\ ShowsAlike(s, screen)
    BY <1>1, <1>4, OrderFreed
  <1>6. t \in OrderScreen /\ ShowsAlike(t, s) /\ ~t.sure
    BY <1>2, <1>3, <1>5, OrderUnsure
  <1> QED
    BY <1>4, <1>5, <1>6, OrderShows DEF ShowsAlike

-----------------------------------------------------------------------------
LEMMA OrderPageStep == OrderPageInv /\ Order!Next => OrderPageInv'
  <1> SUFFICES ASSUME OrderPageInv, Order!Next PROVE OrderPageInv'
    OBVIOUS
  <1>1. ASSUME NEW o \in BuyerOrders, Order!Open(o) \/ Order!Move(o) \/ Order!Progress(o) PROVE OrderPageInv'
    BY <1>1, OrderPageOpened, OrderPageMoved, OrderProgresses
  <1>2. ASSUME \/ Order!Cancel \/ Order!Capture \/ Order!SendOtp \/ Order!Verify
               \/ Order!OpenForm \/ Order!Submit \/ Order!Attach \/ Order!OpenEvidence
        PROVE  OrderPageInv'
    BY <1>2, OrderCancels, OrderSteps, PanelForms, PanelFormOpened, EvidenceOpened
  <1>3. ASSUME NEW c \in calls, Order!Serve(c) PROVE OrderPageInv'
    BY <1>3, OrderServes
  <1>4. ASSUME NEW c \in calls,
               \/ Order!AnswerGet(c) \/ Order!AnswerPayment(c) \/ Order!AnswerCod(c) \/ Order!AnswerOtp(c)
               \/ Order!AnswerVerify(c) \/ Order!AnswerOrder(c) \/ Order!AnswerList(c) \/ Order!AnswerCase(c)
        PROVE  OrderPageInv'
    BY <1>4, OrderGetAnswered, OrderPaymentAnswered, OrderCodAnswered, OrderOtpAnswered, OrderWriteAnswered,
       OrderListAnswered, OrderCaseAnswered
  <1>5. ASSUME NEW c \in calls, Order!Refuse(c) \/ Order!Lose(c) PROVE OrderPageInv'
    BY <1>5, OrderRefused, OrderLost
  <1> QED
    BY <1>1, <1>2, <1>3, <1>4, <1>5 DEF Order!Next

LEMMA OrderPageInit == Order!Init => OrderPageInv
  <1> SUFFICES ASSUME Order!Init PROVE OrderPageInv
    OBVIOUS
  <1>1. screen = Order!Page(None, TRUE, 0, {}) /\ calls = {}
    BY DEF Order!Init
  <1>2. PICK b \in BOOLEAN, f \in BOOLEAN, m \in PanelModes, n \in PanelCases :
          b = TRUE /\ f = FALSE /\ m = "none" /\ n = None
    BY DEF PanelModes, PanelCases
  <1>3. PICK p \in Panels : p = [cases |-> n, active |-> 0, mode |-> m, busy |-> f]
    BY DEF Panels
  <1>4. PICK t : t = [id |-> None, order |-> None, payment |-> None, cod |-> None, sent |-> f, busy |-> f,
                      panel |-> p, told |-> {}, sure |-> b, clicks |-> 0]
    OBVIOUS
  <1>5. screen = t
    BY <1>1, <1>2, <1>3, <1>4 DEF Order!Page, Order!NoPanel
  <1>6. t \in OrderScreen /\ t.order = None /\ t.payment = None /\ t.cod = None
    BY <1>4 DEF OrderScreen, ShownPayments
  <1>7. ASSUME NEW o \in BuyerOrders
        PROVE  held[o] \in OrderRows /\ (o \in Cod => ~held[o].paid
                                           /\ (held[o].cod = "CONFIRMED" \/ held[o].status \in {"PLACED", "CANCELLED"}))
    <2>1. held[o] \in {Order!Fresh} \cup {Order!Underway(o, s) : s \in {"PACKED", "DELIVERED"}}
      BY DEF Order!Init
    <2>2. PICK cs \in Seq(OpenCases) : cs = <<>>
      <3>1. \A S : <<>> \in Seq(S)
        OBVIOUS
      <3> QED
        BY <3>1, Zenon
    <2>3. CASE held[o] = Order!Fresh
      <3>1. held[o] = [status |-> "PLACED", cod |-> "NONE", paid |-> f, cases |-> cs]
        BY <1>2, <2>2, <2>3 DEF Order!Fresh
      <3> QED
        BY <1>2, <3>1 DEF OrderRows, OrderStatuses, CodStatuses
    <2>4. ASSUME NEW s \in {"PACKED", "DELIVERED"}, held[o] = Order!Underway(o, s)
          PROVE  held[o] \in OrderRows /\ (o \in Cod => ~held[o].paid /\ held[o].cod = "CONFIRMED")
      <3>1. PICK d \in CodStatuses, q \in BOOLEAN :
              d = (IF o \in Cod THEN "CONFIRMED" ELSE "NONE") /\ q = (o \notin Cod)
        BY DEF CodStatuses
      <3>2. held[o] = [status |-> s, cod |-> d, paid |-> q, cases |-> cs]
        BY <2>2, <2>4, <3>1 DEF Order!Underway
      <3>3. s \in OrderStatuses
        BY DEF OrderStatuses
      <3>4. held[o].paid = q /\ held[o].cod = d
        BY <3>2
      <3>5. held[o] \in OrderRows
        BY <3>2, <3>3 DEF OrderRows
      <3> QED
        BY <3>1, <3>4, <3>5
    <2> QED
      BY <2>1, <2>3, <2>4
  <1>8. OrdersHeld(held)
    <2> DEFINE S == {Order!Fresh} \cup {Order!Underway(o, s) : o \in BuyerOrders, s \in {"PACKED", "DELIVERED"}}
    <2>1. held \in [BuyerOrders -> S]
      BY DEF Order!Init
    <2> HIDE DEF S
    <2>2. held \in [BuyerOrders -> OrderRows]
      BY <1>7, <2>1
    <2> QED
      BY <1>7, <2>2 DEF OrdersHeld
  <1>9. OrderIsSure(t, {}, held)
    BY <1>6 DEF OrderIsSure, OrderIsCurrent, PaymentIsCurrent, CodIsCurrent
  <1>10. OrderPageOK(t, {}, held)
    <2>1. OrderOpened(t, {})
      BY <1>6 DEF OrderOpened
    <2> QED
      BY <1>6, <1>8, <1>9, <2>1 DEF OrderPageOK
  <1> QED
    BY <1>1, <1>5, <1>10 DEF OrderPageInv

LEMMA OrderPageStays ==
  ASSUME OrderPageInv, UNCHANGED clientVars
  PROVE  OrderPageInv'
  BY DEF OrderPageInv, clientVars

LEMMA OrderPageKeeps == OrderPageInv => Order!ShowsTheOrder
  <1> SUFFICES ASSUME OrderPageInv, Order!Settled PROVE Order!ShowsTheOrder
    BY DEF Order!ShowsTheOrder
  <1>1. calls = {} /\ screen.sure /\ screen.order # None
    BY DEF Order!Settled, Order!Shown
  <1>2. OrderIsSure(screen, calls, held)
    BY <1>1 DEF OrderPageInv, OrderPageOK
  <1>3. \A kinds : ~AskedFor(calls, kinds) /\ ~WrittenBy(calls, kinds)
    BY <1>1 DEF AskedFor, WrittenBy
  <1>4. screen.order.id = screen.id
    BY <1>1, <1>2 DEF OrderIsSure, OrderIsCurrent
  <1>5. /\ screen.payment # None => screen.payment = held[screen.id].paid
        /\ screen.cod # None => screen.cod = held[screen.id].cod
    BY <1>2, <1>3 DEF OrderIsSure, OrderIsCurrent, PaymentIsCurrent, CodIsCurrent
  <1>6. \/ screen.order.status = held[screen.id].status
        \/ screen.order.status = "PLACED" /\ held[screen.id].status = "CONFIRMED" /\ screen.cod = "CONFIRMED"
    BY <1>1, <1>2, <1>3 DEF OrderIsSure, OrderIsCurrent, StatusIsCurrent
  <1>7. screen.order.status = "DELIVERED" => PanelIsRight(screen.panel, held[screen.id].cases)
    BY <1>1, <1>2, <1>3 DEF OrderIsSure, OrderIsCurrent, PanelIsCurrent
  <1> QED
    BY <1>4, <1>5, <1>6, <1>7 DEF Order!ShowsTheOrder, Order!Shown, Order!HasPanel, PanelIsRight

-----------------------------------------------------------------------------
(* The other pages of the storefront *)

ShopTags == Shop!Tags \cup {All}
ShopRows == [id : Ids, tag : ShopTags, on : BOOLEAN]
ShopPages == Shop!Pages \cup {None, "signin"}
ShopTopics == {"list", "hearts", "bell"}

ShopBells == [unread : SUBSET Ids, count : Nat]

ShopScreen ==
  [user : BOOLEAN, page : ShopPages, tag : ShopTags, list : {None} \cup SUBSET ShopRows, number : Nat,
   loading : BOOLEAN, hearts : SUBSET Ids, bell : ShopBells, sure : SUBSET ShopTopics,
   removed : SUBSET Ids, clicks : Nat]

ShopReads == {"me", "list", "ids", "bell"}

(* What is answered where there is nothing to tell.                          *)
Done == TRUE

ShopCall(c) ==
  /\ c = [kind |-> c.kind, arg |-> c.arg, live |-> c.live, reply |-> c.reply]
  /\ c.kind \in ShopReads \cup Shop!Writes /\ c.live \in BOOLEAN
  /\ c.kind = "list" => /\ c.arg = [page |-> c.arg.page, tag |-> c.arg.tag, number |-> c.arg.number]
                        /\ c.arg.number \in Nat /\ c.reply \in {None, Refused} \cup SUBSET ShopRows
  /\ c.kind \in {"ids", "bell"} => c.reply \in {None} \cup SUBSET Ids
  /\ c.kind \in {"heart", "unsave"} => c.arg.id \in Ids /\ (c.kind = "unsave" => ~c.arg.on)
  /\ c.kind = "readInBell" => \E n \in Ids : c.arg = {n}
  /\ c.kind = "write" => /\ c.arg.tag \in ShopTags /\ c.arg.page \in {"reviews", "addresses"}
                         /\ c.arg.page = "reviews" => c.arg.op # "default"
  /\ c.kind \notin {"list", "ids", "bell", "write"} => c.reply \in {None, Done}

ShopHeld(h) ==
  /\ h = [wish |-> h.wish, home |-> h.home, reviews |-> h.reviews, notes |-> h.notes, addresses |-> h.addresses]
  /\ h.wish \in SUBSET Ids /\ h.home \in SUBSET ShopRows /\ h.reviews \in SUBSET ShopRows
  /\ h.notes \in SUBSET ShopRows /\ h.addresses \in SUBSET ShopRows

(* Before the token was looked up there is no page, and no other call; what  *)
(* acts on a list has one.                                                   *)
ShopStarted(s, cs) ==
  /\ s.page = None => ~s.user /\ \E c \in cs : cs = {c}
  /\ \A c \in cs : c.kind = "me" <=> s.page = None
  /\ \A c \in cs : c.live /\ c.kind \in {"unsave", "read"} => s.list \in SUBSET ShopRows

(* No two calls under way about the topic cross.                             *)
NoneCross(cs, topic) ==
  \A c, d \in cs : c # d /\ topic \in Shop!Topic(c) /\ topic \in Shop!Topic(d) => ~Shop!Cross(c, d)

Here(s) == [page |-> s.page, tag |-> s.tag, number |-> s.number]

ListCallIsCurrent(c, s, h) ==
  /\ c.kind = "list" =>
       /\ c.reply \notin {None, Refused} => c.reply = Shop!Listing(h, c.arg)
       /\ c.live => c.arg.page = s.page /\ c.arg.tag = s.tag
  /\ c.kind = "heart" => s.page = "home"
  /\ c.kind = "unsave" => c.live /\ s.page = "wishlist"
  /\ c.kind = "read" => c.live /\ s.page = "notes"
  /\ c.kind = "write" => c.live /\ c.arg.page = s.page /\ c.arg.tag = s.tag
  /\ c.kind = "login" => c.live /\ s.page = "signin"

ListIsCurrent(s, cs, h) ==
  \/ s.page \in {None, "signin"}
  \/ \E c \in cs : c.kind = "list" /\ c.live
  \/ \E c \in cs : c.kind \in {"write", "readInBell"} /\ c.reply # None
  \/ \E c \in cs : /\ c.kind = "unsave" /\ c.reply # None
                   /\ {r \in s.list : r.id # c.arg.id} = Shop!Listing(h, Here(s))
  \/ \E c \in cs : c.kind = "read" /\ c.reply # None /\ Shop!MarkedRead(s.list, c.arg) = Shop!Listing(h, Here(s))
  \/ (\A c \in cs : c.kind \in {"unsave", "read"} => c.reply = None) /\ s.list = Shop!Listing(h, Here(s))

ListIsSure(s, cs, h) ==
  NoneCross(cs, "list") /\ (\A c \in cs : ListCallIsCurrent(c, s, h)) /\ ListIsCurrent(s, cs, h)

Toggled(hearts, arg) == IF arg.on THEN hearts \cup {arg.id} ELSE hearts \ {arg.id}

HeartsAreCurrent(s, cs, h) ==
  \/ \E c \in cs : c.kind = "ids"
  \/ \E c \in cs : c.kind = "heart" /\ c.reply # None /\ Toggled(s.hearts, c.arg) \ s.removed = h.wish \ s.removed
  \/ \E c \in cs : /\ c.kind = "unsave" /\ c.reply # None
                   /\ s.hearts \ (s.removed \cup {c.arg.id}) = h.wish \ (s.removed \cup {c.arg.id})
  \/ (\A c \in cs : c.kind \in {"heart", "unsave"} => c.reply = None) /\ s.hearts \ s.removed = h.wish \ s.removed

HeartsAreSure(s, cs, h) ==
  /\ NoneCross(cs, "hearts")
  /\ \A c \in cs : /\ c.kind = "ids" => c.reply \in {None, h.wish}
                   /\ c.kind = "login" => ~s.user
  /\ s.user => HeartsAreCurrent(s, cs, h)

BellCounts(s, cs, h) ==
  /\ s.bell.count = Cardinality(s.bell.unread) /\ Shop!Unread(h.notes) \in SUBSET s.bell.unread
  /\ \A c \in cs : c.kind = "readInBell" =>
       /\ c.arg \in SUBSET s.bell.unread
       /\ c.reply # None => Shop!Unread(h.notes) \cap c.arg = {}

BellIsSure(s, cs, h) ==
  /\ NoneCross(cs, "bell")
  /\ \A c \in cs : /\ c.kind = "bell" => c.reply \in {None, Shop!Unread(h.notes)}
                   /\ c.kind = "login" => ~s.user
  /\ s.user => (\E c \in cs : c.kind = "bell") \/ BellCounts(s, cs, h)

ShopPageOK(s, cs, h) ==
  /\ s \in ShopScreen /\ (\A c \in cs : ShopCall(c)) /\ ShopHeld(h) /\ ShopStarted(s, cs)
  /\ "list" \in s.sure => ListIsSure(s, cs, h)
  /\ "hearts" \in s.sure => HeartsAreSure(s, cs, h)
  /\ "bell" \in s.sure => BellIsSure(s, cs, h)

ShopPageInv == ShopPageOK(screen, calls, held)

LEMMA DoneIsAnAnswer == Done # None /\ Done # Refused
  <1>1. TRUE # None /\ TRUE # Refused
    BY ShopAssumption
  <1> QED
    BY <1>1, Zenon DEF Done

LEMMA ShopCount == \A S : Shop!Cardinality(S) = Cardinality(S)
  BY Zenon DEF Shop!Cardinality, Cardinality

LEMMA SetsAreAnswers == \A S \in SUBSET Ids : S # None /\ S # Refused
  BY ShopAssumption

(* What a call is about.                                                     *)
LEMMA TopicIs ==
  ASSUME NEW c, c.kind \in ShopReads \cup Shop!Writes
  PROVE  /\ "list" \in Shop!Topic(c) <=> c.kind # "bell"
         /\ "hearts" \in Shop!Topic(c) <=> c.kind \in {"ids", "heart", "unsave", "me", "login"}
         /\ "bell" \in Shop!Topic(c) <=> c.kind \in {"bell", "read", "readInBell", "me", "login"}
  <1>1. CASE c.kind \in {"ids", "heart", "unsave"}
    BY <1>1 DEF Shop!Topic
  <1>2. CASE c.kind = "bell"
    BY <1>2 DEF Shop!Topic
  <1>3. CASE c.kind \in {"read", "readInBell"}
    BY <1>3 DEF Shop!Topic
  <1>4. CASE c.kind \in {"list", "write"}
    BY <1>4 DEF Shop!Topic
  <1>5. CASE c.kind \in {"me", "login"}
    BY <1>5 DEF Shop!Topic
  <1> QED
    BY <1>1, <1>2, <1>3, <1>4, <1>5 DEF ShopReads, Shop!Writes

(* No call of the first lot crosses one of the second on the topic.          *)
ApartOn(topic, others, new) ==
  \A x \in others, y \in new : topic \in Shop!Topic(x) /\ topic \in Shop!Topic(y) => ~Shop!Cross(x, y)

LEMMA SentApart ==
  ASSUME NEW others, NEW new, NEW topic, topic \notin Shop!Crossed(new, others)
  PROVE  ApartOn(topic, others, new)
  <1> SUFFICES ASSUME NEW x \in others, NEW y \in new, topic \in Shop!Topic(x), topic \in Shop!Topic(y),
                      Shop!Cross(x, y)
               PROVE  FALSE
    BY DEF ApartOn
  <1>1. <<x, y>> \in {p \in others \X new : Shop!Cross(p[1], p[2])}
    OBVIOUS
  <1>2. topic \in Shop!Topic(<<x, y>>[1]) \cap Shop!Topic(<<x, y>>[2])
    OBVIOUS
  <1>3. topic \in UNION {Shop!Topic(z[1]) \cap Shop!Topic(z[2]) : z \in {p \in others \X new : Shop!Cross(p[1], p[2])}}
    BY <1>1, <1>2, Zenon
  <1> QED
    BY <1>3 DEF Shop!Crossed

LEMMA CrossBothWays == \A x, y : Shop!Cross(x, y) => Shop!Cross(y, x)
  BY DEF Shop!Cross

LEMMA NoneCrossTogether ==
  ASSUME NEW others, NEW new, NEW topic, NoneCross(others, topic), NoneCross(new, topic), ApartOn(topic, others, new)
  PROVE  NoneCross(others \cup new, topic)
  BY CrossBothWays DEF NoneCross, ApartOn

LEMMA NoneCrossFewer ==
  ASSUME NEW cs, NEW ds \in SUBSET cs, NEW topic, NoneCross(cs, topic)
  PROVE  NoneCross(ds, topic)
  BY DEF NoneCross

LEMMA NoneCrossAlone ==
  ASSUME NEW c, NEW topic
  PROVE  NoneCross({c}, topic)
  BY DEF NoneCross

(* Where no two calls cross, a write is the only one about its topic.        *)
LEMMA WriteAlone ==
  ASSUME NEW cs, NEW c \in cs, NEW topic, NoneCross(cs, topic), c.kind \in Shop!Writes, topic \in Shop!Topic(c)
  PROVE  \A d \in cs : d # c => topic \notin Shop!Topic(d)
  BY DEF NoneCross, Shop!Cross

LEMMA WriteApart ==
  ASSUME NEW others, NEW new, NEW c \in new, NEW topic, ApartOn(topic, others, new), c.kind \in Shop!Writes,
         topic \in Shop!Topic(c)
  PROVE  \A d \in others : topic \notin Shop!Topic(d)
  BY DEF ApartOn, Shop!Cross

(* The calls of a page that is left.                                         *)
LEMMA OrphanIs ==
  ASSUME NEW cs, \A c \in cs : ShopCall(c), NEW d \in Shop!Orphans(cs)
  PROVE  \E c \in cs : /\ d = [c EXCEPT !.live = FALSE] /\ d.kind = c.kind /\ d.arg = c.arg /\ d.reply = c.reply
                       /\ ~d.live /\ ShopCall(d) /\ Shop!Topic(d) = Shop!Topic(c)
  <1>1. PICK c \in cs : d = [c EXCEPT !.live = FALSE]
    BY DEF Shop!Orphans
  <1>2. PICK f \in BOOLEAN : f = FALSE
    OBVIOUS
  <1>3. ShopCall(c)
    OBVIOUS
  <1>4. d = [kind |-> c.kind, arg |-> c.arg, live |-> f, reply |-> c.reply]
    <2>1. PICK k, a, l, r : c = [kind |-> k, arg |-> a, live |-> l, reply |-> r]
      BY <1>3 DEF ShopCall
    <2> QED
      BY <1>1, <1>2, <2>1
  <1>5. /\ d.kind = c.kind /\ d.arg = c.arg /\ d.reply = c.reply /\ ~d.live /\ d.live \in BOOLEAN
        /\ d = [kind |-> d.kind, arg |-> d.arg, live |-> d.live, reply |-> d.reply]
    BY <1>2, <1>4
  <1>6. ShopCall(d)
    BY <1>3, <1>5 DEF ShopCall
  <1>7. Shop!Topic(d) = Shop!Topic(c)
    BY <1>5 DEF Shop!Topic
  <1> QED
    BY <1>1, <1>5, <1>6, <1>7

LEMMA OrphansOfNone == Shop!Orphans({}) = {}
  BY DEF Shop!Orphans

LEMMA NoneCrossOrphans ==
  ASSUME NEW cs, \A c \in cs : ShopCall(c), NEW topic, NoneCross(cs, topic)
  PROVE  NoneCross(Shop!Orphans(cs), topic)
  <1> SUFFICES ASSUME NEW x \in Shop!Orphans(cs), NEW y \in Shop!Orphans(cs), x # y,
                      topic \in Shop!Topic(x), topic \in Shop!Topic(y), Shop!Cross(x, y)
               PROVE  FALSE
    BY DEF NoneCross
  <1>1. PICK c \in cs : /\ x = [c EXCEPT !.live = FALSE] /\ x.kind = c.kind /\ x.arg = c.arg
                        /\ Shop!Topic(x) = Shop!Topic(c)
    BY OrphanIs
  <1>2. PICK d \in cs : /\ y = [d EXCEPT !.live = FALSE] /\ y.kind = d.kind /\ y.arg = d.arg
                        /\ Shop!Topic(y) = Shop!Topic(d)
    BY OrphanIs
  <1>3. Shop!Cross(c, d)
    BY <1>1, <1>2 DEF Shop!Cross
  <1>4. c # d
    BY <1>1, <1>2
  <1> QED
    BY <1>1, <1>2, <1>3, <1>4 DEF NoneCross

-----------------------------------------------------------------------------
(* What each topic depends on.                                               *)
ListAlike(t, s) == t.page = s.page /\ t.tag = s.tag /\ t.number = s.number /\ t.list = s.list
HeartsAlike(t, s) == t.user = s.user /\ t.hearts = s.hearts /\ t.removed = s.removed
BellAlike(t, s) == t.user = s.user /\ t.bell = s.bell

(* More calls, which are not answered yet.                                   *)
LEMMA ListGrows ==
  ASSUME NEW s, NEW t, NEW cs, NEW new, NEW h, ListAlike(t, s), ListIsSure(s, cs, h), ApartOn("list", cs, new),
         NoneCross(new, "list"), \A c \in new : ListCallIsCurrent(c, t, h) /\ c.reply = None
  PROVE  ListIsSure(t, cs \cup new, h)
  <1>1. NoneCross(cs \cup new, "list")
    BY NoneCrossTogether DEF ListIsSure
  <1>2. \A c \in cs : ListCallIsCurrent(c, t, h)
    BY DEF ListIsSure, ListCallIsCurrent, ListAlike
  <1>3. ListIsCurrent(t, cs \cup new, h)
    BY DEF ListIsSure, ListIsCurrent, ListAlike, Here
  <1> QED
    BY <1>1, <1>2, <1>3 DEF ListIsSure

LEMMA HeartsGrow ==
  ASSUME NEW s, NEW t, NEW cs, NEW new, NEW h, HeartsAlike(t, s), HeartsAreSure(s, cs, h),
         ApartOn("hearts", cs, new), NoneCross(new, "hearts"), \A c \in new : c.kind # "login" /\ c.reply = None
  PROVE  HeartsAreSure(t, cs \cup new, h)
  <1>1. NoneCross(cs \cup new, "hearts")
    BY NoneCrossTogether DEF HeartsAreSure
  <1>2. \A c \in cs \cup new : /\ c.kind = "ids" => c.reply \in {None, h.wish}
                               /\ c.kind = "login" => ~t.user
    BY DEF HeartsAreSure, HeartsAlike
  <1>3. HeartsAreCurrent(s, cs, h) => HeartsAreCurrent(t, cs \cup new, h)
    BY DEF HeartsAreCurrent, HeartsAlike
  <1> QED
    BY <1>1, <1>2, <1>3 DEF HeartsAreSure, HeartsAlike

LEMMA BellGrows ==
  ASSUME NEW s, NEW t, NEW cs, NEW new, NEW h, BellAlike(t, s), BellIsSure(s, cs, h),
         ApartOn("bell", cs, new), NoneCross(new, "bell"), \A c \in new : c.kind # "login" /\ c.reply = None,
         \A c \in new : c.kind = "readInBell" => c.arg \in SUBSET s.bell.unread
  PROVE  BellIsSure(t, cs \cup new, h)
  <1>1. NoneCross(cs \cup new, "bell")
    BY NoneCrossTogether DEF BellIsSure
  <1>2. \A c \in cs \cup new : /\ c.kind = "bell" => c.reply \in {None, Shop!Unread(h.notes)}
                               /\ c.kind = "login" => ~t.user
    BY DEF BellIsSure, BellAlike
  <1>3. BellCounts(s, cs, h) => BellCounts(t, cs \cup new, h)
    BY DEF BellCounts, BellAlike
  <1> QED
    BY <1>1, <1>2, <1>3 DEF BellIsSure, BellAlike

(* Fewer calls: one has gone that has nothing to say of the topic.           *)
LEMMA ListWithout ==
  ASSUME NEW s, NEW t, NEW cs, NEW c, NEW h, ListAlike(t, s), ListIsSure(s, cs, h),
         c.kind \in {"me", "ids", "bell", "heart", "login"} \/ (c.kind = "list" /\ ~c.live)
  PROVE  ListIsSure(t, cs \ {c}, h)
  <1>1. NoneCross(cs \ {c}, "list")
    BY NoneCrossFewer DEF ListIsSure
  <1>2. \A d \in cs \ {c} : ListCallIsCurrent(d, t, h)
    BY DEF ListIsSure, ListCallIsCurrent, ListAlike
  <1>3. ListIsCurrent(t, cs \ {c}, h)
    BY DEF ListIsSure, ListIsCurrent, ListAlike, Here
  <1> QED
    BY <1>1, <1>2, <1>3 DEF ListIsSure

LEMMA HeartsWithout ==
  ASSUME NEW s, NEW t, NEW cs, NEW c, NEW h, HeartsAlike(t, s), HeartsAreSure(s, cs, h),
         c.kind \notin {"ids", "heart", "unsave"}
  PROVE  HeartsAreSure(t, cs \ {c}, h)
  <1>1. NoneCross(cs \ {c}, "hearts")
    BY NoneCrossFewer DEF HeartsAreSure
  <1>2. \A d \in cs \ {c} : /\ d.kind = "ids" => d.reply \in {None, h.wish}
                            /\ d.kind = "login" => ~t.user
    BY DEF HeartsAreSure, HeartsAlike
  <1>3. HeartsAreCurrent(s, cs, h) => HeartsAreCurrent(t, cs \ {c}, h)
    BY DEF HeartsAreCurrent, HeartsAlike
  <1> QED
    BY <1>1, <1>2, <1>3 DEF HeartsAreSure, HeartsAlike

LEMMA BellWithout ==
  ASSUME NEW s, NEW t, NEW cs, NEW c, NEW h, BellAlike(t, s), BellIsSure(s, cs, h), c.kind # "bell"
  PROVE  BellIsSure(t, cs \ {c}, h)
  <1>1. NoneCross(cs \ {c}, "bell")
    BY NoneCrossFewer DEF BellIsSure
  <1>2. \A d \in cs \ {c} : /\ d.kind = "bell" => d.reply \in {None, Shop!Unread(h.notes)}
                            /\ d.kind = "login" => ~t.user
    BY DEF BellIsSure, BellAlike
  <1>3. BellCounts(s, cs, h) => BellCounts(t, cs \ {c}, h)
    BY DEF BellCounts, BellAlike
  <1> QED
    BY <1>1, <1>2, <1>3 DEF BellIsSure, BellAlike

(* The page was left: its calls are answered all the same.                   *)
LEMMA HeartsOrphaned ==
  ASSUME NEW s, NEW cs, NEW h, \A c \in cs : ShopCall(c), HeartsAreSure(s, cs, h)
  PROVE  HeartsAreSure(s, Shop!Orphans(cs), h)
  <1>1. NoneCross(Shop!Orphans(cs), "hearts")
    BY NoneCrossOrphans DEF HeartsAreSure
  <1>2. \A d \in Shop!Orphans(cs) : \E c \in cs : d.kind = c.kind /\ d.arg = c.arg /\ d.reply = c.reply
    BY OrphanIs
  <1>3. \A c \in cs : \E d \in Shop!Orphans(cs) : d.kind = c.kind /\ d.arg = c.arg /\ d.reply = c.reply
    <2> TAKE c \in cs
    <2>1. PICK d : d = [c EXCEPT !.live = FALSE]
      OBVIOUS
    <2>2. d \in Shop!Orphans(cs)
      BY <2>1 DEF Shop!Orphans
    <2>3. d.kind = c.kind /\ d.arg = c.arg /\ d.reply = c.reply
      BY <2>1 DEF ShopCall
    <2> QED
      BY <2>2, <2>3
  <1>4. HeartsAreCurrent(s, cs, h) => HeartsAreCurrent(s, Shop!Orphans(cs), h)
    <2> SUFFICES ASSUME HeartsAreCurrent(s, cs, h) PROVE HeartsAreCurrent(s, Shop!Orphans(cs), h)
      OBVIOUS
    <2>1. ASSUME NEW c \in cs, c.kind = "ids" PROVE HeartsAreCurrent(s, Shop!Orphans(cs), h)
      BY <1>3, <2>1 DEF HeartsAreCurrent
    <2>2. ASSUME NEW c \in cs, c.kind = "heart", c.reply # None, Toggled(s.hearts, c.arg) \ s.removed = h.wish \ s.removed
          PROVE  HeartsAreCurrent(s, Shop!Orphans(cs), h)
      <3>1. PICK d \in Shop!Orphans(cs) : d.kind = c.kind /\ d.arg = c.arg /\ d.reply = c.reply
        BY <1>3
      <3> QED
        BY <2>2, <3>1 DEF HeartsAreCurrent
    <2>3. ASSUME NEW c \in cs, c.kind = "unsave", c.reply # None,
                 s.hearts \ (s.removed \cup {c.arg.id}) = h.wish \ (s.removed \cup {c.arg.id})
          PROVE  HeartsAreCurrent(s, Shop!Orphans(cs), h)
      <3>1. PICK d \in Shop!Orphans(cs) : d.kind = c.kind /\ d.arg = c.arg /\ d.reply = c.reply
        BY <1>3
      <3> QED
        BY <2>3, <3>1 DEF HeartsAreCurrent
    <2>4. ASSUME \A c \in cs : c.kind \in {"heart", "unsave"} => c.reply = None,
                 s.hearts \ s.removed = h.wish \ s.removed
          PROVE  HeartsAreCurrent(s, Shop!Orphans(cs), h)
      <3>1. \A d \in Shop!Orphans(cs) : d.kind \in {"heart", "unsave"} => d.reply = None
        BY <1>2, <2>4
      <3> QED
        BY <2>4, <3>1 DEF HeartsAreCurrent
    <2> QED
      BY <2>1, <2>2, <2>3, <2>4 DEF HeartsAreCurrent
  <1> QED
    BY <1>1, <1>2, <1>4 DEF HeartsAreSure

LEMMA BellOrphaned ==
  ASSUME NEW s, NEW cs, NEW h, \A c \in cs : ShopCall(c), BellIsSure(s, cs, h)
  PROVE  BellIsSure(s, Shop!Orphans(cs), h)
  <1>1. NoneCross(Shop!Orphans(cs), "bell")
    BY NoneCrossOrphans DEF BellIsSure
  <1>2. \A d \in Shop!Orphans(cs) : \E c \in cs : d.kind = c.kind /\ d.arg = c.arg /\ d.reply = c.reply
    BY OrphanIs
  <1>3. \A c \in cs : \E d \in Shop!Orphans(cs) : d.kind = c.kind
    <2> TAKE c \in cs
    <2>1. PICK d : d = [c EXCEPT !.live = FALSE]
      OBVIOUS
    <2>2. d \in Shop!Orphans(cs)
      BY <2>1 DEF Shop!Orphans
    <2>3. d.kind = c.kind
      BY <2>1 DEF ShopCall
    <2> QED
      BY <2>2, <2>3
  <1>4. BellCounts(s, cs, h) => BellCounts(s, Shop!Orphans(cs), h)
    <2> SUFFICES ASSUME BellCounts(s, cs, h) PROVE BellCounts(s, Shop!Orphans(cs), h)
      OBVIOUS
    <2>1. ASSUME NEW d \in Shop!Orphans(cs), d.kind = "readInBell"
          PROVE  d.arg \in SUBSET s.bell.unread /\ (d.reply # None => Shop!Unread(h.notes) \cap d.arg = {})
      BY <1>2, <2>1 DEF BellCounts
    <2> QED
      BY <2>1 DEF BellCounts
  <1>5. (\E c \in cs : c.kind = "bell") => \E d \in Shop!Orphans(cs) : d.kind = "bell"
    BY <1>3
  <1> QED
    BY <1>1, <1>2, <1>4, <1>5 DEF BellIsSure

LEMMA ListOfAlike ==
  ASSUME NEW s, NEW t, NEW cs, NEW h, ListAlike(t, s), ListIsSure(s, cs, h)
  PROVE  ListIsSure(t, cs, h)
  BY DEF ListIsSure, ListCallIsCurrent, ListIsCurrent, ListAlike, Here

LEMMA HeartsOfAlike ==
  ASSUME NEW s, NEW t, NEW cs, NEW h, HeartsAlike(t, s), HeartsAreSure(s, cs, h)
  PROVE  HeartsAreSure(t, cs, h)
  BY DEF HeartsAreSure, HeartsAreCurrent, HeartsAlike

LEMMA BellOfAlike ==
  ASSUME NEW s, NEW t, NEW cs, NEW h, BellAlike(t, s), BellIsSure(s, cs, h)
  PROVE  BellIsSure(t, cs, h)
  BY DEF BellIsSure, BellCounts, BellAlike

(* Screens that differ in what a step may change.                            *)
ShopAlike(t, s) == ListAlike(t, s) /\ HeartsAlike(t, s) /\ BellAlike(t, s)

LEMMA ShopFields ==
  ASSUME NEW s \in ShopScreen
  PROVE  /\ s.user \in BOOLEAN /\ s.page \in ShopPages /\ s.tag \in ShopTags /\ s.list \in {None} \cup SUBSET ShopRows
         /\ s.number \in Nat /\ s.loading \in BOOLEAN /\ s.hearts \in SUBSET Ids /\ s.bell \in ShopBells
         /\ s.sure \in SUBSET ShopTopics /\ s.removed \in SUBSET Ids /\ s.clicks \in Nat /\ s.clicks + 1 \in Nat
         /\ s = [user |-> s.user, page |-> s.page, tag |-> s.tag, list |-> s.list, number |-> s.number,
                 loading |-> s.loading, hearts |-> s.hearts, bell |-> s.bell, sure |-> s.sure,
                 removed |-> s.removed, clicks |-> s.clicks]
  BY DEF ShopScreen

LEMMA ShopSure ==
  ASSUME NEW s \in ShopScreen, NEW x \in SUBSET ShopTopics
  PROVE  /\ [s EXCEPT !.sure = x] \in ShopScreen /\ ShopAlike([s EXCEPT !.sure = x], s)
         /\ [s EXCEPT !.sure = x].sure = x
  BY DEF ShopScreen, ShopAlike, ListAlike, HeartsAlike, BellAlike

(* What is known of the calls under way.                                     *)
LEMMA ShopKnows ==
  ASSUME ShopPageInv
  PROVE  /\ screen \in ShopScreen /\ (\A c \in calls : ShopCall(c)) /\ ShopHeld(held) /\ ShopStarted(screen, calls)
         /\ "list" \in screen.sure => ListIsSure(screen, calls, held)
         /\ "hearts" \in screen.sure => HeartsAreSure(screen, calls, held)
         /\ "bell" \in screen.sure => BellIsSure(screen, calls, held)
  BY DEF ShopPageInv, ShopPageOK

LEMMA ShopSends ==
  ASSUME NEW s \in ShopScreen, NEW new, NEW others, Shop!Send(s, new, others), ShopHeld(held),
         \A c \in others \cup new : ShopCall(c), ShopStarted(s, others \cup new),
         "list" \in s.sure /\ ApartOn("list", others, new) => ListIsSure(s, others \cup new, held),
         "hearts" \in s.sure /\ ApartOn("hearts", others, new) => HeartsAreSure(s, others \cup new, held),
         "bell" \in s.sure /\ ApartOn("bell", others, new) => BellIsSure(s, others \cup new, held)
  PROVE  ShopPageInv'
  <1>1. PICK x : x = s.sure \ Shop!Crossed(new, others)
    OBVIOUS
  <1>2. PICK t : t = [s EXCEPT !.sure = x]
    OBVIOUS
  <1>3. screen' = t /\ calls' = others \cup new /\ held' = held
    BY <1>1, <1>2 DEF Shop!Send
  <1>4. x \in SUBSET ShopTopics
    BY <1>1, ShopFields
  <1>5. t \in ShopScreen /\ ShopAlike(t, s) /\ t.sure = x
    BY <1>2, <1>4, ShopSure
  <1>6. \A topic \in x : topic \in s.sure /\ ApartOn(topic, others, new)
    BY <1>1, SentApart
  <1>7. "list" \in x => ListIsSure(t, others \cup new, held)
    BY <1>5, <1>6, ListOfAlike DEF ShopAlike
  <1>8. "hearts" \in x => HeartsAreSure(t, others \cup new, held)
    BY <1>5, <1>6, HeartsOfAlike DEF ShopAlike
  <1>9. "bell" \in x => BellIsSure(t, others \cup new, held)
    BY <1>5, <1>6, BellOfAlike DEF ShopAlike
  <1>10. ShopStarted(t, others \cup new)
    BY <1>5 DEF ShopStarted, ShopAlike, ListAlike, HeartsAlike
  <1>11. ShopPageOK(t, others \cup new, held)
    BY <1>5, <1>7, <1>8, <1>9, <1>10 DEF ShopPageOK
  <1> QED
    BY <1>3, <1>11 DEF ShopPageInv

LEMMA ShopPageShows ==
  ASSUME ShopPageInv, NEW s \in ShopScreen, NEW c, Shop!Show(s, c), ShopStarted(s, calls \ {c}),
         "list" \in s.sure => ListIsSure(s, calls \ {c}, held),
         "hearts" \in s.sure => HeartsAreSure(s, calls \ {c}, held),
         "bell" \in s.sure => BellIsSure(s, calls \ {c}, held)
  PROVE  ShopPageInv'
  <1>1. ShopPageOK(s, calls \ {c}, held)
    <2>1. ShopHeld(held) /\ \A d \in calls \ {c} : ShopCall(d)
      BY ShopKnows
    <2> QED
      BY <2>1 DEF ShopPageOK
  <1>2. screen' = s /\ calls' = calls \ {c} /\ held' = held
    BY DEF Shop!Show
  <1> QED
    BY <1>1, <1>2 DEF ShopPageInv

(* A call as it is sent.                                                     *)
LEMMA ShopCallIs ==
  ASSUME NEW kind, NEW arg, NEW c, c = Shop!Call(kind, arg)
  PROVE  /\ c = [kind |-> c.kind, arg |-> c.arg, live |-> c.live, reply |-> c.reply]
         /\ c.kind = kind /\ c.arg = arg /\ c.live /\ c.live \in BOOLEAN /\ c.reply = None
  BY DEF Shop!Call

LEMMA ShopListIs ==
  ASSUME NEW page, NEW tag, NEW number \in Nat, NEW c, c = Shop!List(page, tag, number)
  PROVE  /\ ShopCall(c) /\ c.kind = "list" /\ c.live /\ c.reply = None
         /\ c.arg.page = page /\ c.arg.tag = tag /\ c.arg.number = number
  <1>1. PICK a : a = [page |-> page, tag |-> tag, number |-> number]
    OBVIOUS
  <1>2. c = Shop!Call("list", a)
    BY <1>1 DEF Shop!List
  <1>3. /\ c = [kind |-> c.kind, arg |-> c.arg, live |-> c.live, reply |-> c.reply]
        /\ c.kind = "list" /\ c.arg = a /\ c.live /\ c.live \in BOOLEAN /\ c.reply = None
    BY <1>2, ShopCallIs
  <1>4. a.page = page /\ a.tag = tag /\ a.number = number
        /\ a = [page |-> a.page, tag |-> a.tag, number |-> a.number]
    BY <1>1
  <1>5. ShopCall(c)
    BY <1>3, <1>4 DEF ShopCall, ShopReads
  <1> QED
    BY <1>3, <1>4, <1>5

LEMMA ShopBareIs ==
  ASSUME NEW kind \in {"me", "ids", "bell", "login"}, NEW arg, NEW c, c = Shop!Call(kind, arg)
  PROVE  ShopCall(c) /\ c.kind = kind /\ c.live /\ c.reply = None
  BY ShopCallIs DEF ShopCall, ShopReads, Shop!Writes

(* A list is asked for again: whatever goes on about it beside is an equal   *)
(* question.                                                                 *)
LEMMA ListAsked ==
  ASSUME NEW s, NEW others, NEW new, NEW h, NEW g \in new,
         g.kind = "list", g.live, g.reply = None, g.arg.page = s.page, g.arg.tag = s.tag,
         NoneCross(others, "list"), NoneCross(new, "list"), ApartOn("list", others, new),
         \A c \in others : /\ ShopCall(c) /\ c.kind # "me"
                           /\ c.kind = "list" /\ c.reply \notin {None, Refused} => c.reply = Shop!Listing(h, c.arg),
         \A c \in new : c.kind \in {"ids", "bell"} \/ c = g
  PROVE  ListIsSure(s, others \cup new, h)
  <1>1. NoneCross(others \cup new, "list")
    BY NoneCrossTogether
  <1>2. "list" \in Shop!Topic(g)
    BY TopicIs DEF ShopReads
  <1>3. \A c \in others : /\ "list" \in Shop!Topic(c) => c.kind \notin Shop!Writes
                          /\ c.kind = "list" => c.arg = g.arg
    <2> TAKE c \in others
    <2>1. ShopCall(c) /\ c.kind \in ShopReads \cup Shop!Writes
      BY DEF ShopCall
    <2>2. "list" \in Shop!Topic(c) => ~Shop!Cross(c, g)
      BY <1>2 DEF ApartOn
    <2>3. c.kind = "list" => "list" \in Shop!Topic(c)
      BY <2>1, TopicIs
    <2> QED
      BY <2>2, <2>3 DEF Shop!Cross
  <1>4. ASSUME NEW c \in others PROVE ListCallIsCurrent(c, s, h)
    <2>1. c.kind \in ShopReads \cup Shop!Writes /\ c.kind # "me"
      BY DEF ShopCall
    <2>2. c.kind \notin Shop!Writes
      <3>1. "bell" \notin Shop!Writes
        BY DEF Shop!Writes
      <3> QED
        BY <1>3, <2>1, <3>1, TopicIs
    <2>3. c.kind = "list" => c.arg.page = s.page /\ c.arg.tag = s.tag
      BY <1>3
    <2> QED
      BY <2>2, <2>3 DEF ListCallIsCurrent, Shop!Writes
  <1>5. \A c \in new : ListCallIsCurrent(c, s, h)
    BY DEF ListCallIsCurrent
  <1>6. ListIsCurrent(s, others \cup new, h)
    BY DEF ListIsCurrent
  <1> QED
    BY <1>1, <1>4, <1>5, <1>6 DEF ListIsSure

LEMMA ShopClicked ==
  ASSUME NEW s \in ShopScreen
  PROVE  /\ [s EXCEPT !.clicks = @ + 1] \in ShopScreen /\ ShopAlike([s EXCEPT !.clicks = @ + 1], s)
         /\ [s EXCEPT !.clicks = @ + 1].sure = s.sure
  <1>1. PICK n \in Nat : n = s.clicks + 1
    BY ShopFields
  <1>2. PICK t : t = [s EXCEPT !.clicks = n]
    OBVIOUS
  <1>3. t \in ShopScreen
    BY <1>2 DEF ShopScreen
  <1>4. ShopAlike(t, s) /\ t.sure = s.sure
    BY <1>2 DEF ShopScreen, ShopAlike, ListAlike, HeartsAlike, BellAlike
  <1>5. [s EXCEPT !.clicks = @ + 1] = t
    BY <1>1, <1>2
  <1> QED
    BY <1>3, <1>4, <1>5

-----------------------------------------------------------------------------
(* The clicks.                                                               *)

(* One that sends a write, or asks the bell, and leaves the page as it is.   *)
LEMMA ShopSendsOne ==
  ASSUME ShopPageInv, screen.page # None,
         NEW w, ShopCall(w), w.reply = None, w.kind \notin {"me", "login"},
         ListCallIsCurrent(w, screen, held), w.kind \in {"unsave", "read"} => screen.list # None,
         w.kind = "readInBell" => w.arg \in SUBSET screen.bell.unread, Shop!Send(Shop!Clicked, {w}, calls)
  PROVE  ShopPageInv'
  <1>1. PICK s : s = Shop!Clicked
    OBVIOUS
  <1>2. s \in ShopScreen /\ ShopAlike(s, screen) /\ s.sure = screen.sure
    BY <1>1, ShopKnows, ShopClicked DEF Shop!Clicked
  <1>3. Shop!Send(s, {w}, calls)
    BY <1>1
  <1>4. ShopStarted(s, calls \cup {w})
    <2>1. w.kind \in {"unsave", "read"} => screen.list \in SUBSET ShopRows
      BY ShopKnows, ShopFields
    <2>2. ShopStarted(screen, calls)
      BY ShopKnows
    <2> QED
      BY <1>2, <2>1, <2>2 DEF ShopStarted, ShopAlike, ListAlike, HeartsAlike
  <1>5. \A topic : NoneCross({w}, topic)
    BY NoneCrossAlone
  <1>6. "list" \in s.sure /\ ApartOn("list", calls, {w}) => ListIsSure(s, calls \cup {w}, held)
    <2>1. ListCallIsCurrent(w, s, held)
      BY <1>2 DEF ListCallIsCurrent, ShopAlike, ListAlike
    <2> QED
      BY <1>2, <1>5, <2>1, ShopKnows, ListGrows DEF ShopAlike
  <1>7. "hearts" \in s.sure /\ ApartOn("hearts", calls, {w}) => HeartsAreSure(s, calls \cup {w}, held)
    BY <1>2, <1>5, ShopKnows, HeartsGrow DEF ShopAlike
  <1>8. "bell" \in s.sure /\ ApartOn("bell", calls, {w}) => BellIsSure(s, calls \cup {w}, held)
    BY <1>2, <1>5, ShopKnows, BellGrows DEF ShopAlike
  <1>9. ShopHeld(held) /\ \A c \in calls \cup {w} : ShopCall(c)
    BY ShopKnows
  <1> QED
    BY <1>2, <1>3, <1>4, <1>6, <1>7, <1>8, <1>9, ShopSends

(* Whoever is signed in is at a page.                                        *)
LEMMA SignedInAtPage ==
  ASSUME ShopPageInv, screen.user
  PROVE  screen.page # None
  BY ShopKnows DEF ShopStarted

LEMMA ShopPagesNamed == None \notin {"home", "wishlist", "reviews", "notes", "addresses", "signin"}
  BY ShopAssumption

LEMMA ListRowIs ==
  ASSUME ShopPageInv, screen.list # None, NEW r \in screen.list
  PROVE  r.id \in Ids
  <1>1. r \in ShopRows
    BY ShopKnows, ShopFields
  <1> QED
    BY <1>1 DEF ShopRows

LEMMA WishToggled ==
  ASSUME ShopPageInv, Shop!ToggleWish \/ Shop!RemoveSaved
  PROVE  ShopPageInv'
  <1>1. PICK r, kind, on :
          /\ r \in screen.list /\ kind \in {"heart", "unsave"} /\ screen.list # None
          /\ kind = "heart" => screen.page = "home"
          /\ kind = "unsave" => screen.page = "wishlist" /\ on = FALSE
          /\ Shop!Send(Shop!Clicked, {Shop!Call(kind, [id |-> r.id, on |-> on])}, calls)
    BY DEF Shop!ToggleWish, Shop!RemoveSaved
  <1>2. PICK a : a = [id |-> r.id, on |-> on]
    OBVIOUS
  <1>3. PICK w : w = Shop!Call(kind, a)
    OBVIOUS
  <1>4. r.id \in Ids
    BY <1>1, ListRowIs
  <1>5. /\ w = [kind |-> w.kind, arg |-> w.arg, live |-> w.live, reply |-> w.reply]
        /\ w.kind = kind /\ w.arg = a /\ w.live /\ w.live \in BOOLEAN /\ w.reply = None
    BY <1>3, ShopCallIs
  <1>6. w.arg.id \in Ids /\ w.kind \in {"heart", "unsave"} /\ (w.kind = "unsave" => ~w.arg.on)
    BY <1>1, <1>2, <1>4, <1>5
  <1>7. ShopCall(w)
    BY <1>5, <1>6 DEF ShopCall, Shop!Writes
  <1>8. ListCallIsCurrent(w, screen, held)
    BY <1>1, <1>5 DEF ListCallIsCurrent
  <1>9. screen.page # None
    BY <1>1, ShopPagesNamed
  <1>10. Shop!Send(Shop!Clicked, {w}, calls)
    BY <1>1, <1>2, <1>3
  <1> QED
    BY <1>1, <1>5, <1>7, <1>8, <1>9, <1>10, ShopSendsOne

LEMMA NoticesMarked ==
  ASSUME ShopPageInv, Shop!MarkRead
  PROVE  ShopPageInv'
  <1>1. PICK ns : /\ screen.page = "notes" /\ screen.list # None
                  /\ Shop!Send(Shop!Clicked, {Shop!Call("read", ns)}, calls)
    BY DEF Shop!MarkRead
  <1>2. PICK w : w = Shop!Call("read", ns)
    OBVIOUS
  <1>3. /\ w = [kind |-> w.kind, arg |-> w.arg, live |-> w.live, reply |-> w.reply]
        /\ w.kind = "read" /\ w.arg = ns /\ w.live /\ w.live \in BOOLEAN /\ w.reply = None
    BY <1>2, ShopCallIs
  <1>4. ShopCall(w)
    BY <1>3 DEF ShopCall, Shop!Writes
  <1>5. ListCallIsCurrent(w, screen, held)
    BY <1>1, <1>3 DEF ListCallIsCurrent
  <1>6. screen.page # None
    BY <1>1, ShopPagesNamed
  <1> QED
    BY <1>1, <1>2, <1>3, <1>4, <1>5, <1>6, ShopSendsOne

LEMMA BellMarked ==
  ASSUME ShopPageInv, Shop!MarkInBell
  PROVE  ShopPageInv'
  <1>1. PICK n \in screen.bell.unread :
          screen.user /\ Shop!Send(Shop!Clicked, {Shop!Call("readInBell", {n})}, calls)
    BY DEF Shop!MarkInBell
  <1>2. PICK w : w = Shop!Call("readInBell", {n})
    OBVIOUS
  <1>3. /\ w = [kind |-> w.kind, arg |-> w.arg, live |-> w.live, reply |-> w.reply]
        /\ w.kind = "readInBell" /\ w.arg = {n} /\ w.live /\ w.live \in BOOLEAN /\ w.reply = None
    BY <1>2, ShopCallIs
  <1>4. n \in Ids
    BY ShopKnows, ShopFields DEF ShopBells
  <1>5. ShopCall(w)
    BY <1>3, <1>4 DEF ShopCall, Shop!Writes
  <1>6. ListCallIsCurrent(w, screen, held)
    BY <1>3 DEF ListCallIsCurrent
  <1>7. w.arg \in SUBSET screen.bell.unread
    BY <1>3
  <1> QED
    BY <1>1, <1>2, <1>3, <1>5, <1>6, <1>7, SignedInAtPage, ShopSendsOne

LEMMA RowChanged ==
  ASSUME ShopPageInv, Shop!Change
  PROVE  ShopPageInv'
  <1>1. PICK r, op : /\ screen.page \in {"reviews", "addresses"} /\ screen.list # None
                     /\ op \in Shop!Changes(screen.page)
                     /\ Shop!Send(Shop!Clicked, {Shop!Call("write",
                          [page |-> screen.page, op |-> op, id |-> r.id, tag |-> screen.tag])}, calls)
    BY DEF Shop!Change
  <1>2. PICK a : a = [page |-> screen.page, op |-> op, id |-> r.id, tag |-> screen.tag]
    OBVIOUS
  <1>3. PICK w : w = Shop!Call("write", a)
    OBVIOUS
  <1>4. /\ w = [kind |-> w.kind, arg |-> w.arg, live |-> w.live, reply |-> w.reply]
        /\ w.kind = "write" /\ w.arg = a /\ w.live /\ w.live \in BOOLEAN /\ w.reply = None
    BY <1>3, ShopCallIs
  <1>5. a.page = screen.page /\ a.tag = screen.tag /\ (a.page = "reviews" => a.op # "default")
    BY <1>1, <1>2 DEF Shop!Changes
  <1>6. screen.tag \in ShopTags
    BY ShopKnows, ShopFields
  <1>7. ShopCall(w)
    BY <1>1, <1>4, <1>5, <1>6 DEF ShopCall, Shop!Writes
  <1>8. ListCallIsCurrent(w, screen, held)
    BY <1>4, <1>5 DEF ListCallIsCurrent
  <1>9. screen.page # None
    BY <1>1, ShopPagesNamed
  <1>10. Shop!Send(Shop!Clicked, {w}, calls)
    BY <1>1, <1>2, <1>3
  <1> QED
    BY <1>4, <1>7, <1>8, <1>9, <1>10, ShopSendsOne

LEMMA BellPolled ==
  ASSUME ShopPageInv, Shop!Poll
  PROVE  ShopPageInv'
  <1>1. PICK w : w = Shop!Call("bell", None)
    OBVIOUS
  <1>2. screen.user /\ Shop!Send(Shop!Clicked, {w}, calls)
    BY <1>1 DEF Shop!Poll
  <1>3. ShopCall(w) /\ w.kind = "bell" /\ w.live /\ w.reply = None
    BY <1>1, ShopBareIs
  <1>4. ListCallIsCurrent(w, screen, held)
    BY <1>3 DEF ListCallIsCurrent
  <1> QED
    BY <1>2, <1>3, <1>4, SignedInAtPage, ShopSendsOne
-----------------------------------------------------------------------------
(* A list is asked for.                                                      *)
LEMMA ListTurned ==
  ASSUME ShopPageInv, screen.page # None, NEW s \in ShopScreen, s.page = screen.page, s.list = screen.list,
         HeartsAlike(s, screen), BellAlike(s, screen), s.sure = screen.sure,
         NEW number \in Nat, Shop!Send(s, {Shop!List(s.page, s.tag, number)}, calls)
  PROVE  ShopPageInv'
  <1>1. PICK g : g = Shop!List(s.page, s.tag, number)
    OBVIOUS
  <1>2. /\ ShopCall(g) /\ g.kind = "list" /\ g.live /\ g.reply = None
        /\ g.arg.page = s.page /\ g.arg.tag = s.tag /\ g.arg.number = number
    BY <1>1, ShopListIs
  <1>3. Shop!Send(s, {g}, calls)
    BY <1>1
  <1>4. ShopStarted(screen, calls) /\ ShopHeld(held) /\ \A c \in calls : ShopCall(c)
    BY ShopKnows
  <1>5. ShopStarted(s, calls \cup {g})
    BY <1>2, <1>4 DEF ShopStarted, HeartsAlike
  <1>6. \A topic : NoneCross({g}, topic)
    BY NoneCrossAlone
  <1>7. "list" \in s.sure /\ ApartOn("list", calls, {g}) => ListIsSure(s, calls \cup {g}, held)
    <2> SUFFICES ASSUME "list" \in s.sure, ApartOn("list", calls, {g})
                 PROVE  ListIsSure(s, calls \cup {g}, held)
      OBVIOUS
    <2>1. ListIsSure(screen, calls, held)
      BY ShopKnows
    <2>2. \A c \in calls : /\ ShopCall(c) /\ c.kind # "me"
                           /\ c.kind = "list" /\ c.reply \notin {None, Refused} => c.reply = Shop!Listing(held, c.arg)
      BY <1>4, <2>1 DEF ShopStarted, ListIsSure, ListCallIsCurrent
    <2>3. NoneCross(calls, "list")
      BY <2>1 DEF ListIsSure
    <2> QED
      BY <1>2, <1>6, <2>2, <2>3, ListAsked
  <1>8. "hearts" \in s.sure /\ ApartOn("hearts", calls, {g}) => HeartsAreSure(s, calls \cup {g}, held)
    BY <1>2, <1>6, ShopKnows, HeartsGrow
  <1>9. "bell" \in s.sure /\ ApartOn("bell", calls, {g}) => BellIsSure(s, calls \cup {g}, held)
    BY <1>2, <1>6, ShopKnows, BellGrows
  <1> QED
    BY <1>2, <1>3, <1>4, <1>5, <1>7, <1>8, <1>9, ShopSends

LEMMA TagPicked ==
  ASSUME ShopPageInv, NEW tag \in ShopTags, Shop!PickTag(tag)
  PROVE  ShopPageInv'
  <1>1. PICK u : u = Shop!Clicked
    OBVIOUS
  <1>2. u \in ShopScreen /\ ShopAlike(u, screen) /\ u.sure = screen.sure
    BY <1>1, ShopKnows, ShopClicked DEF Shop!Clicked
  <1>3. PICK tt \in BOOLEAN : tt = TRUE
    OBVIOUS
  <1>4. PICK s : s = [u EXCEPT !.tag = tag, !.loading = tt]
    OBVIOUS
  <1>5. s \in ShopScreen /\ s.page = u.page /\ s.tag = tag /\ s.list = u.list /\ s.sure = u.sure
        /\ s.user = u.user /\ s.hearts = u.hearts /\ s.removed = u.removed /\ s.bell = u.bell
    BY <1>2, <1>4 DEF ShopScreen
  <1>6. s.page = screen.page /\ s.list = screen.list /\ HeartsAlike(s, screen) /\ BellAlike(s, screen)
        /\ s.sure = screen.sure
    BY <1>2, <1>5 DEF ShopAlike, ListAlike, HeartsAlike, BellAlike
  <1>7. /\ screen.page \in {"home", "reviews", "notes"}
        /\ Shop!Send([u EXCEPT !.tag = tag, !.loading = TRUE], {Shop!List(screen.page, tag, 1)}, calls)
    BY <1>1 DEF Shop!PickTag, Shop!AsksFor
  <1>8. Shop!Send(s, {Shop!List(s.page, s.tag, 1)}, calls)
    BY <1>3, <1>4, <1>5, <1>6, <1>7, Zenon
  <1>9. screen.page # None
    BY <1>7, ShopPagesNamed
  <1>10. 1 \in Nat
    OBVIOUS
  <1> QED
    BY <1>5, <1>6, <1>8, <1>9, <1>10, ListTurned

LEMMA PageTurned ==
  ASSUME ShopPageInv, Shop!TurnPage
  PROVE  ShopPageInv'
  <1>1. PICK u : u = Shop!Clicked
    OBVIOUS
  <1>2. u \in ShopScreen /\ ShopAlike(u, screen) /\ u.sure = screen.sure
    BY <1>1, ShopKnows, ShopClicked DEF Shop!Clicked
  <1>3. PICK tt \in BOOLEAN : tt = TRUE
    OBVIOUS
  <1>4. PICK s : s = [u EXCEPT !.loading = tt]
    OBVIOUS
  <1>5. s \in ShopScreen /\ s.page = u.page /\ s.tag = u.tag /\ s.list = u.list /\ s.sure = u.sure
        /\ s.user = u.user /\ s.hearts = u.hearts /\ s.removed = u.removed /\ s.bell = u.bell
    BY <1>2, <1>4 DEF ShopScreen
  <1>6. s.page = screen.page /\ s.tag = screen.tag /\ s.list = screen.list /\ HeartsAlike(s, screen)
        /\ BellAlike(s, screen) /\ s.sure = screen.sure
    BY <1>2, <1>5 DEF ShopAlike, ListAlike, HeartsAlike, BellAlike
  <1>7. PICK number :
          /\ number \in 1 .. Cardinality(Ids)
          /\ Shop!Send([Shop!Clicked EXCEPT !.loading = TRUE], {Shop!List("home", screen.tag, number)}, calls)
    <2>1. \E number \in {screen.number - 1, screen.number + 1} :
            /\ number \in 1 .. Cardinality(Ids)
            /\ Shop!Send([Shop!Clicked EXCEPT !.loading = TRUE], {Shop!List("home", screen.tag, number)}, calls)
      BY ShopCount, Zenon DEF Shop!TurnPage
    <2> QED
      BY <2>1, Zenon
  <1>8. screen.page = "home"
    BY DEF Shop!TurnPage
  <1>9. Shop!Send(s, {Shop!List(s.page, s.tag, number)}, calls)
    BY <1>1, <1>3, <1>4, <1>6, <1>7, <1>8, Zenon
  <1>10. screen.page # None
    BY <1>8, ShopPagesNamed
  <1>11. number \in Nat
    <2>1. PICK k \in Nat : k = Cardinality(Ids)
      BY ShopAssumption, FS_CardinalityType
    <2>2. number \in 1 .. k
      BY <1>7, <2>1
    <2> QED
      BY <2>2
  <1> QED
    BY <1>5, <1>6, <1>9, <1>10, <1>11, ListTurned

-----------------------------------------------------------------------------
(* A page is opened.                                                         *)
LEMMA ShopMounted ==
  ASSUME NEW s \in ShopScreen, NEW page \in ShopPages, NEW sure \in SUBSET ShopTopics,
         NEW t, t = Shop!Mounted(s, page, sure)
  PROVE  /\ t \in ShopScreen /\ t.page = page /\ t.tag = All /\ t.list = None /\ t.number = 1 /\ t.sure = sure
         /\ HeartsAlike(t, s) /\ BellAlike(t, s)
  <1>1. PICK tt \in BOOLEAN : tt = TRUE
    OBVIOUS
  <1>2. PICK one \in Nat : one = 1
    OBVIOUS
  <1>3. All \in ShopTags /\ None \in {None} \cup SUBSET ShopRows
    BY DEF ShopTags
  <1>4. t = [s EXCEPT !.page = page, !.tag = All, !.list = None, !.number = one, !.loading = tt, !.sure = sure]
    BY <1>1, <1>2, Zenon DEF Shop!Mounted
  <1>5. /\ t \in ShopScreen /\ t.page = page /\ t.tag = All /\ t.list = None /\ t.number = one /\ t.sure = sure
        /\ t.user = s.user /\ t.hearts = s.hearts /\ t.removed = s.removed /\ t.bell = s.bell
    BY <1>3, <1>4 DEF ShopScreen
  <1> QED
    BY <1>2, <1>5 DEF HeartsAlike, BellAlike

LEMMA ShopMounts ==
  ASSUME NEW s \in ShopScreen, NEW page \in Shop!Pages, NEW new, NEW others, Shop!Mount(s, page, new, others),
         ShopHeld(held), \A c \in others : ShopCall(c) /\ c.kind # "me",
         \A c \in new : ShopCall(c) /\ c.kind \in {"ids", "bell"} /\ c.reply = None,
         "list" \in s.sure /\ others # {} =>
           /\ NoneCross(others, "list")
           /\ \A c \in others :
                c.kind = "list" /\ c.reply \notin {None, Refused} => c.reply = Shop!Listing(held, c.arg),
         "hearts" \in s.sure /\ ApartOn("hearts", Shop!Orphans(others), new) =>
           HeartsAreSure(s, Shop!Orphans(others) \cup new, held),
         "bell" \in s.sure /\ ApartOn("bell", Shop!Orphans(others), new) =>
           BellIsSure(s, Shop!Orphans(others) \cup new, held)
  PROVE  ShopPageInv'
  <1>1. PICK g : g = Shop!List(page, All, 1)
    OBVIOUS
  <1>2. PICK left : left = Shop!Orphans(others)
    OBVIOUS
  <1>3. PICK sure : sure = IF others = {} THEN s.sure \cup {"list"} ELSE s.sure
    OBVIOUS
  <1>4. PICK m : m = Shop!Mounted(s, page, sure)
    OBVIOUS
  <1>5. PICK sent : sent = new \cup {g}
    OBVIOUS
  <1>6. Shop!Send(m, sent, left)
    BY <1>1, <1>2, <1>3, <1>4, <1>5, Zenon DEF Shop!Mount
  <1>7. page \in ShopPages /\ page # None
    BY ShopPagesNamed DEF ShopPages, Shop!Pages
  <1>8. sure \in SUBSET ShopTopics
    BY <1>3, ShopFields DEF ShopTopics
  <1>9. /\ m \in ShopScreen /\ m.page = page /\ m.tag = All /\ m.list = None /\ m.number = 1 /\ m.sure = sure
        /\ HeartsAlike(m, s) /\ BellAlike(m, s)
    BY <1>4, <1>7, <1>8, ShopMounted
  <1>10. /\ ShopCall(g) /\ g.kind = "list" /\ g.live /\ g.reply = None
         /\ g.arg.page = page /\ g.arg.tag = All /\ g.arg.number = 1
    BY <1>1, ShopListIs
  <1>11. \A d \in left : \E c \in others : /\ d.kind = c.kind /\ d.arg = c.arg /\ d.reply = c.reply
                                           /\ ~d.live /\ ShopCall(d)
    <2> HIDE DEF ShopCall
    <2> QED
      BY <1>2, OrphanIs
  <1>12. \A d \in left : ShopCall(d) /\ ~d.live /\ d.kind # "me"
    BY <1>11
  <1>13. \A c \in sent : ShopCall(c) /\ (c.kind \in {"ids", "bell"} \/ c = g) /\ c.reply = None
    BY <1>5, <1>10
  <1>14. \A topic : NoneCross(sent, topic)
    <2>1. \A c \in sent : c.kind \notin Shop!Writes /\ (c.kind = "list" => c = g)
      BY <1>10, <1>13 DEF Shop!Writes
    <2> QED
      BY <2>1 DEF NoneCross, Shop!Cross
  <1>15. ShopStarted(m, left \cup sent)
    <2>1. \A c \in sent : c.kind \notin {"me", "unsave", "read"}
      BY <1>10, <1>13
    <2> QED
      BY <1>7, <1>9, <1>12, <2>1 DEF ShopStarted
  <1>16. "list" \in m.sure /\ ApartOn("list", left, sent) => ListIsSure(m, left \cup sent, held)
    <2> SUFFICES ASSUME "list" \in sure, ApartOn("list", left, sent)
                 PROVE  ListIsSure(m, left \cup sent, held)
      BY <1>9
    <2>1. CASE others = {}
      <3>1. left = {}
        BY <1>2, <2>1, OrphansOfNone
      <3>2. NoneCross(left, "list")
        BY <3>1 DEF NoneCross
      <3> QED
        BY <1>5, <1>9, <1>10, <1>13, <1>14, <3>1, <3>2, ListAsked
    <2>2. CASE others # {}
      <3>1. "list" \in s.sure
        BY <1>3, <2>2
      <3>2. NoneCross(left, "list")
        BY <1>2, <2>2, <3>1, NoneCrossOrphans
      <3>3. \A c \in left : c.kind = "list" /\ c.reply \notin {None, Refused} => c.reply = Shop!Listing(held, c.arg)
        BY <1>11, <2>2, <3>1
      <3> QED
        BY <1>5, <1>9, <1>10, <1>12, <1>13, <1>14, <3>2, <3>3, ListAsked
    <2> QED
      BY <2>1, <2>2
  <1>17. \A topic \in {"hearts", "bell"} : ApartOn(topic, left, sent) =>
           ApartOn(topic, left, new) /\ ApartOn(topic, left \cup new, {g})
    <2>1. "hearts" \notin Shop!Topic(g) /\ "bell" \notin Shop!Topic(g)
      BY <1>10, TopicIs DEF ShopReads
    <2> QED
      BY <1>5, <2>1 DEF ApartOn
  <1>18. left \cup sent = (left \cup new) \cup {g}
    BY <1>5
  <1>19. "hearts" \in m.sure /\ ApartOn("hearts", left, sent) => HeartsAreSure(m, left \cup sent, held)
    <2> SUFFICES ASSUME "hearts" \in sure, ApartOn("hearts", left, sent)
                 PROVE  HeartsAreSure(m, left \cup sent, held)
      BY <1>9
    <2>1. HeartsAreSure(s, left \cup new, held)
      BY <1>2, <1>3, <1>17
    <2>2. NoneCross({g}, "hearts")
      BY NoneCrossAlone
    <2>3. HeartsAreSure(m, (left \cup new) \cup {g}, held)
      BY <1>9, <1>10, <1>17, <2>1, <2>2, HeartsGrow
    <2> QED
      BY <1>18, <2>3
  <1>20. "bell" \in m.sure /\ ApartOn("bell", left, sent) => BellIsSure(m, left \cup sent, held)
    <2> SUFFICES ASSUME "bell" \in sure, ApartOn("bell", left, sent)
                 PROVE  BellIsSure(m, left \cup sent, held)
      BY <1>9
    <2>1. BellIsSure(s, left \cup new, held)
      BY <1>2, <1>3, <1>17
    <2>2. NoneCross({g}, "bell")
      BY NoneCrossAlone
    <2>3. BellIsSure(m, (left \cup new) \cup {g}, held)
      BY <1>9, <1>10, <1>17, <2>1, <2>2, BellGrows
    <2> QED
      BY <1>18, <2>3
  <1> QED
    BY <1>6, <1>9, <1>12, <1>13, <1>15, <1>16, <1>19, <1>20, ShopSends

(* Of a page that is left, the list and its calls are of no more use.        *)
LEMMA ListsAnswered ==
  ASSUME ShopPageInv, "list" \in screen.sure, NEW cs \in SUBSET calls
  PROVE  /\ NoneCross(cs, "list")
         /\ \A c \in cs : c.kind = "list" /\ c.reply \notin {None, Refused} => c.reply = Shop!Listing(held, c.arg)
  <1>1. ListIsSure(screen, calls, held)
    BY ShopKnows
  <1> QED
    BY <1>1, NoneCrossFewer DEF ListIsSure, ListCallIsCurrent

LEMMA AtPage ==
  ASSUME ShopPageInv, screen.page # None
  PROVE  \A c \in calls : ShopCall(c) /\ c.kind # "me"
  BY ShopKnows DEF ShopStarted

LEMMA PageOpened ==
  ASSUME ShopPageInv, NEW page \in Shop!Pages, Shop!Open(page)
  PROVE  ShopPageInv'
  <1>1. PICK s : s = Shop!Clicked
    OBVIOUS
  <1>2. s \in ShopScreen /\ ShopAlike(s, screen) /\ s.sure = screen.sure
    BY <1>1, ShopKnows, ShopClicked DEF Shop!Clicked
  <1>0. PICK none : none = {}
    OBVIOUS
  <1>3. screen.page # None /\ Shop!Mount(s, page, none, calls)
    BY <1>0, <1>1 DEF Shop!Open
  <1>4. ShopHeld(held) /\ \A c \in calls : ShopCall(c)
    BY ShopKnows
  <1>5. "hearts" \in s.sure => HeartsAreSure(s, Shop!Orphans(calls) \cup none, held)
    <2>1. "hearts" \in s.sure => HeartsAreSure(s, calls, held)
      BY <1>2, ShopKnows, HeartsOfAlike DEF ShopAlike
    <2>2. "hearts" \in s.sure => HeartsAreSure(s, Shop!Orphans(calls), held)
      BY <1>4, <2>1, HeartsOrphaned
    <2> QED
      BY <1>0, <2>2
  <1>6. "bell" \in s.sure => BellIsSure(s, Shop!Orphans(calls) \cup none, held)
    <2>1. "bell" \in s.sure => BellIsSure(s, calls, held)
      BY <1>2, ShopKnows, BellOfAlike DEF ShopAlike
    <2>2. "bell" \in s.sure => BellIsSure(s, Shop!Orphans(calls), held)
      BY <1>4, <2>1, BellOrphaned
    <2> QED
      BY <1>0, <2>2
  <1>7. "list" \in s.sure =>
           /\ NoneCross(calls, "list")
           /\ \A c \in calls :
                c.kind = "list" /\ c.reply \notin {None, Refused} => c.reply = Shop!Listing(held, c.arg)
    BY <1>2, ListsAnswered
  <1>8. \A c \in calls : ShopCall(c) /\ c.kind # "me"
    BY <1>3, AtPage
  <1>20. \A c \in none : ShopCall(c) /\ c.kind \in {"ids", "bell"} /\ c.reply = None
    BY <1>0
  <1>21. /\ "hearts" \in s.sure /\ ApartOn("hearts", Shop!Orphans(calls), none) =>
              HeartsAreSure(s, Shop!Orphans(calls) \cup none, held)
         /\ "bell" \in s.sure /\ ApartOn("bell", Shop!Orphans(calls), none) =>
              BellIsSure(s, Shop!Orphans(calls) \cup none, held)
         /\ "list" \in s.sure /\ calls # {} =>
              /\ NoneCross(calls, "list")
              /\ \A c \in calls :
                   c.kind = "list" /\ c.reply \notin {None, Refused} => c.reply = Shop!Listing(held, c.arg)
    BY <1>5, <1>6, <1>7
  <1> QED
    BY <1>2, <1>3, <1>4, <1>5, <1>6, <1>7, <1>8, <1>20, <1>21, ShopMounts

LEMMA SignedOut ==
  ASSUME ShopPageInv, Shop!SignOut
  PROVE  ShopPageInv'
  <1>1. PICK u : u = Shop!Clicked
    OBVIOUS
  <1>2. u \in ShopScreen /\ ShopAlike(u, screen) /\ u.sure = screen.sure
    BY <1>1, ShopKnows, ShopClicked DEF Shop!Clicked
  <1>3. PICK ff \in BOOLEAN : ff = FALSE
    OBVIOUS
  <1>4. PICK empty \in SUBSET Ids : empty = {}
    OBVIOUS
  <1>5. PICK bell \in ShopBells : bell = Shop!Start.bell
    <2>1. Shop!Start.bell = [unread |-> {}, count |-> 0]
      BY DEF Shop!Start
    <2>2. [unread |-> {}, count |-> 0] \in ShopBells
      BY DEF ShopBells
    <2> QED
      BY <2>1, <2>2, Zenon
  <1>6. PICK s : s = [u EXCEPT !.user = ff, !.hearts = empty, !.bell = bell]
    OBVIOUS
  <1>7. s \in ShopScreen /\ s.user = ff /\ s.sure = u.sure
    BY <1>2, <1>6 DEF ShopScreen
  <1>8. Shop!Mount([Shop!Clicked EXCEPT !.user = FALSE, !.hearts = {}, !.bell = Shop!Start.bell], "home", {}, calls)
    BY Zenon DEF Shop!SignOut
  <1>0. PICK none : none = {}
    OBVIOUS
  <1>9. Shop!Mount(s, "home", none, calls)
    BY <1>0, <1>1, <1>3, <1>4, <1>5, <1>6, <1>8, Zenon
  <1>10. screen.page # None
    BY SignedInAtPage DEF Shop!SignOut
  <1>11. ShopHeld(held) /\ \A c \in calls : ShopCall(c)
    BY ShopKnows
  <1>12. ~s.user
    BY <1>3, <1>7
  <1>13. "hearts" \in s.sure => HeartsAreSure(s, Shop!Orphans(calls) \cup none, held)
    <2>1. "hearts" \in s.sure => HeartsAreSure(screen, Shop!Orphans(calls), held)
      BY <1>2, <1>7, <1>11, ShopKnows, HeartsOrphaned
    <2> QED
      BY <1>0, <1>12, <2>1 DEF HeartsAreSure
  <1>14. "bell" \in s.sure => BellIsSure(s, Shop!Orphans(calls) \cup none, held)
    <2>1. "bell" \in s.sure => BellIsSure(screen, Shop!Orphans(calls), held)
      BY <1>2, <1>7, <1>11, ShopKnows, BellOrphaned
    <2> QED
      BY <1>0, <1>12, <2>1 DEF BellIsSure
  <1>15. "list" \in s.sure =>
           /\ NoneCross(calls, "list")
           /\ \A c \in calls :
                c.kind = "list" /\ c.reply \notin {None, Refused} => c.reply = Shop!Listing(held, c.arg)
    BY <1>2, <1>7, ListsAnswered
  <1>16. \A c \in calls : ShopCall(c) /\ c.kind # "me"
    BY <1>10, AtPage
  <1>17. "home" \in Shop!Pages
    BY DEF Shop!Pages
  <1>20. \A c \in none : ShopCall(c) /\ c.kind \in {"ids", "bell"} /\ c.reply = None
    BY <1>0
  <1>21. /\ "hearts" \in s.sure /\ ApartOn("hearts", Shop!Orphans(calls), none) =>
              HeartsAreSure(s, Shop!Orphans(calls) \cup none, held)
         /\ "bell" \in s.sure /\ ApartOn("bell", Shop!Orphans(calls), none) =>
              BellIsSure(s, Shop!Orphans(calls) \cup none, held)
         /\ "list" \in s.sure /\ calls # {} =>
              /\ NoneCross(calls, "list")
              /\ \A c \in calls :
                   c.kind = "list" /\ c.reply \notin {None, Refused} => c.reply = Shop!Listing(held, c.arg)
    BY <1>13, <1>14, <1>15
  <1> QED
    BY <1>7, <1>9, <1>11, <1>13, <1>14, <1>15, <1>16, <1>17, <1>20, <1>21, ShopMounts

LEMMA SignedIn ==
  ASSUME ShopPageInv, Shop!SignIn
  PROVE  ShopPageInv'
  <1>1. PICK u : u = Shop!Clicked
    OBVIOUS
  <1>2. u \in ShopScreen /\ ShopAlike(u, screen) /\ u.sure = screen.sure
    BY <1>1, ShopKnows, ShopClicked DEF Shop!Clicked
  <1>3. PICK page \in ShopPages : page = "signin"
    BY DEF ShopPages
  <1>4. PICK none \in {None} \cup SUBSET ShopRows : none = None
    OBVIOUS
  <1>5. PICK s : s = [u EXCEPT !.page = page, !.list = none]
    OBVIOUS
  <1>6. s \in ShopScreen /\ s.page = page /\ s.sure = u.sure /\ s.user = u.user
    BY <1>2, <1>5 DEF ShopScreen
  <1>7. PICK w : w = Shop!Call("login", None)
    OBVIOUS
  <1>8. PICK left : left = Shop!Orphans(calls)
    OBVIOUS
  <1>9. screen.page # None /\ ~screen.user /\ Shop!Send(s, {w}, left)
    BY <1>1, <1>3, <1>4, <1>5, <1>7, <1>8, Zenon DEF Shop!SignIn
  <1>10. ShopCall(w) /\ w.kind = "login" /\ w.live /\ w.reply = None
    BY <1>7, ShopBareIs
  <1>11. s.page = "signin" /\ s.page # None /\ ~s.user /\ s.sure = screen.sure
    BY <1>2, <1>3, <1>6, <1>9, ShopPagesNamed DEF ShopAlike, HeartsAlike
  <1>12. \A c \in calls : ShopCall(c) /\ c.kind # "me"
    BY <1>9, AtPage
  <1>13. \A d \in left : \E c \in calls : /\ d.kind = c.kind /\ d.arg = c.arg /\ d.reply = c.reply
                                          /\ ~d.live /\ ShopCall(d)
    <2> HIDE DEF ShopCall
    <2> QED
      BY <1>8, <1>12, OrphanIs
  <1>14. \A d \in left : ShopCall(d) /\ ~d.live /\ d.kind # "me"
    BY <1>12, <1>13
  <1>15. ShopStarted(s, left \cup {w})
    BY <1>10, <1>11, <1>14 DEF ShopStarted
  <1>16. \A topic : NoneCross({w}, topic)
    BY NoneCrossAlone
  <1>17. "list" \in s.sure /\ ApartOn("list", left, {w}) => ListIsSure(s, left \cup {w}, held)
    <2> SUFFICES ASSUME "list" \in screen.sure, ApartOn("list", left, {w})
                 PROVE  ListIsSure(s, left \cup {w}, held)
      BY <1>11
    <2>1. NoneCross(left, "list")
      BY <1>8, <1>12, ShopKnows, NoneCrossOrphans DEF ListIsSure
    <2>2. NoneCross(left \cup {w}, "list")
      BY <1>16, <2>1, NoneCrossTogether
    <2>3. w.kind \in Shop!Writes /\ "list" \in Shop!Topic(w)
      BY <1>10, TopicIs DEF Shop!Writes
    <2>4. \A d \in left : d.kind = "bell"
      <3> TAKE d \in left
      <3>1. "list" \notin Shop!Topic(d)
        BY <2>3, WriteApart
      <3>2. d.kind \in ShopReads \cup Shop!Writes
        BY <1>14 DEF ShopCall
      <3> QED
        BY <3>1, <3>2, TopicIs
    <2>5. \A c \in left \cup {w} : ListCallIsCurrent(c, s, held)
      BY <1>10, <1>11, <2>4 DEF ListCallIsCurrent
    <2>6. ListIsCurrent(s, left \cup {w}, held)
      BY <1>11 DEF ListIsCurrent
    <2> QED
      BY <2>2, <2>5, <2>6 DEF ListIsSure
  <1>18. "hearts" \in s.sure /\ ApartOn("hearts", left, {w}) => HeartsAreSure(s, left \cup {w}, held)
    <2> SUFFICES ASSUME "hearts" \in screen.sure, ApartOn("hearts", left, {w})
                 PROVE  HeartsAreSure(s, left \cup {w}, held)
      BY <1>11
    <2>1. HeartsAreSure(screen, left, held)
      BY <1>8, <1>12, ShopKnows, HeartsOrphaned
    <2>2. NoneCross(left \cup {w}, "hearts")
      BY <1>16, <2>1, NoneCrossTogether DEF HeartsAreSure
    <2> QED
      BY <1>10, <1>11, <2>1, <2>2 DEF HeartsAreSure
  <1>19. "bell" \in s.sure /\ ApartOn("bell", left, {w}) => BellIsSure(s, left \cup {w}, held)
    <2> SUFFICES ASSUME "bell" \in screen.sure, ApartOn("bell", left, {w})
                 PROVE  BellIsSure(s, left \cup {w}, held)
      BY <1>11
    <2>1. BellIsSure(screen, left, held)
      BY <1>8, <1>12, ShopKnows, BellOrphaned
    <2>2. NoneCross(left \cup {w}, "bell")
      BY <1>16, <2>1, NoneCrossTogether DEF BellIsSure
    <2> QED
      BY <1>10, <1>11, <2>1, <2>2 DEF BellIsSure
  <1>20. ShopHeld(held) /\ \A c \in left \cup {w} : ShopCall(c)
    BY <1>10, <1>14, ShopKnows
  <1> QED
    BY <1>6, <1>9, <1>15, <1>17, <1>18, <1>19, <1>20, ShopSends

-----------------------------------------------------------------------------
(* The server.                                                               *)
LEMMA NoticesRead ==
  ASSUME NEW rows \in SUBSET ShopRows, NEW ns, NEW m, m = Shop!MarkedRead(rows, ns)
  PROVE  m \in SUBSET ShopRows /\ Shop!Unread(m) \in SUBSET Shop!Unread(rows) /\ Shop!Unread(m) \cap ns = {}
  <1>1. PICK tt \in BOOLEAN : tt = TRUE
    OBVIOUS
  <1>2. \A q \in m : \E r \in rows : q = IF r.id \in ns THEN [r EXCEPT !.on = tt] ELSE r
    BY <1>1, Zenon DEF Shop!MarkedRead
  <1>3. \A r \in rows : /\ [r EXCEPT !.on = tt] \in ShopRows /\ [r EXCEPT !.on = tt].id = r.id
                        /\ [r EXCEPT !.on = tt].on = tt
    BY DEF ShopRows
  <1>4. \A q \in m : q \in ShopRows /\ (q.on \/ q.id \notin ns) /\ (q.on \/ q \in rows)
    BY <1>1, <1>2, <1>3
  <1>5. Shop!Unread(m) \in SUBSET Shop!Unread(rows) /\ Shop!Unread(m) \cap ns = {}
    BY <1>4 DEF Shop!Unread
  <1> QED
    BY <1>4, <1>5

LEMMA UnreadAreIds ==
  ASSUME NEW rows \in SUBSET ShopRows
  PROVE  Shop!Unread(rows) \in SUBSET Ids
  BY DEF Shop!Unread, ShopRows

LEMMA RowsMarked ==
  ASSUME NEW rows \in SUBSET ShopRows, NEW n
  PROVE  {[r EXCEPT !.on = r.id = n] : r \in rows} \in SUBSET ShopRows
  <1> SUFFICES ASSUME NEW r \in rows
               PROVE  [r EXCEPT !.on = r.id = n] \in ShopRows
    OBVIOUS
  <1>1. PICK b \in BOOLEAN : b = (r.id = n)
    OBVIOUS
  <1>2. r \in ShopRows
    OBVIOUS
  <1>3. [r EXCEPT !.on = b] \in ShopRows
    BY <1>2 DEF ShopRows
  <1> QED
    BY <1>1, <1>3

LEMMA HeldChanged ==
  ASSUME NEW h, ShopHeld(h)
  PROVE  /\ \A x \in SUBSET Ids : LET g == [h EXCEPT !.wish = x] IN
              /\ ShopHeld(g) /\ g.wish = x /\ g.home = h.home /\ g.reviews = h.reviews /\ g.notes = h.notes
              /\ g.addresses = h.addresses
         /\ \A x \in SUBSET ShopRows : LET g == [h EXCEPT !.reviews = x] IN
              ShopHeld(g) /\ g.wish = h.wish /\ g.home = h.home /\ g.notes = h.notes
         /\ \A x \in SUBSET ShopRows : LET g == [h EXCEPT !.notes = x] IN
              /\ ShopHeld(g) /\ g.wish = h.wish /\ g.home = h.home /\ g.reviews = h.reviews /\ g.notes = x
              /\ g.addresses = h.addresses
         /\ \A x \in SUBSET ShopRows : LET g == [h EXCEPT !.addresses = x] IN
              ShopHeld(g) /\ g.wish = h.wish /\ g.home = h.home /\ g.notes = h.notes
  <1>1. PICK w, o, r, n, a : h = [wish |-> w, home |-> o, reviews |-> r, notes |-> n, addresses |-> a]
    BY DEF ShopHeld
  <1>2. ASSUME NEW x \in SUBSET Ids, NEW g, g = [h EXCEPT !.wish = x]
        PROVE  /\ ShopHeld(g) /\ g.wish = x /\ g.home = h.home /\ g.reviews = h.reviews /\ g.notes = h.notes
               /\ g.addresses = h.addresses
    <2>1. g = [wish |-> x, home |-> o, reviews |-> r, notes |-> n, addresses |-> a]
      BY <1>1, <1>2
    <2> QED
      BY <1>1, <2>1 DEF ShopHeld
  <1>3. ASSUME NEW x \in SUBSET ShopRows, NEW g, g = [h EXCEPT !.reviews = x]
        PROVE  ShopHeld(g) /\ g.wish = h.wish /\ g.home = h.home /\ g.notes = h.notes
    <2>1. g = [wish |-> w, home |-> o, reviews |-> x, notes |-> n, addresses |-> a]
      BY <1>1, <1>3
    <2> QED
      BY <1>1, <2>1 DEF ShopHeld
  <1>4. ASSUME NEW x \in SUBSET ShopRows, NEW g, g = [h EXCEPT !.notes = x]
        PROVE  /\ ShopHeld(g) /\ g.wish = h.wish /\ g.home = h.home /\ g.reviews = h.reviews /\ g.notes = x
               /\ g.addresses = h.addresses
    <2>1. g = [wish |-> w, home |-> o, reviews |-> r, notes |-> x, addresses |-> a]
      BY <1>1, <1>4
    <2> QED
      BY <1>1, <2>1 DEF ShopHeld
  <1>5. ASSUME NEW x \in SUBSET ShopRows, NEW g, g = [h EXCEPT !.addresses = x]
        PROVE  ShopHeld(g) /\ g.wish = h.wish /\ g.home = h.home /\ g.notes = h.notes
    <2>1. g = [wish |-> w, home |-> o, reviews |-> r, notes |-> n, addresses |-> x]
      BY <1>1, <1>5
    <2> QED
      BY <1>1, <2>1 DEF ShopHeld
  <1> QED
    BY <1>2, <1>3, <1>4, <1>5, Zenon

LEMMA ShopServedIs ==
  ASSUME NEW c, ShopCall(c), NEW h, ShopHeld(h), NEW g \in Shop!Served(c, h)
  PROVE  /\ ShopHeld(g) /\ g.home = h.home
         /\ IF c.kind \in {"heart", "unsave"} THEN g.wish = Toggled(h.wish, c.arg) ELSE g.wish = h.wish
         /\ IF c.kind \in {"read", "readInBell"} THEN g.notes = Shop!MarkedRead(h.notes, c.arg) ELSE g.notes = h.notes
         /\ c.kind # "write" => g.reviews = h.reviews /\ g.addresses = h.addresses
  <1>1. CASE c.kind \in {"heart", "unsave"}
    <2>1. PICK x : x = Toggled(h.wish, c.arg)
      OBVIOUS
    <2>2. x \in SUBSET Ids
      BY <1>1, <2>1 DEF Toggled, ShopHeld, ShopCall
    <2>3. g = [h EXCEPT !.wish = x]
      BY <1>1, <2>1 DEF Shop!Served, Toggled
    <2> QED
      BY <1>1, <2>1, <2>2, <2>3, HeldChanged
  <1>2. CASE c.kind \in {"read", "readInBell"}
    <2>1. PICK x : x = Shop!MarkedRead(h.notes, c.arg)
      OBVIOUS
    <2>2. x \in SUBSET ShopRows
      <3>1. PICK rows \in SUBSET ShopRows : rows = h.notes
        BY DEF ShopHeld
      <3>2. x = Shop!MarkedRead(rows, c.arg)
        BY <2>1, <3>1
      <3> QED
        BY <3>2, NoticesRead
    <2>3. g = [h EXCEPT !.notes = x]
      BY <1>2, <2>1 DEF Shop!Served
    <2> QED
      BY <1>2, <2>1, <2>2, <2>3, HeldChanged
  <1>3. CASE c.kind = "write"
    <2>1. g = h \/ g \in Shop!Changed(h, c.arg)
      BY <1>3 DEF Shop!Served
    <2>2. ASSUME c.arg.page = "reviews", g \in Shop!Changed(h, c.arg)
          PROVE  \E x \in SUBSET ShopRows : g = [h EXCEPT !.reviews = x]
      <3>1. {r \in h.reviews : r.id # c.arg.id} \in SUBSET ShopRows
        BY DEF ShopHeld
      <3>2. g = [h EXCEPT !.reviews = {r \in h.reviews : r.id # c.arg.id}]
        <4>1. c.arg.op # "default"
          BY <1>3, <2>2 DEF ShopCall
        <4> QED
          BY <2>2, <4>1 DEF Shop!Changed
      <3> QED
        BY <3>1, <3>2
    <2>3. ASSUME c.arg.page # "reviews", g \in Shop!Changed(h, c.arg)
          PROVE  \E x \in SUBSET ShopRows : g = [h EXCEPT !.addresses = x]
      <3>1. PICK left \in SUBSET ShopRows : left = {r \in h.addresses : r.id # c.arg.id}
        BY DEF ShopHeld
      <3>2. \/ g = [h EXCEPT !.addresses = {[r EXCEPT !.on = r.id = c.arg.id] : r \in h.addresses}]
            \/ g = [h EXCEPT !.addresses = left]
            \/ \E heir \in left : g = [h EXCEPT !.addresses = {[r EXCEPT !.on = r.id = heir.id] : r \in left}]
        BY <2>3, <3>1 DEF Shop!Changed
      <3>3. \A n : {[r EXCEPT !.on = r.id = n] : r \in h.addresses} \in SUBSET ShopRows
        BY RowsMarked DEF ShopHeld
      <3>4. \A n : {[r EXCEPT !.on = r.id = n] : r \in left} \in SUBSET ShopRows
        BY RowsMarked
      <3>5. CASE g = [h EXCEPT !.addresses = {[r EXCEPT !.on = r.id = c.arg.id] : r \in h.addresses}]
        <4>1. PICK x \in SUBSET ShopRows : x = {[r EXCEPT !.on = r.id = c.arg.id] : r \in h.addresses}
          BY <3>3, Zenon
        <4> QED
          BY <3>5, <4>1, Zenon
      <3>6. CASE \E heir \in left : g = [h EXCEPT !.addresses = {[r EXCEPT !.on = r.id = heir.id] : r \in left}]
        <4>1. PICK heir \in left : g = [h EXCEPT !.addresses = {[r EXCEPT !.on = r.id = heir.id] : r \in left}]
          BY <3>6, Zenon
        <4>2. PICK x \in SUBSET ShopRows : x = {[r EXCEPT !.on = r.id = heir.id] : r \in left}
          BY <3>4, Zenon
        <4> QED
          BY <4>1, <4>2, Zenon
      <3> QED
        BY <3>2, <3>5, <3>6, Zenon
    <2>4. CASE c.arg.page = "reviews" /\ g \in Shop!Changed(h, c.arg)
      <3>1. PICK x \in SUBSET ShopRows : g = [h EXCEPT !.reviews = x]
        BY <2>2, <2>4
      <3>2. ShopHeld(g) /\ g.wish = h.wish /\ g.home = h.home /\ g.notes = h.notes
        BY <3>1, HeldChanged, Zenon
      <3> QED
        BY <1>3, <3>2
    <2>5. CASE c.arg.page # "reviews" /\ g \in Shop!Changed(h, c.arg)
      <3>1. PICK x \in SUBSET ShopRows : g = [h EXCEPT !.addresses = x]
        BY <2>3, <2>5
      <3>2. ShopHeld(g) /\ g.wish = h.wish /\ g.home = h.home /\ g.notes = h.notes
        BY <3>1, HeldChanged, Zenon
      <3> QED
        BY <1>3, <3>2
    <2>6. CASE g = h
      BY <1>3, <2>6
    <2> QED
      BY <2>1, <2>4, <2>5, <2>6
  <1>4. CASE c.kind \notin {"heart", "unsave", "read", "readInBell", "write"}
    BY <1>4 DEF Shop!Served
  <1> QED
    BY <1>1, <1>2, <1>3, <1>4

LEMMA ShopAnswerIs ==
  ASSUME NEW c, ShopCall(c), NEW h, ShopHeld(h), NEW d, d = [c EXCEPT !.reply = Shop!Reply(c, h)]
  PROVE  /\ ShopCall(d) /\ d.kind = c.kind /\ d.arg = c.arg /\ d.live = c.live /\ d.reply = Shop!Reply(c, h)
         /\ c.kind # "list" => d.reply # None
  <1>1. PICK r : r = Shop!Reply(c, h)
    OBVIOUS
  <1>2. PICK k, a, l, o : c = [kind |-> k, arg |-> a, live |-> l, reply |-> o]
    BY DEF ShopCall
  <1>3. d = [kind |-> k, arg |-> a, live |-> l, reply |-> r]
    BY <1>1, <1>2
  <1>4. /\ d.kind = c.kind /\ d.arg = c.arg /\ d.live = c.live /\ d.reply = r
        /\ d = [kind |-> d.kind, arg |-> d.arg, live |-> d.live, reply |-> d.reply]
    BY <1>2, <1>3
  <1>5. CASE c.kind = "list"
    <2>1. r = Shop!Listing(h, c.arg)
      BY <1>1, <1>5, Zenon DEF Shop!Reply
    <2>2. r \in SUBSET ShopRows
      BY <2>1 DEF Shop!Listing, Shop!Pick, ShopHeld
    <2>3. ShopCall(d)
      BY <1>4, <1>5, <2>2 DEF ShopCall
    <2> QED
      BY <1>1, <1>4, <1>5, <2>3
  <1>6. CASE c.kind = "ids"
    <2>1. r = h.wish
      BY <1>1, <1>6 DEF Shop!Reply
    <2>2. r \in SUBSET Ids /\ r # None
      BY <2>1, SetsAreAnswers DEF ShopHeld
    <2>3. ShopCall(d)
      BY <1>4, <1>6, <2>2 DEF ShopCall
    <2> QED
      BY <1>1, <1>4, <1>6, <2>2, <2>3
  <1>7. CASE c.kind = "bell"
    <2>1. r = Shop!Unread(h.notes)
      BY <1>1, <1>7 DEF Shop!Reply
    <2>2. r \in SUBSET Ids /\ r # None
      BY <2>1, SetsAreAnswers, UnreadAreIds DEF ShopHeld
    <2>3. ShopCall(d)
      BY <1>4, <1>7, <2>2 DEF ShopCall
    <2> QED
      BY <1>1, <1>4, <1>7, <2>2, <2>3
  <1>8. CASE c.kind = "write"
    <2>1. r = Refused \/ r = Done
      BY <1>1, <1>8 DEF Shop!Reply, Done
    <2>2. r # None
      BY <2>1, DoneIsAnAnswer, PageAssumption
    <2>3. ShopCall(d)
      BY <1>4, <1>8 DEF ShopCall
    <2> QED
      BY <1>1, <1>4, <1>8, <2>2, <2>3
  <1>9. CASE c.kind \notin {"list", "ids", "bell", "write"}
    <2>1. r = Done
      BY <1>1, <1>9 DEF Shop!Reply, Done
    <2>2. r # None
      BY <2>1, DoneIsAnAnswer
    <2>3. ShopCall(d)
      BY <1>4, <1>9, <2>1 DEF ShopCall
    <2> QED
      BY <1>1, <1>4, <1>9, <2>2, <2>3
  <1> QED
    BY <1>5, <1>6, <1>7, <1>8, <1>9

LEMMA NoneCrossServed ==
  ASSUME NEW cs, NEW c \in cs, NEW d, d.kind = c.kind, d.arg = c.arg, NEW topic, NoneCross(cs, topic)
  PROVE  NoneCross((cs \ {c}) \cup {d}, topic)
  <1>1. Shop!Topic(d) = Shop!Topic(c)
    BY DEF Shop!Topic
  <1>2. \A x : (Shop!Cross(x, d) <=> Shop!Cross(x, c)) /\ (Shop!Cross(d, x) <=> Shop!Cross(c, x))
    BY DEF Shop!Cross
  <1> SUFFICES ASSUME NEW x \in (cs \ {c}) \cup {d}, NEW y \in (cs \ {c}) \cup {d}, x # y,
                      topic \in Shop!Topic(x), topic \in Shop!Topic(y), Shop!Cross(x, y)
               PROVE  FALSE
    BY DEF NoneCross
  <1>3. CASE x # d /\ y # d
    BY <1>3 DEF NoneCross
  <1>4. CASE x = d
    BY <1>1, <1>2, <1>4 DEF NoneCross
  <1>5. CASE y = d
    BY <1>1, <1>2, <1>5 DEF NoneCross
  <1> QED
    BY <1>3, <1>4, <1>5

(* A write is served while nothing else is under way about its topic.        *)
LEMMA ListWriteAlone ==
  ASSUME ShopPageInv, "list" \in screen.sure, NEW c \in calls, c.kind \in Shop!Writes
  PROVE  \A d \in calls \ {c} : d.kind = "bell"
  <1> TAKE d \in calls \ {c}
  <1>1. "list" \in Shop!Topic(c)
    BY TopicIs DEF Shop!Writes
  <1>2. NoneCross(calls, "list")
    BY ShopKnows DEF ListIsSure
  <1>3. "list" \notin Shop!Topic(d)
    BY <1>1, <1>2, WriteAlone
  <1>4. d.kind \in ShopReads \cup Shop!Writes
    BY ShopKnows DEF ShopCall
  <1> QED
    BY <1>3, <1>4, TopicIs

LEMMA ListServed ==
  ASSUME ShopPageInv, "list" \in screen.sure, NEW c \in calls, c.reply = None, NEW g \in Shop!Served(c, held),
         NEW d, d = [c EXCEPT !.reply = Shop!Reply(c, held)]
  PROVE  ListIsSure(screen, (calls \ {c}) \cup {d}, g)
  <1> DEFINE cs == (calls \ {c}) \cup {d}
  <1>1. ShopCall(c) /\ ShopHeld(held) /\ ListIsSure(screen, calls, held)
    BY ShopKnows
  <1>2. /\ ShopCall(d) /\ d.kind = c.kind /\ d.arg = c.arg /\ d.live = c.live
        /\ c.kind = "list" => d.reply = Shop!Listing(held, c.arg)
        /\ c.kind # "list" => d.reply # None
    <2>1. c.kind = "list" => d.reply = Shop!Listing(held, c.arg)
      <3>1. d.reply = Shop!Reply(c, held)
        BY <1>1, ShopAnswerIs
      <3> QED
        BY <3>1 DEF Shop!Reply
    <2>2. ShopCall(d) /\ d.kind = c.kind /\ d.arg = c.arg /\ d.live = c.live
      BY <1>1, ShopAnswerIs
    <2>3. c.kind # "list" => d.reply # None
      BY <1>1, ShopAnswerIs
    <2> QED
      BY <2>1, <2>2, <2>3
  <1>3. /\ ShopHeld(g) /\ g.home = held.home
        /\ IF c.kind \in {"heart", "unsave"} THEN g.wish = Toggled(held.wish, c.arg) ELSE g.wish = held.wish
        /\ IF c.kind \in {"read", "readInBell"} THEN g.notes = Shop!MarkedRead(held.notes, c.arg)
           ELSE g.notes = held.notes
        /\ c.kind # "write" => g.reviews = held.reviews /\ g.addresses = held.addresses
    BY <1>1, ShopServedIs
  <1>4. NoneCross(cs, "list")
    BY <1>1, <1>2, NoneCrossServed DEF ListIsSure
  <1>5. c.kind \in Shop!Writes => \A x \in calls \ {c} : x.kind = "bell"
    BY ListWriteAlone
  <1>6. c.kind \in ShopReads \cup Shop!Writes
    BY <1>1 DEF ShopCall
  <1>7. c.kind \notin Shop!Writes => \A arg : Shop!Listing(g, arg) = Shop!Listing(held, arg)
    BY <1>3 DEF Shop!Writes, Shop!Listing
  <1>8. \A x \in cs : ListCallIsCurrent(x, screen, g)
    <2>1. \A x \in calls : ListCallIsCurrent(x, screen, held)
      BY <1>1 DEF ListIsSure
    <2>2. CASE c.kind \in Shop!Writes
      <3>1. \A x \in calls \ {c} : ListCallIsCurrent(x, screen, g)
        BY <1>5, <2>2 DEF ListCallIsCurrent
      <3>2. ListCallIsCurrent(d, screen, g)
        BY <1>2, <2>1, <2>2 DEF ListCallIsCurrent, Shop!Writes
      <3> QED
        BY <3>1, <3>2
    <2>3. CASE c.kind \notin Shop!Writes
      <3>1. \A x \in calls \ {c} : ListCallIsCurrent(x, screen, g)
        BY <1>7, <2>1, <2>3 DEF ListCallIsCurrent
      <3>2. ListCallIsCurrent(d, screen, g)
        BY <1>2, <1>7, <2>1, <2>3 DEF ListCallIsCurrent, Shop!Writes
      <3> QED
        BY <3>1, <3>2
    <2> QED
      BY <2>2, <2>3
  <1>9. ListIsCurrent(screen, cs, g)
    <2>1. ListIsCurrent(screen, calls, held) /\ ListCallIsCurrent(c, screen, held)
      BY <1>1 DEF ListIsSure
    <2>2. CASE c.kind \notin Shop!Writes
      <3>1. c.kind \notin {"unsave", "read", "write", "readInBell"}
        BY <2>2 DEF Shop!Writes
      <3>2. Shop!Listing(g, Here(screen)) = Shop!Listing(held, Here(screen))
        BY <1>7, <2>2
      <3> QED
        BY <1>2, <2>1, <3>1, <3>2 DEF ListIsCurrent
    <2>3. CASE c.kind = "login"
      BY <2>1, <2>3 DEF ListIsCurrent, ListCallIsCurrent
    <2>4. CASE c.kind \in {"write", "readInBell"}
      BY <1>2, <2>4 DEF ListIsCurrent
    <2>5. ASSUME c.kind \in {"heart", "unsave", "read"}
          PROVE  screen.list = Shop!Listing(held, Here(screen))
      <3>1. screen.page \notin {None, "signin"}
        BY <2>1, <2>5, ShopPagesNamed DEF ListCallIsCurrent
      <3>2. \A x \in calls : x # c => x.kind = "bell"
        BY <1>5, <2>5 DEF Shop!Writes
      <3> QED
        BY <2>1, <2>5, <3>1, <3>2 DEF ListIsCurrent
    <2>6. Here(screen).page = screen.page
      BY DEF Here
    <2>7. CASE c.kind = "heart"
      <3>1. screen.page = "home"
        BY <2>1, <2>7 DEF ListCallIsCurrent
      <3>2. Shop!Listing(g, Here(screen)) = Shop!Listing(held, Here(screen))
        BY <1>3, <2>6, <3>1 DEF Shop!Listing
      <3>3. \A x \in cs : x.kind \notin {"unsave", "read"}
        BY <1>2, <1>5, <2>7 DEF Shop!Writes
      <3> QED
        BY <2>5, <2>7, <3>2, <3>3 DEF ListIsCurrent
    <2>8. CASE c.kind = "unsave"
      <3>1. screen.page = "wishlist"
        BY <2>1, <2>8 DEF ListCallIsCurrent
      <3>2. \A h : Shop!Listing(h, Here(screen)) = {r \in h.home : r.id \in h.wish}
        BY <2>6, <3>1 DEF Shop!Listing
      <3>3. g.wish = held.wish \ {c.arg.id}
        BY <1>1, <1>3, <2>8 DEF Toggled, ShopCall
      <3>4. screen.list = {r \in held.home : r.id \in held.wish}
        BY <2>5, <2>8, <3>2
      <3>5. {r \in screen.list : r.id # c.arg.id} = {r \in held.home : r.id \in held.wish \ {c.arg.id}}
        BY <3>4
      <3>6. Shop!Listing(g, Here(screen)) = {r \in held.home : r.id \in held.wish \ {c.arg.id}}
        BY <1>3, <3>2, <3>3
      <3>7. {r \in screen.list : r.id # d.arg.id} = Shop!Listing(g, Here(screen))
        BY <1>2, <3>5, <3>6
      <3> QED
        BY <1>2, <2>8, <3>7 DEF ListIsCurrent
    <2>9. CASE c.kind = "read"
      <3>1. screen.page = "notes"
        BY <2>1, <2>9 DEF ListCallIsCurrent
      <3>2. \A h : Shop!Listing(h, Here(screen)) = h.notes
        BY <2>6, <3>1 DEF Shop!Listing
      <3>3. Shop!MarkedRead(screen.list, d.arg) = Shop!Listing(g, Here(screen))
        BY <1>2, <1>3, <2>5, <2>9, <3>2
      <3> QED
        BY <1>2, <2>9, <3>3 DEF ListIsCurrent
    <2> QED
      BY <1>6, <2>2, <2>3, <2>4, <2>7, <2>8, <2>9 DEF Shop!Writes
  <1> QED
    BY <1>4, <1>8, <1>9 DEF ListIsSure

LEMMA HeartsServed ==
  ASSUME ShopPageInv, "hearts" \in screen.sure, NEW c \in calls, c.reply = None, NEW g \in Shop!Served(c, held),
         NEW d, d = [c EXCEPT !.reply = Shop!Reply(c, held)]
  PROVE  HeartsAreSure(screen, (calls \ {c}) \cup {d}, g)
  <1> DEFINE cs == (calls \ {c}) \cup {d}
  <1>1. ShopCall(c) /\ ShopHeld(held) /\ HeartsAreSure(screen, calls, held)
    BY ShopKnows
  <1>2. /\ ShopCall(d) /\ d.kind = c.kind /\ d.arg = c.arg
        /\ c.kind = "ids" => d.reply = held.wish
        /\ c.kind # "list" => d.reply # None
    <2>1. c.kind = "ids" => d.reply = held.wish
      <3>1. d.reply = Shop!Reply(c, held)
        BY <1>1, ShopAnswerIs
      <3> QED
        BY <3>1 DEF Shop!Reply
    <2>2. ShopCall(d) /\ d.kind = c.kind /\ d.arg = c.arg /\ d.live = c.live
      BY <1>1, ShopAnswerIs
    <2>3. c.kind # "list" => d.reply # None
      BY <1>1, ShopAnswerIs
    <2> QED
      BY <2>1, <2>2, <2>3
  <1>3. IF c.kind \in {"heart", "unsave"} THEN g.wish = Toggled(held.wish, c.arg) ELSE g.wish = held.wish
    BY <1>1, ShopServedIs
  <1>4. NoneCross(cs, "hearts")
    BY <1>1, <1>2, NoneCrossServed DEF HeartsAreSure
  <1>5. CASE c.kind \notin {"heart", "unsave"}
    <2>1. \A x \in cs : /\ x.kind = "ids" => x.reply \in {None, g.wish}
                        /\ x.kind = "login" => ~screen.user
      BY <1>1, <1>2, <1>3, <1>5 DEF HeartsAreSure
    <2>2. HeartsAreCurrent(screen, calls, held) => HeartsAreCurrent(screen, cs, g)
      BY <1>2, <1>3, <1>5 DEF HeartsAreCurrent
    <2> QED
      BY <1>1, <1>4, <2>1, <2>2 DEF HeartsAreSure
  <1>6. CASE c.kind \in {"heart", "unsave"}
    <2>1. \A x \in calls : x # c => x.kind \notin {"ids", "heart", "unsave", "me", "login"}
      <3> TAKE x \in calls
      <3>1. c.kind \in Shop!Writes /\ "hearts" \in Shop!Topic(c)
        BY <1>6, TopicIs DEF Shop!Writes
      <3>2. x # c => "hearts" \notin Shop!Topic(x)
        BY <1>1, <3>1, WriteAlone DEF HeartsAreSure
      <3>3. x.kind \in ShopReads \cup Shop!Writes
        BY ShopKnows DEF ShopCall
      <3> QED
        BY <3>2, <3>3, TopicIs
    <2>2. \A x \in cs : x.kind \notin {"ids", "login"}
      BY <1>2, <1>6, <2>1
    <2>3. ASSUME screen.user PROVE HeartsAreCurrent(screen, cs, g)
      <3>1. HeartsAreCurrent(screen, calls, held)
        BY <1>1, <2>3 DEF HeartsAreSure
      <3>2. screen.hearts \ screen.removed = held.wish \ screen.removed
        BY <1>6, <2>1, <3>1 DEF HeartsAreCurrent
      <3>3. g.wish = Toggled(held.wish, c.arg)
        BY <1>3, <1>6
      <3>4. CASE c.kind = "heart"
        <4>1. Toggled(screen.hearts, d.arg) \ screen.removed = g.wish \ screen.removed
          BY <1>2, <3>2, <3>3 DEF Toggled
        <4> QED
          BY <1>2, <3>4, <4>1 DEF HeartsAreCurrent
      <3>5. CASE c.kind = "unsave"
        <4>1. screen.hearts \ (screen.removed \cup {d.arg.id}) = g.wish \ (screen.removed \cup {d.arg.id})
          BY <1>1, <1>2, <3>2, <3>3, <3>5 DEF Toggled, ShopCall
        <4> QED
          BY <1>2, <3>5, <4>1 DEF HeartsAreCurrent
      <3> QED
        BY <1>6, <3>4, <3>5
    <2> QED
      BY <1>4, <2>2, <2>3 DEF HeartsAreSure
  <1> QED
    BY <1>5, <1>6

LEMMA BellServed ==
  ASSUME ShopPageInv, "bell" \in screen.sure, NEW c \in calls, c.reply = None, NEW g \in Shop!Served(c, held),
         NEW d, d = [c EXCEPT !.reply = Shop!Reply(c, held)]
  PROVE  BellIsSure(screen, (calls \ {c}) \cup {d}, g)
  <1> DEFINE cs == (calls \ {c}) \cup {d}
  <1>1. ShopCall(c) /\ ShopHeld(held) /\ BellIsSure(screen, calls, held)
    BY ShopKnows
  <1>2. /\ ShopCall(d) /\ d.kind = c.kind /\ d.arg = c.arg
        /\ c.kind = "bell" => d.reply = Shop!Unread(held.notes)
    <2>1. c.kind = "bell" => d.reply = Shop!Unread(held.notes)
      <3>1. d.reply = Shop!Reply(c, held)
        BY <1>1, ShopAnswerIs
      <3> QED
        BY <3>1 DEF Shop!Reply
    <2>2. ShopCall(d) /\ d.kind = c.kind /\ d.arg = c.arg /\ d.live = c.live
      BY <1>1, ShopAnswerIs
    <2>3. c.kind # "list" => d.reply # None
      BY <1>1, ShopAnswerIs
    <2> QED
      BY <2>1, <2>2, <2>3
  <1>3. IF c.kind \in {"read", "readInBell"} THEN g.notes = Shop!MarkedRead(held.notes, c.arg)
        ELSE g.notes = held.notes
    BY <1>1, ShopServedIs
  <1>4. NoneCross(cs, "bell")
    BY <1>1, <1>2, NoneCrossServed DEF BellIsSure
  <1>5. CASE c.kind \notin {"read", "readInBell"}
    <2>1. \A x \in cs : /\ x.kind = "bell" => x.reply \in {None, Shop!Unread(g.notes)}
                        /\ x.kind = "login" => ~screen.user
      BY <1>1, <1>2, <1>3, <1>5 DEF BellIsSure
    <2>2. BellCounts(screen, calls, held) => BellCounts(screen, cs, g)
      BY <1>2, <1>3, <1>5 DEF BellCounts
    <2>3. (\E x \in calls : x.kind = "bell") => \E x \in cs : x.kind = "bell"
      BY <1>2
    <2> QED
      BY <1>1, <1>4, <2>1, <2>2, <2>3 DEF BellIsSure
  <1>6. CASE c.kind \in {"read", "readInBell"}
    <2>1. \A x \in calls : x # c => x.kind \notin {"bell", "read", "readInBell", "me", "login"}
      <3> TAKE x \in calls
      <3>1. c.kind \in Shop!Writes /\ "bell" \in Shop!Topic(c)
        BY <1>6, TopicIs DEF Shop!Writes
      <3>2. x # c => "bell" \notin Shop!Topic(x)
        BY <1>1, <3>1, WriteAlone DEF BellIsSure
      <3>3. x.kind \in ShopReads \cup Shop!Writes
        BY ShopKnows DEF ShopCall
      <3> QED
        BY <3>2, <3>3, TopicIs
    <2>2. \A x \in cs : x.kind \notin {"bell", "login"}
      BY <1>2, <1>6, <2>1
    <2>3. PICK rows \in SUBSET ShopRows : rows = held.notes
      BY <1>1 DEF ShopHeld
    <2>4. PICK m : m = Shop!MarkedRead(rows, c.arg)
      OBVIOUS
    <2>5. g.notes = m
      BY <1>3, <1>6, <2>3, <2>4
    <2>6. Shop!Unread(m) \in SUBSET Shop!Unread(rows) /\ Shop!Unread(m) \cap c.arg = {}
      BY <2>4, NoticesRead
    <2>7. ASSUME screen.user PROVE BellCounts(screen, cs, g)
      <3>1. BellCounts(screen, calls, held)
        BY <1>1, <1>6, <2>1, <2>7 DEF BellIsSure
      <3>2. Shop!Unread(g.notes) \in SUBSET screen.bell.unread
        BY <2>3, <2>5, <2>6, <3>1 DEF BellCounts
      <3>3. \A x \in cs : x.kind = "readInBell" => /\ x.arg \in SUBSET screen.bell.unread
                                                   /\ x.reply # None => Shop!Unread(g.notes) \cap x.arg = {}
        BY <1>2, <2>1, <2>5, <2>6, <3>1 DEF BellCounts
      <3> QED
        BY <3>1, <3>2, <3>3 DEF BellCounts
    <2> QED
      BY <1>4, <2>2, <2>7 DEF BellIsSure
  <1> QED
    BY <1>5, <1>6

LEMMA ShopServes ==
  ASSUME ShopPageInv, NEW c \in calls, Shop!Serve(c)
  PROVE  ShopPageInv'
  <1>1. PICK g \in Shop!Served(c, held) :
          /\ held' = g
          /\ calls' = (calls \ {c}) \cup {[c EXCEPT !.reply = Shop!Reply(c, held)]}
    BY Zenon DEF Shop!Serve
  <1>2. PICK d : d = [c EXCEPT !.reply = Shop!Reply(c, held)]
    OBVIOUS
  <1>3. PICK cs : cs = (calls \ {c}) \cup {d}
    OBVIOUS
  <1>4. screen' = screen /\ calls' = cs /\ held' = g /\ c.reply = None
    BY <1>1, <1>2, <1>3 DEF Shop!Serve
  <1>5. /\ screen \in ShopScreen /\ (\A x \in calls : ShopCall(x)) /\ ShopHeld(held) /\ ShopStarted(screen, calls)
    BY ShopKnows
  <1>6. ShopCall(d) /\ d.kind = c.kind /\ d.live = c.live
    BY <1>2, <1>5, ShopAnswerIs
  <1>7. ShopHeld(g)
    BY <1>5, ShopServedIs
  <1>8. ShopStarted(screen, cs)
    <2>1. screen.page = None => ~screen.user /\ \E x \in cs : cs = {x}
      <3>1. screen.page = None => cs = {d}
        BY <1>3, <1>5 DEF ShopStarted
      <3> QED
        BY <1>5, <3>1 DEF ShopStarted
    <2>2. \A x \in cs : /\ x.kind = "me" <=> screen.page = None
                        /\ x.live /\ x.kind \in {"unsave", "read"} => screen.list \in SUBSET ShopRows
      BY <1>3, <1>5, <1>6 DEF ShopStarted
    <2> QED
      BY <2>1, <2>2 DEF ShopStarted
  <1>9. "list" \in screen.sure => ListIsSure(screen, cs, g)
    BY <1>2, <1>3, <1>4, ListServed
  <1>10. "hearts" \in screen.sure => HeartsAreSure(screen, cs, g)
    BY <1>2, <1>3, <1>4, HeartsServed
  <1>11. "bell" \in screen.sure => BellIsSure(screen, cs, g)
    BY <1>2, <1>3, <1>4, BellServed
  <1>12. \A x \in cs : ShopCall(x)
    BY <1>3, <1>5, <1>6
  <1>13. ShopPageOK(screen, cs, g)
    BY <1>5, <1>7, <1>8, <1>9, <1>10, <1>11, <1>12 DEF ShopPageOK
  <1> QED
    BY <1>4, <1>13 DEF ShopPageInv

-----------------------------------------------------------------------------
(* The answers.                                                              *)
LEMMA ShopAnswering ==
  ASSUME ShopPageInv, NEW c \in calls, c.kind # "me"
  PROVE  ShopCall(c) /\ screen.page # None /\ ShopHeld(held) /\ \A d \in calls : ShopCall(d) /\ d.kind # "me"
  BY ShopKnows DEF ShopStarted

LEMMA ShopStaysStarted ==
  ASSUME ShopPageInv, NEW c \in calls, c.kind # "me", NEW s, s.page = screen.page, s.list = screen.list
  PROVE  ShopStarted(s, calls \ {c})
  <1>1. screen.page # None
    BY ShopAnswering
  <1> QED
    BY <1>1, ShopKnows DEF ShopStarted

(* Reads do not cross.                                                       *)
LEMMA ReadsApart ==
  ASSUME NEW cs, \A c \in cs : c.kind \in {"ids", "bell"}, NEW topic
  PROVE  NoneCross(cs, topic)
  BY DEF NoneCross, Shop!Cross, Shop!Writes

LEMMA TokenAnswered ==
  ASSUME ShopPageInv, NEW c \in calls, Shop!AnswerMe(c)
  PROVE  ShopPageInv'
  <1>1. PICK tt \in BOOLEAN : tt = TRUE
    OBVIOUS
  <1>2. PICK s : s = [screen EXCEPT !.user = tt]
    OBVIOUS
  <1>3. screen \in ShopScreen /\ ShopHeld(held) /\ ShopStarted(screen, calls) /\ c.kind = "me"
    BY ShopKnows DEF Shop!AnswerMe
  <1>4. s \in ShopScreen /\ s.user = tt
    BY <1>2, <1>3 DEF ShopScreen
  <1>5. PICK others : others = calls \ {c}
    OBVIOUS
  <1>6. others = {}
    BY <1>3, <1>5 DEF ShopStarted
  <1>7. PICK i, b : i = Shop!Call("ids", "start") /\ b = Shop!Call("bell", None)
    OBVIOUS
  <1>8. PICK new : new = {i, b}
    OBVIOUS
  <1>9. Shop!Mount(s, "home", new, others)
    BY <1>1, <1>2, <1>5, <1>7, <1>8, Zenon DEF Shop!AnswerMe
  <1>10. ShopCall(i) /\ i.kind = "ids" /\ i.reply = None /\ ShopCall(b) /\ b.kind = "bell" /\ b.reply = None
    BY <1>7, ShopBareIs
  <1>11. \A x \in new : ShopCall(x) /\ x.kind \in {"ids", "bell"} /\ x.reply = None
    BY <1>8, <1>10
  <1>12. PICK left : left = Shop!Orphans(others)
    OBVIOUS
  <1>13. left = {} /\ left \cup new = new
    BY <1>6, <1>12, OrphansOfNone
  <1>14. \A topic : NoneCross(new, topic)
    BY <1>11, ReadsApart
  <1>15. HeartsAreSure(s, new, held)
    BY <1>8, <1>10, <1>11, <1>14 DEF HeartsAreSure, HeartsAreCurrent
  <1>16. BellIsSure(s, new, held)
    BY <1>8, <1>10, <1>11, <1>14 DEF BellIsSure
  <1>17. "home" \in Shop!Pages
    BY DEF Shop!Pages
  <1>18. \A x \in others : ShopCall(x) /\ x.kind # "me"
    BY <1>6
  <1>19. HeartsAreSure(s, Shop!Orphans(others) \cup new, held) /\ BellIsSure(s, Shop!Orphans(others) \cup new, held)
    BY <1>12, <1>13, <1>15, <1>16
  <1> QED
    BY <1>3, <1>4, <1>6, <1>9, <1>11, <1>17, <1>18, <1>19, ShopMounts

(* Once signed in, the hearts and the bell are asked for.                    *)
LEMMA HeartsAskedAtLogin ==
  ASSUME ShopPageInv, "hearts" \in screen.sure, NEW c \in calls, c.kind = "login",
         NEW left, NoneCross(left, "hearts"),
         \A d \in left : \E x \in calls \ {c} : d.kind = x.kind,
         NEW new, \A x \in new : x.kind \in {"ids", "bell"} /\ x.reply = None, \E x \in new : x.kind = "ids",
         ApartOn("hearts", left, new), NEW s
  PROVE  HeartsAreSure(s, left \cup new, held)
  <1>1. \A d \in calls \ {c} : d.kind \notin {"ids", "login"}
    <2> TAKE d \in calls \ {c}
    <2>1. c.kind \in Shop!Writes /\ "hearts" \in Shop!Topic(c)
      BY TopicIs DEF Shop!Writes
    <2>2. "hearts" \notin Shop!Topic(d)
      BY <2>1, ShopKnows, WriteAlone DEF HeartsAreSure
    <2>3. d.kind \in ShopReads \cup Shop!Writes
      BY ShopKnows DEF ShopCall
    <2> QED
      BY <2>2, <2>3, TopicIs
  <1>2. NoneCross(left \cup new, "hearts")
    BY ReadsApart, NoneCrossTogether
  <1>3. \A x \in left : x.kind \notin {"ids", "login"}
    BY <1>1
  <1> QED
    BY <1>2, <1>3 DEF HeartsAreSure, HeartsAreCurrent

LEMMA BellAskedAtLogin ==
  ASSUME ShopPageInv, "bell" \in screen.sure, NEW c \in calls, c.kind = "login",
         NEW left, NoneCross(left, "bell"), \A d \in left : \E x \in calls \ {c} : d.kind = x.kind,
         NEW new, \A x \in new : x.kind \in {"ids", "bell"} /\ x.reply = None,
         ~screen.user => \E x \in new : x.kind = "bell", ApartOn("bell", left, new), NEW s
  PROVE  BellIsSure(s, left \cup new, held)
  <1>1. \A d \in calls \ {c} : d.kind \notin {"bell", "login"}
    <2> TAKE d \in calls \ {c}
    <2>1. c.kind \in Shop!Writes /\ "bell" \in Shop!Topic(c)
      BY TopicIs DEF Shop!Writes
    <2>2. "bell" \notin Shop!Topic(d)
      BY <2>1, ShopKnows, WriteAlone DEF BellIsSure
    <2>3. d.kind \in ShopReads \cup Shop!Writes
      BY ShopKnows DEF ShopCall
    <2> QED
      BY <2>2, <2>3, TopicIs
  <1>2. NoneCross(left \cup new, "bell")
    BY ReadsApart, NoneCrossTogether
  <1>3. \A x \in left : x.kind \notin {"bell", "login"}
    BY <1>1
  <1>4. ~screen.user
    BY ShopKnows DEF BellIsSure
  <1> QED
    BY <1>2, <1>3, <1>4 DEF BellIsSure

LEMMA LoginAnswered ==
  ASSUME ShopPageInv, NEW c \in calls, Shop!AnswerLogin(c)
  PROVE  ShopPageInv'
  <1>1. PICK tt \in BOOLEAN : tt = TRUE
    OBVIOUS
  <1>2. PICK s : s = [screen EXCEPT !.user = tt]
    OBVIOUS
  <1>3. screen \in ShopScreen /\ c.kind = "login"
    BY ShopKnows DEF Shop!AnswerLogin
  <1>4. s \in ShopScreen /\ s.sure = screen.sure /\ s.page = screen.page /\ s.list = screen.list
    BY <1>2, <1>3 DEF ShopScreen
  <1>5. PICK others : others = calls \ {c}
    OBVIOUS
  <1>6. PICK i, b : i = Shop!Call("ids", "login") /\ b = Shop!Call("bell", None)
    OBVIOUS
  <1>7. PICK new : new = {i} \cup (IF screen.user THEN {} ELSE {b})
    OBVIOUS
  <1>8. IF c.live THEN Shop!Mount(s, "reviews", new, others) ELSE Shop!Send(s, new, others)
    BY <1>1, <1>2, <1>5, <1>6, <1>7, Zenon DEF Shop!AnswerLogin
  <1>9. ShopCall(i) /\ i.kind = "ids" /\ i.reply = None /\ ShopCall(b) /\ b.kind = "bell" /\ b.reply = None
    BY <1>6, ShopBareIs
  <1>10. \A x \in new : ShopCall(x) /\ x.kind \in {"ids", "bell"} /\ x.reply = None
    BY <1>7, <1>9
  <1>11. (\E x \in new : x.kind = "ids") /\ (~screen.user => \E x \in new : x.kind = "bell")
    BY <1>7, <1>9
  <1>12. \A x \in others : ShopCall(x) /\ x.kind # "me"
    BY <1>3, <1>5, ShopAnswering
  <1>13. others \in SUBSET calls /\ ShopHeld(held) /\ screen.page # None
    BY <1>3, <1>5, ShopAnswering
  <1>14. CASE c.live
    <2>1. PICK left : left = Shop!Orphans(others)
      OBVIOUS
    <2>2. \A d \in left : \E x \in calls \ {c} : d.kind = x.kind
      <3> HIDE DEF ShopCall
      <3> QED
        BY <1>5, <1>12, <2>1, OrphanIs
    <2>3. \A topic : NoneCross(calls, topic) => NoneCross(left, topic)
      <3> HIDE DEF ShopCall
      <3> QED
        BY <1>12, <1>13, <2>1, NoneCrossFewer, NoneCrossOrphans
    <2>4. "hearts" \in s.sure /\ ApartOn("hearts", left, new) => HeartsAreSure(s, left \cup new, held)
      <3> SUFFICES ASSUME "hearts" \in screen.sure, ApartOn("hearts", left, new)
                   PROVE  HeartsAreSure(s, left \cup new, held)
        BY <1>4
      <3>1. NoneCross(left, "hearts")
        BY <2>3, ShopKnows DEF HeartsAreSure
      <3> QED
        BY <1>3, <1>10, <1>11, <2>2, <3>1, HeartsAskedAtLogin
    <2>5. "bell" \in s.sure /\ ApartOn("bell", left, new) => BellIsSure(s, left \cup new, held)
      <3> SUFFICES ASSUME "bell" \in screen.sure, ApartOn("bell", left, new)
                   PROVE  BellIsSure(s, left \cup new, held)
        BY <1>4
      <3>1. NoneCross(left, "bell")
        BY <2>3, ShopKnows DEF BellIsSure
      <3> QED
        BY <1>3, <1>10, <1>11, <2>2, <3>1, BellAskedAtLogin
    <2>6. "list" \in s.sure /\ others # {} =>
           /\ NoneCross(others, "list")
           /\ \A x \in others :
                x.kind = "list" /\ x.reply \notin {None, Refused} => x.reply = Shop!Listing(held, x.arg)
      BY <1>4, <1>13, ListsAnswered
    <2>7. "reviews" \in Shop!Pages /\ Shop!Mount(s, "reviews", new, others)
      BY <1>8, <1>14 DEF Shop!Pages
    <2>8. /\ "hearts" \in s.sure /\ ApartOn("hearts", Shop!Orphans(others), new) =>
               HeartsAreSure(s, Shop!Orphans(others) \cup new, held)
          /\ "bell" \in s.sure /\ ApartOn("bell", Shop!Orphans(others), new) =>
               BellIsSure(s, Shop!Orphans(others) \cup new, held)
      BY <2>1, <2>4, <2>5
    <2> QED
      BY <1>4, <1>10, <1>12, <1>13, <2>6, <2>7, <2>8, ShopMounts
  <1>15. CASE ~c.live
    <2>1. \A d \in others : \E x \in calls \ {c} : d.kind = x.kind
      BY <1>5
    <2>2. \A topic : NoneCross(calls, topic) => NoneCross(others, topic)
      BY <1>13, NoneCrossFewer
    <2>3. "hearts" \in s.sure /\ ApartOn("hearts", others, new) => HeartsAreSure(s, others \cup new, held)
      <3> SUFFICES ASSUME "hearts" \in screen.sure, ApartOn("hearts", others, new)
                   PROVE  HeartsAreSure(s, others \cup new, held)
        BY <1>4
      <3>1. NoneCross(others, "hearts")
        BY <2>2, ShopKnows DEF HeartsAreSure
      <3> QED
        BY <1>3, <1>10, <1>11, <2>1, <3>1, HeartsAskedAtLogin
    <2>4. "bell" \in s.sure /\ ApartOn("bell", others, new) => BellIsSure(s, others \cup new, held)
      <3> SUFFICES ASSUME "bell" \in screen.sure, ApartOn("bell", others, new)
                   PROVE  BellIsSure(s, others \cup new, held)
        BY <1>4
      <3>1. NoneCross(others, "bell")
        BY <2>2, ShopKnows DEF BellIsSure
      <3> QED
        BY <1>3, <1>10, <1>11, <2>1, <3>1, BellAskedAtLogin
    <2>5. "list" \notin s.sure
      BY <1>3, <1>4, <1>15, ShopKnows DEF ListIsSure, ListCallIsCurrent
    <2>6. ShopStarted(s, others \cup new)
      <3>1. ShopStarted(s, others)
        BY <1>3, <1>4, <1>5, ShopStaysStarted
      <3>2. \A x \in new : x.kind \notin {"me", "unsave", "read"}
        BY <1>10
      <3> QED
        BY <1>4, <1>13, <3>1, <3>2 DEF ShopStarted
    <2>7. \A x \in others \cup new : ShopCall(x)
      BY <1>10, <1>12
    <2>8. Shop!Send(s, new, others)
      BY <1>8, <1>15
    <2> QED
      BY <1>4, <1>13, <2>3, <2>4, <2>5, <2>6, <2>7, <2>8, ShopSends
  <1> QED
    BY <1>14, <1>15

LEMMA HeartsAnswered ==
  ASSUME ShopPageInv, NEW c \in calls, Shop!AnswerIds(c)
  PROVE  ShopPageInv'
  <1>1. screen \in ShopScreen /\ c.kind = "ids" /\ c.reply \notin {None, Refused}
    BY ShopKnows DEF Shop!AnswerIds, Shop!Received
  <1>2. ShopCall(c) /\ screen.page # None /\ ShopHeld(held) /\ \A d \in calls : ShopCall(d) /\ d.kind # "me"
    BY <1>1, ShopAnswering
  <1>3. PICK x \in SUBSET Ids : x = c.reply
    BY <1>1, <1>2 DEF ShopCall
  <1>4. PICK s : s = [screen EXCEPT !.hearts = x]
    OBVIOUS
  <1>5. /\ s \in ShopScreen /\ s.hearts = x /\ s.sure = screen.sure /\ s.user = screen.user
        /\ s.removed = screen.removed /\ ListAlike(s, screen) /\ BellAlike(s, screen)
    BY <1>1, <1>4 DEF ShopScreen, ListAlike, BellAlike
  <1>6. PICK others : others = calls \ {c}
    OBVIOUS
  <1>7. PICK none : none = {}
    OBVIOUS
  <1>8. Shop!Mount(s, "home", none, others) \/ Shop!Show(s, c)
    BY <1>3, <1>4, <1>6, <1>7, Zenon DEF Shop!AnswerIds
  <1>9. "list" \in s.sure => ListIsSure(s, others, held)
    BY <1>1, <1>5, <1>6, ShopKnows, ListWithout
  <1>10. "bell" \in s.sure => BellIsSure(s, others, held)
    BY <1>1, <1>5, <1>6, ShopKnows, BellWithout
  <1>11. "hearts" \in s.sure => HeartsAreSure(s, others, held)
    <2> SUFFICES ASSUME "hearts" \in screen.sure
                 PROVE  HeartsAreSure(s, others, held)
      BY <1>5
    <2>1. HeartsAreSure(screen, calls, held)
      BY ShopKnows
    <2>2. NoneCross(others, "hearts")
      BY <1>6, <2>1, NoneCrossFewer DEF HeartsAreSure
    <2>3. x = held.wish
      BY <1>1, <1>3, <2>1 DEF HeartsAreSure
    <2>4. \A d \in others : d.kind \notin {"heart", "unsave"}
      <3> TAKE d \in others
      <3>1. d \in calls /\ d # c
        BY <1>6
      <3>2. "hearts" \in Shop!Topic(c)
        BY <1>1, TopicIs DEF ShopReads
      <3>3. d.kind \in ShopReads \cup Shop!Writes
        BY <1>2, <3>1 DEF ShopCall
      <3>4. ~("hearts" \in Shop!Topic(d) /\ d.kind \in Shop!Writes)
        BY <2>1, <3>1, <3>2 DEF HeartsAreSure, NoneCross, Shop!Cross
      <3> QED
        BY <3>3, <3>4, TopicIs DEF Shop!Writes
    <2>5. HeartsAreCurrent(s, others, held)
      BY <1>5, <2>3, <2>4 DEF HeartsAreCurrent
    <2>6. \A d \in others : /\ d.kind = "ids" => d.reply \in {None, held.wish}
                            /\ d.kind = "login" => ~s.user
      BY <1>5, <1>6, <2>1 DEF HeartsAreSure
    <2> QED
      BY <2>2, <2>5, <2>6 DEF HeartsAreSure
  <1>12. CASE Shop!Show(s, c)
    <2>1. ShopStarted(s, calls \ {c})
      BY <1>1, <1>5, ShopStaysStarted DEF ListAlike
    <2> QED
      BY <1>5, <1>6, <1>9, <1>10, <1>11, <1>12, <2>1, ShopPageShows
  <1>13. CASE Shop!Mount(s, "home", none, others)
    <2>1. \A d \in others : ShopCall(d) /\ d.kind # "me"
      BY <1>2, <1>6
    <2>2. PICK left : left = Shop!Orphans(others)
      OBVIOUS
    <2>3. "hearts" \in s.sure => HeartsAreSure(s, left \cup none, held)
      <3>1. "hearts" \in s.sure => HeartsAreSure(s, left, held)
        BY <1>11, <2>1, <2>2, HeartsOrphaned
      <3> QED
        BY <1>7, <3>1
    <2>4. "bell" \in s.sure => BellIsSure(s, left \cup none, held)
      <3>1. "bell" \in s.sure => BellIsSure(s, left, held)
        BY <1>10, <2>1, <2>2, BellOrphaned
      <3> QED
        BY <1>7, <3>1
    <2>5. others \in SUBSET calls /\ "home" \in Shop!Pages
      BY <1>6 DEF Shop!Pages
    <2>6. /\ "hearts" \in s.sure /\ ApartOn("hearts", Shop!Orphans(others), none) =>
               HeartsAreSure(s, Shop!Orphans(others) \cup none, held)
          /\ "bell" \in s.sure /\ ApartOn("bell", Shop!Orphans(others), none) =>
               BellIsSure(s, Shop!Orphans(others) \cup none, held)
      BY <2>2, <2>3, <2>4
    <2>7. "list" \in s.sure /\ others # {} =>
           /\ NoneCross(others, "list")
           /\ \A d \in others :
                d.kind = "list" /\ d.reply \notin {None, Refused} => d.reply = Shop!Listing(held, d.arg)
      BY <1>5, <2>5, ListsAnswered
    <2>8. \A d \in none : ShopCall(d) /\ d.kind \in {"ids", "bell"} /\ d.reply = None
      BY <1>7
    <2> QED
      BY <1>2, <1>5, <1>13, <2>1, <2>5, <2>6, <2>7, <2>8, ShopMounts
  <1> QED
    BY <1>8, <1>12, <1>13

(* An answer nobody looks at any more, but for what it says of the account.  *)
LEMMA ListAnswered ==
  ASSUME ShopPageInv, NEW c \in calls, Shop!AnswerList(c)
  PROVE  ShopPageInv'
  <1>1. screen \in ShopScreen /\ c.kind = "list" /\ c.reply \notin {None, Refused}
    BY ShopKnows DEF Shop!AnswerList, Shop!Received
  <1>2. ShopCall(c) /\ screen.page # None /\ \A d \in calls : ShopCall(d) /\ d.kind # "me"
    BY <1>1, ShopAnswering
  <1>3. PICK x \in SUBSET ShopRows : x = c.reply
    BY <1>1, <1>2 DEF ShopCall
  <1>4. PICK n \in Nat : n = c.arg.number
    BY <1>1, <1>2 DEF ShopCall
  <1>5. PICK ff \in BOOLEAN : ff = FALSE
    OBVIOUS
  <1>6. PICK s : s = [screen EXCEPT !.list = x, !.number = n, !.loading = ff]
    OBVIOUS
  <1>7. /\ s \in ShopScreen /\ s.sure = screen.sure /\ s.page = screen.page /\ s.tag = screen.tag
        /\ s.list = x /\ s.number = n /\ HeartsAlike(s, screen) /\ BellAlike(s, screen)
    BY <1>1, <1>6 DEF ShopScreen, HeartsAlike, BellAlike
  <1>8. Shop!Show(IF c.live THEN s ELSE screen, c)
    BY <1>3, <1>4, <1>5, <1>6, Zenon DEF Shop!AnswerList, Shop!Pageless
  <1>9. CASE ~c.live
    <2>1. Shop!Show(screen, c)
      BY <1>8, <1>9
    <2>2. ShopStarted(screen, calls \ {c})
      BY <1>1, ShopStaysStarted
    <2>3. "list" \in screen.sure => ListIsSure(screen, calls \ {c}, held)
      BY <1>1, <1>9, ShopKnows, ListWithout DEF ListAlike
    <2>4. "hearts" \in screen.sure => HeartsAreSure(screen, calls \ {c}, held)
      BY <1>1, ShopKnows, HeartsWithout DEF HeartsAlike
    <2>5. "bell" \in screen.sure => BellIsSure(screen, calls \ {c}, held)
      BY <1>1, ShopKnows, BellWithout DEF BellAlike
    <2> QED
      BY <1>1, <2>1, <2>2, <2>3, <2>4, <2>5, ShopPageShows
  <1>10. CASE c.live
    <2>1. Shop!Show(s, c)
      BY <1>8, <1>10
    <2>2. ShopStarted(s, calls \ {c})
      BY <1>2, <1>7 DEF ShopStarted
    <2>3. "list" \in s.sure => ListIsSure(s, calls \ {c}, held)
      <3> SUFFICES ASSUME "list" \in screen.sure
                   PROVE  ListIsSure(s, calls \ {c}, held)
        BY <1>7
      <3>1. ListIsSure(screen, calls, held)
        BY ShopKnows
      <3>2. NoneCross(calls \ {c}, "list")
        BY <3>1, NoneCrossFewer DEF ListIsSure
      <3>3. \A d \in calls \ {c} : d.kind \notin Shop!Writes
        <4> TAKE d \in calls \ {c}
        <4>1. "list" \in Shop!Topic(c)
          BY <1>1, TopicIs DEF ShopReads
        <4>2. ~("list" \in Shop!Topic(d) /\ d.kind \in Shop!Writes)
          BY <3>1, <4>1 DEF ListIsSure, NoneCross, Shop!Cross
        <4> QED
          BY <4>2, TopicIs DEF Shop!Writes
      <3>4. \A d \in calls \ {c} : ListCallIsCurrent(d, s, held)
        BY <1>7, <3>1, <3>3 DEF ListIsSure, ListCallIsCurrent, Shop!Writes
      <3>5. /\ x = Shop!Listing(held, c.arg) /\ c.arg.page = s.page /\ c.arg.tag = s.tag
        BY <1>1, <1>3, <1>7, <1>10, <3>1 DEF ListIsSure, ListCallIsCurrent
      <3>6. c.arg = Here(s)
        <4>1. c.arg = [page |-> c.arg.page, tag |-> c.arg.tag, number |-> c.arg.number]
          BY <1>1, <1>2 DEF ShopCall
        <4> QED
          BY <1>4, <1>7, <3>5, <4>1 DEF Here
      <3>7. s.list = Shop!Listing(held, Here(s))
        BY <1>7, <3>5, <3>6
      <3>8. \A d \in calls \ {c} : d.kind \in {"unsave", "read"} => d.reply = None
        BY <3>3 DEF Shop!Writes
      <3>9. ListIsCurrent(s, calls \ {c}, held)
        BY <3>7, <3>8 DEF ListIsCurrent
      <3> QED
        BY <3>2, <3>4, <3>9 DEF ListIsSure
    <2>4. "hearts" \in s.sure => HeartsAreSure(s, calls \ {c}, held)
      BY <1>1, <1>7, ShopKnows, HeartsWithout
    <2>5. "bell" \in s.sure => BellIsSure(s, calls \ {c}, held)
      BY <1>1, <1>7, ShopKnows, BellWithout
    <2> QED
      BY <1>7, <2>1, <2>2, <2>3, <2>4, <2>5, ShopPageShows
  <1> QED
    BY <1>9, <1>10

(* While a write about the hearts is under way nothing else is.              *)
LEMMA HeartsWriteAlone ==
  ASSUME ShopPageInv, "hearts" \in screen.sure, NEW c \in calls, c.kind \in {"heart", "unsave"}
  PROVE  \A d \in calls \ {c} : d.kind \notin {"ids", "heart", "unsave", "login"}
  <1> TAKE d \in calls \ {c}
  <1>1. c.kind \in Shop!Writes /\ "hearts" \in Shop!Topic(c)
    BY TopicIs DEF Shop!Writes
  <1>2. "hearts" \notin Shop!Topic(d)
    BY <1>1, ShopKnows, WriteAlone DEF HeartsAreSure
  <1>3. d.kind \in ShopReads \cup Shop!Writes
    BY ShopKnows DEF ShopCall
  <1> QED
    BY <1>2, <1>3, TopicIs

LEMMA HeartAnswered ==
  ASSUME ShopPageInv, NEW c \in calls, Shop!AnswerHeart(c)
  PROVE  ShopPageInv'
  <1>1. screen \in ShopScreen /\ c.kind = "heart" /\ c.reply \notin {None, Refused}
    BY ShopKnows DEF Shop!AnswerHeart, Shop!Received
  <1>2. ShopCall(c)
    BY <1>1, ShopAnswering
  <1>3. PICK x : x = Toggled(screen.hearts, c.arg)
    OBVIOUS
  <1>4. x \in SUBSET Ids
    BY <1>1, <1>2, <1>3, ShopFields DEF Toggled, ShopCall
  <1>5. PICK s : s = [screen EXCEPT !.hearts = x]
    OBVIOUS
  <1>6. /\ s \in ShopScreen /\ s.hearts = x /\ s.sure = screen.sure /\ s.user = screen.user
        /\ s.removed = screen.removed /\ ListAlike(s, screen) /\ BellAlike(s, screen)
    BY <1>1, <1>4, <1>5 DEF ShopScreen, ListAlike, BellAlike
  <1>7. Shop!Show(s, c)
    BY <1>3, <1>5 DEF Shop!AnswerHeart, Toggled
  <1>8. ShopStarted(s, calls \ {c})
    BY <1>1, <1>6, ShopStaysStarted DEF ListAlike
  <1>9. "list" \in s.sure => ListIsSure(s, calls \ {c}, held)
    BY <1>1, <1>6, ShopKnows, ListWithout
  <1>10. "bell" \in s.sure => BellIsSure(s, calls \ {c}, held)
    BY <1>1, <1>6, ShopKnows, BellWithout
  <1>11. "hearts" \in s.sure => HeartsAreSure(s, calls \ {c}, held)
    <2> SUFFICES ASSUME "hearts" \in screen.sure
                 PROVE  HeartsAreSure(s, calls \ {c}, held)
      BY <1>6
    <2>1. HeartsAreSure(screen, calls, held)
      BY ShopKnows
    <2>2. NoneCross(calls \ {c}, "hearts")
      BY <2>1, NoneCrossFewer DEF HeartsAreSure
    <2>3. \A d \in calls \ {c} : d.kind \notin {"ids", "heart", "unsave", "login"}
      BY <1>1, HeartsWriteAlone
    <2>4. ASSUME screen.user PROVE HeartsAreCurrent(s, calls \ {c}, held)
      <3>1. HeartsAreCurrent(screen, calls, held)
        BY <2>1, <2>4 DEF HeartsAreSure
      <3>2. Toggled(screen.hearts, c.arg) \ screen.removed = held.wish \ screen.removed
        BY <1>1, <2>3, <3>1 DEF HeartsAreCurrent
      <3>3. s.hearts \ s.removed = held.wish \ s.removed
        BY <1>3, <1>6, <3>2
      <3> QED
        BY <2>3, <3>3 DEF HeartsAreCurrent
    <2> QED
      BY <1>6, <2>2, <2>3, <2>4 DEF HeartsAreSure
  <1> QED
    BY <1>6, <1>7, <1>8, <1>9, <1>10, <1>11, ShopPageShows

LEMMA UnsaveAnswered ==
  ASSUME ShopPageInv, NEW c \in calls, Shop!AnswerUnsave(c)
  PROVE  ShopPageInv'
  <1>1. screen \in ShopScreen /\ c.kind = "unsave" /\ c.reply \notin {None, Refused}
    BY ShopKnows DEF Shop!AnswerUnsave, Shop!Received
  <1>2. ShopCall(c) /\ screen.page # None
    BY <1>1, ShopAnswering
  <1>3. PICK x : x = screen.removed \cup {c.arg.id}
    OBVIOUS
  <1>4. x \in SUBSET Ids
    BY <1>1, <1>2, <1>3, ShopFields DEF ShopCall
  <1>5. PICK u : u = [screen EXCEPT !.removed = x]
    OBVIOUS
  <1>6. /\ u \in ShopScreen /\ u.hearts = screen.hearts /\ u.sure = screen.sure /\ u.user = screen.user
        /\ u.removed = x /\ ListAlike(u, screen) /\ BellAlike(u, screen)
    BY <1>1, <1>4, <1>5 DEF ShopScreen, ListAlike, BellAlike
  <1>7. PICK rows : rows = {r \in u.list : r.id # c.arg.id}
    OBVIOUS
  <1>8. PICK v : v = [u EXCEPT !.list = rows]
    OBVIOUS
  <1>9. PICK s : s = IF c.live THEN v ELSE u
    OBVIOUS
  <1>10. Shop!Show(s, c)
    <2>1. PICK w : w = [screen EXCEPT !.removed = @ \cup {c.arg.id}]
      OBVIOUS
    <2>2. w = u
      BY <1>3, <1>5, <2>1, Zenon
    <2>3. Shop!Show(IF c.live THEN [w EXCEPT !.list = {r \in @ : r.id # c.arg.id}] ELSE w, c)
      BY <2>1, Zenon DEF Shop!AnswerUnsave
    <2> QED
      BY <1>7, <1>8, <1>9, <2>2, <2>3, Zenon
  <1>11. c.live => screen.list \in SUBSET ShopRows
    BY <1>1, ShopKnows DEF ShopStarted
  <1>12. c.live => rows \in SUBSET ShopRows /\ v \in ShopScreen /\ v.list = rows
    <2>1. c.live => rows \in SUBSET ShopRows
      BY <1>6, <1>7, <1>11 DEF ListAlike
    <2> QED
      BY <1>6, <1>8, <2>1 DEF ShopScreen
  <1>13. /\ s \in ShopScreen /\ s.hearts = screen.hearts /\ s.sure = screen.sure /\ s.user = screen.user
         /\ s.removed = x /\ s.bell = screen.bell /\ s.page = screen.page /\ s.tag = screen.tag
         /\ s.number = screen.number /\ s.list = IF c.live THEN rows ELSE screen.list
    <2>1. CASE c.live
      BY <1>6, <1>8, <1>9, <1>12, <2>1 DEF ShopScreen, ListAlike, BellAlike
    <2>2. CASE ~c.live
      BY <1>6, <1>9, <2>2 DEF ListAlike, BellAlike
    <2> QED
      BY <2>1, <2>2
  <1>14. ShopStarted(s, calls \ {c})
    <2>1. ShopStarted(screen, calls)
      BY ShopKnows
    <2> QED
      BY <1>2, <1>12, <1>13, <2>1 DEF ShopStarted
  <1>15. "bell" \in s.sure => BellIsSure(s, calls \ {c}, held)
    BY <1>1, <1>13, ShopKnows, BellWithout DEF BellAlike
  <1>16. "hearts" \in s.sure => HeartsAreSure(s, calls \ {c}, held)
    <2> SUFFICES ASSUME "hearts" \in screen.sure
                 PROVE  HeartsAreSure(s, calls \ {c}, held)
      BY <1>13
    <2>1. HeartsAreSure(screen, calls, held)
      BY ShopKnows
    <2>2. NoneCross(calls \ {c}, "hearts")
      BY <2>1, NoneCrossFewer DEF HeartsAreSure
    <2>3. \A d \in calls \ {c} : d.kind \notin {"ids", "heart", "unsave", "login"}
      BY <1>1, HeartsWriteAlone
    <2>4. ASSUME screen.user PROVE HeartsAreCurrent(s, calls \ {c}, held)
      <3>1. HeartsAreCurrent(screen, calls, held)
        BY <2>1, <2>4 DEF HeartsAreSure
      <3>2. screen.hearts \ (screen.removed \cup {c.arg.id}) = held.wish \ (screen.removed \cup {c.arg.id})
        BY <1>1, <2>3, <3>1 DEF HeartsAreCurrent
      <3>3. s.hearts \ s.removed = held.wish \ s.removed
        BY <1>3, <1>13, <3>2
      <3> QED
        BY <2>3, <3>3 DEF HeartsAreCurrent
    <2> QED
      BY <1>13, <2>2, <2>3, <2>4 DEF HeartsAreSure
  <1>17. "list" \in s.sure => ListIsSure(s, calls \ {c}, held)
    <2> SUFFICES ASSUME "list" \in screen.sure
                 PROVE  ListIsSure(s, calls \ {c}, held)
      BY <1>13
    <2>1. ListIsSure(screen, calls, held)
      BY ShopKnows
    <2>2. NoneCross(calls \ {c}, "list")
      BY <2>1, NoneCrossFewer DEF ListIsSure
    <2>3. \A d \in calls \ {c} : d.kind = "bell"
      BY <1>1, ListWriteAlone DEF Shop!Writes
    <2>4. c.live /\ screen.page = "wishlist"
      BY <1>1, <2>1 DEF ListIsSure, ListCallIsCurrent
    <2>5. ListIsCurrent(screen, calls, held)
      BY <2>1 DEF ListIsSure
    <2>6. screen.page \notin {None, "signin"}
      BY <2>4, ShopPagesNamed
    <2>7. {r \in screen.list : r.id # c.arg.id} = Shop!Listing(held, Here(screen))
      BY <1>1, <2>3, <2>5, <2>6 DEF ListIsCurrent
    <2>8. Here(s) = Here(screen)
      BY <1>13 DEF Here
    <2>9. s.list = Shop!Listing(held, Here(s))
      BY <1>6, <1>7, <1>13, <2>4, <2>7, <2>8 DEF ListAlike
    <2>10. ListIsCurrent(s, calls \ {c}, held)
      BY <2>3, <2>9 DEF ListIsCurrent
    <2>11. \A d \in calls \ {c} : ListCallIsCurrent(d, s, held)
      BY <2>3 DEF ListCallIsCurrent
    <2> QED
      BY <2>2, <2>10, <2>11 DEF ListIsSure
  <1> QED
    BY <1>10, <1>13, <1>14, <1>15, <1>16, <1>17, ShopPageShows

LEMMA NoticeAnswered ==
  ASSUME ShopPageInv, NEW c \in calls, Shop!AnswerRead(c)
  PROVE  ShopPageInv'
  <1>1. screen \in ShopScreen /\ c.kind = "read" /\ c.reply \notin {None, Refused}
    BY ShopKnows DEF Shop!AnswerRead, Shop!Received
  <1>2. ShopCall(c) /\ screen.page # None
    BY <1>1, ShopAnswering
  <1>3. PICK rows : rows = Shop!MarkedRead(screen.list, c.arg)
    OBVIOUS
  <1>4. PICK v : v = [screen EXCEPT !.list = rows]
    OBVIOUS
  <1>5. Shop!Show(IF c.live THEN v ELSE screen, c)
    BY <1>3, <1>4, Zenon DEF Shop!AnswerRead, Shop!Pageless
  <1>6. CASE c.live
    <2>1. PICK was \in SUBSET ShopRows : was = screen.list
      BY <1>1, <1>6, ShopKnows DEF ShopStarted
    <2>2. rows = Shop!MarkedRead(was, c.arg)
      BY <1>3, <2>1
    <2>3. rows \in SUBSET ShopRows
      BY <2>2, NoticesRead
    <2>4. /\ v \in ShopScreen /\ v.list = rows /\ v.sure = screen.sure /\ v.page = screen.page /\ v.tag = screen.tag
          /\ v.number = screen.number /\ HeartsAlike(v, screen) /\ BellAlike(v, screen)
      BY <1>1, <1>4, <2>3 DEF ShopScreen, HeartsAlike, BellAlike
    <2>5. ShopStarted(v, calls \ {c})
      BY <1>2, <2>3, <2>4, ShopKnows DEF ShopStarted
    <2>6. "hearts" \in v.sure => HeartsAreSure(v, calls \ {c}, held)
      BY <1>1, <2>4, ShopKnows, HeartsWithout
    <2>7. "bell" \in v.sure => BellIsSure(v, calls \ {c}, held)
      BY <1>1, <2>4, ShopKnows, BellWithout
    <2>8. "list" \in v.sure => ListIsSure(v, calls \ {c}, held)
      <3> SUFFICES ASSUME "list" \in screen.sure
                   PROVE  ListIsSure(v, calls \ {c}, held)
        BY <2>4
      <3>1. ListIsSure(screen, calls, held)
        BY ShopKnows
      <3>2. NoneCross(calls \ {c}, "list")
        BY <3>1, NoneCrossFewer DEF ListIsSure
      <3>3. \A d \in calls \ {c} : d.kind = "bell"
        BY <1>1, ListWriteAlone DEF Shop!Writes
      <3>4. screen.page = "notes"
        BY <1>1, <3>1 DEF ListIsSure, ListCallIsCurrent
      <3>5. ListIsCurrent(screen, calls, held)
        BY <3>1 DEF ListIsSure
      <3>6. screen.page \notin {None, "signin"}
        BY <3>4, ShopPagesNamed
      <3>7. rows = Shop!Listing(held, Here(screen))
        BY <1>1, <1>3, <3>3, <3>5, <3>6 DEF ListIsCurrent
      <3>8. Here(v) = Here(screen)
        BY <2>4 DEF Here
      <3>9. v.list = Shop!Listing(held, Here(v))
        BY <2>4, <3>7, <3>8
      <3>10. ListIsCurrent(v, calls \ {c}, held)
        BY <3>3, <3>9 DEF ListIsCurrent
      <3>11. \A d \in calls \ {c} : ListCallIsCurrent(d, v, held)
        BY <3>3 DEF ListCallIsCurrent
      <3> QED
        BY <3>2, <3>10, <3>11 DEF ListIsSure
    <2>9. Shop!Show(v, c)
      BY <1>5, <1>6
    <2> QED
      BY <2>4, <2>5, <2>6, <2>7, <2>8, <2>9, ShopPageShows
  <1>7. CASE ~c.live
    <2>1. Shop!Show(screen, c)
      BY <1>5, <1>7
    <2>2. ShopStarted(screen, calls \ {c})
      BY <1>1, ShopStaysStarted
    <2>3. "list" \notin screen.sure
      BY <1>1, <1>7, ShopKnows DEF ListIsSure, ListCallIsCurrent
    <2>4. "hearts" \in screen.sure => HeartsAreSure(screen, calls \ {c}, held)
      BY <1>1, ShopKnows, HeartsWithout DEF HeartsAlike
    <2>5. "bell" \in screen.sure => BellIsSure(screen, calls \ {c}, held)
      BY <1>1, ShopKnows, BellWithout DEF BellAlike
    <2> QED
      BY <1>1, <2>1, <2>2, <2>3, <2>4, <2>5, ShopPageShows
  <1> QED
    BY <1>6, <1>7

LEMMA CountOneFewer ==
  ASSUME NEW S \in SUBSET Ids, NEW n \in S
  PROVE  Cardinality(S) \in Nat \ {0} /\ Cardinality(S \ {n}) = Cardinality(S) - 1
  <1>1. IsFiniteSet(S)
    BY ShopAssumption, FS_Subset
  <1>2. Cardinality(S \ {n}) = Cardinality(S) - 1
    BY <1>1, FS_RemoveElement
  <1>3. Cardinality(S) \in Nat /\ (Cardinality(S) = 0 <=> S = {})
    BY <1>1, FS_CardinalityType, FS_EmptySet
  <1> QED
    BY <1>2, <1>3

LEMMA InBellAnswered ==
  ASSUME ShopPageInv, NEW c \in calls, Shop!AnswerInBell(c)
  PROVE  ShopPageInv'
  <1>1. screen \in ShopScreen /\ c.kind = "readInBell" /\ c.reply \notin {None, Refused}
    BY ShopKnows DEF Shop!AnswerInBell, Shop!Received
  <1>2. ShopCall(c)
    BY <1>1, ShopAnswering
  <1>3. PICK n \in Ids : c.arg = {n}
    BY <1>1, <1>2 DEF ShopCall
  <1>4. PICK was : was = screen.bell
    OBVIOUS
  <1>5. was \in ShopBells
    BY <1>1, <1>4, ShopFields
  <1>6. PICK left : left = was.unread \ c.arg
    OBVIOUS
  <1>7. PICK k : k = IF was.count = 0 THEN 0 ELSE was.count - 1
    OBVIOUS
  <1>8. k \in Nat /\ left \in SUBSET Ids
    BY <1>5, <1>6, <1>7 DEF ShopBells
  <1>9. PICK bell : bell = [unread |-> left, count |-> k]
    OBVIOUS
  <1>10. bell \in ShopBells /\ bell.unread = left /\ bell.count = k
    BY <1>8, <1>9 DEF ShopBells
  <1>11. PICK sure : sure = screen.sure \ {"list"}
    OBVIOUS
  <1>12. sure \in SUBSET ShopTopics
    BY <1>1, <1>11, ShopFields
  <1>13. PICK s : s = [screen EXCEPT !.bell = bell, !.sure = sure]
    OBVIOUS
  <1>14. /\ s \in ShopScreen /\ s.bell = bell /\ s.sure = sure /\ s.user = screen.user /\ s.page = screen.page
         /\ s.list = screen.list /\ HeartsAlike(s, screen)
    BY <1>1, <1>10, <1>12, <1>13 DEF ShopScreen, HeartsAlike
  <1>15. Shop!Show(s, c)
    BY <1>4, <1>6, <1>7, <1>9, <1>11, <1>13, Zenon DEF Shop!AnswerInBell
  <1>16. ShopStarted(s, calls \ {c})
    BY <1>1, <1>14, ShopStaysStarted
  <1>17. "hearts" \in s.sure => HeartsAreSure(s, calls \ {c}, held)
    BY <1>1, <1>11, <1>14, ShopKnows, HeartsWithout
  <1>18. "bell" \in s.sure => BellIsSure(s, calls \ {c}, held)
    <2> SUFFICES ASSUME "bell" \in screen.sure
                 PROVE  BellIsSure(s, calls \ {c}, held)
      BY <1>11, <1>14
    <2>1. BellIsSure(screen, calls, held)
      BY ShopKnows
    <2>2. NoneCross(calls \ {c}, "bell")
      BY <2>1, NoneCrossFewer DEF BellIsSure
    <2>3. \A d \in calls \ {c} : d.kind \notin {"bell", "readInBell", "login"}
      <3> TAKE d \in calls \ {c}
      <3>1. c.kind \in Shop!Writes /\ "bell" \in Shop!Topic(c)
        BY <1>1, TopicIs DEF Shop!Writes
      <3>2. "bell" \notin Shop!Topic(d)
        BY <2>1, <3>1, WriteAlone DEF BellIsSure
      <3>3. d.kind \in ShopReads \cup Shop!Writes
        BY ShopKnows DEF ShopCall
      <3> QED
        BY <3>2, <3>3, TopicIs
    <2>4. ASSUME screen.user PROVE BellCounts(s, calls \ {c}, held)
      <3>1. BellCounts(screen, calls, held)
        BY <1>1, <2>1, <2>3, <2>4 DEF BellIsSure
      <3>2. /\ was.count = Cardinality(was.unread) /\ Shop!Unread(held.notes) \in SUBSET was.unread
            /\ c.arg \in SUBSET was.unread /\ Shop!Unread(held.notes) \cap c.arg = {}
        BY <1>1, <1>4, <3>1 DEF BellCounts
      <3>3. PICK S \in SUBSET Ids : S = was.unread
        BY <1>5 DEF ShopBells
      <3>4. n \in S /\ left = S \ {n}
        BY <1>3, <1>6, <3>2, <3>3
      <3>5. Cardinality(S) \in Nat \ {0} /\ Cardinality(S \ {n}) = Cardinality(S) - 1
        BY <3>4, CountOneFewer
      <3>6. k = Cardinality(left)
        BY <1>7, <3>2, <3>3, <3>4, <3>5
      <3>7. Shop!Unread(held.notes) \in SUBSET left
        BY <1>6, <3>2
      <3> QED
        BY <1>10, <1>14, <2>3, <3>6, <3>7 DEF BellCounts
    <2> QED
      BY <1>14, <2>2, <2>3, <2>4 DEF BellIsSure
  <1>19. "list" \notin s.sure
    BY <1>11, <1>14
  <1> QED
    BY <1>14, <1>15, <1>16, <1>17, <1>18, <1>19, ShopPageShows

LEMMA BellAnswered ==
  ASSUME ShopPageInv, NEW c \in calls, Shop!AnswerBell(c)
  PROVE  ShopPageInv'
  <1>1. screen \in ShopScreen /\ c.kind = "bell" /\ c.reply \notin {None, Refused}
    BY ShopKnows DEF Shop!AnswerBell, Shop!Received
  <1>2. ShopCall(c)
    BY <1>1, ShopAnswering
  <1>3. PICK x \in SUBSET Ids : x = c.reply
    BY <1>1, <1>2 DEF ShopCall
  <1>4. PICK k \in Nat : k = Cardinality(x)
    <2>1. IsFiniteSet(x)
      BY ShopAssumption, FS_Subset
    <2> QED
      BY <2>1, FS_CardinalityType
  <1>5. PICK bell : bell = [unread |-> x, count |-> k]
    OBVIOUS
  <1>6. bell \in ShopBells /\ bell.unread = x /\ bell.count = k
    BY <1>5 DEF ShopBells
  <1>7. PICK s : s = [screen EXCEPT !.bell = bell]
    OBVIOUS
  <1>8. /\ s \in ShopScreen /\ s.bell = bell /\ s.sure = screen.sure /\ s.user = screen.user
        /\ ListAlike(s, screen) /\ HeartsAlike(s, screen)
    BY <1>1, <1>6, <1>7 DEF ShopScreen, ListAlike, HeartsAlike
  <1>9. Shop!Show(s, c)
    <2>1. Shop!Cardinality(x) = k
      BY <1>4, ShopCount
    <2>2. Shop!Show([screen EXCEPT !.bell = [unread |-> c.reply, count |-> Shop!Cardinality(c.reply)]], c)
      BY Zenon DEF Shop!AnswerBell
    <2> QED
      BY <1>3, <1>5, <1>7, <2>1, <2>2, Zenon
  <1>10. ShopStarted(s, calls \ {c})
    BY <1>1, <1>8, ShopStaysStarted DEF ListAlike
  <1>11. "list" \in s.sure => ListIsSure(s, calls \ {c}, held)
    BY <1>1, <1>8, ShopKnows, ListWithout
  <1>12. "hearts" \in s.sure => HeartsAreSure(s, calls \ {c}, held)
    BY <1>1, <1>8, ShopKnows, HeartsWithout
  <1>13. "bell" \in s.sure => BellIsSure(s, calls \ {c}, held)
    <2> SUFFICES ASSUME "bell" \in screen.sure
                 PROVE  BellIsSure(s, calls \ {c}, held)
      BY <1>8
    <2>1. BellIsSure(screen, calls, held)
      BY ShopKnows
    <2>2. NoneCross(calls \ {c}, "bell")
      BY <2>1, NoneCrossFewer DEF BellIsSure
    <2>3. x = Shop!Unread(held.notes)
      BY <1>1, <1>3, <2>1 DEF BellIsSure
    <2>4. \A d \in calls \ {c} : d.kind # "readInBell"
      <3> TAKE d \in calls \ {c}
      <3>1. "bell" \in Shop!Topic(c)
        BY <1>1, TopicIs DEF ShopReads
      <3>2. ~("bell" \in Shop!Topic(d) /\ d.kind \in Shop!Writes)
        BY <2>1, <3>1 DEF BellIsSure, NoneCross, Shop!Cross
      <3> QED
        BY <3>2, TopicIs DEF Shop!Writes
    <2>5. BellCounts(s, calls \ {c}, held)
      BY <1>4, <1>6, <1>8, <2>3, <2>4 DEF BellCounts
    <2>6. \A d \in calls \ {c} : /\ d.kind = "bell" => d.reply \in {None, Shop!Unread(held.notes)}
                                 /\ d.kind = "login" => ~s.user
      BY <1>8, <2>1 DEF BellIsSure
    <2> QED
      BY <2>2, <2>5, <2>6 DEF BellIsSure
  <1> QED
    BY <1>8, <1>9, <1>10, <1>11, <1>12, <1>13, ShopPageShows

(* After a change the page loads anew.                                       *)
LEMMA ChangeAnswered ==
  ASSUME ShopPageInv, NEW c \in calls, Shop!AnswerChange(c)
  PROVE  ShopPageInv'
  <1>1. screen \in ShopScreen /\ c.kind = "write"
    BY ShopKnows DEF Shop!AnswerChange
  <1>2. ShopCall(c) /\ screen.page # None /\ ShopHeld(held) /\ \A d \in calls : ShopCall(d) /\ d.kind # "me"
    BY <1>1, ShopAnswering
  <1>3. CASE ~c.live
    <2>1. Shop!Show(screen, c)
      BY <1>3 DEF Shop!AnswerChange
    <2>2. ShopStarted(screen, calls \ {c})
      BY <1>1, ShopStaysStarted
    <2>3. "list" \notin screen.sure
      BY <1>1, <1>3, ShopKnows DEF ListIsSure, ListCallIsCurrent
    <2>4. "hearts" \in screen.sure => HeartsAreSure(screen, calls \ {c}, held)
      BY <1>1, ShopKnows, HeartsWithout DEF HeartsAlike
    <2>5. "bell" \in screen.sure => BellIsSure(screen, calls \ {c}, held)
      BY <1>1, ShopKnows, BellWithout DEF BellAlike
    <2> QED
      BY <1>1, <2>1, <2>2, <2>3, <2>4, <2>5, ShopPageShows
  <1>4. CASE c.live
    <2>1. PICK tt \in BOOLEAN : tt = TRUE
      OBVIOUS
    <2>2. PICK s : s = [screen EXCEPT !.loading = tt]
      OBVIOUS
    <2>3. /\ s \in ShopScreen /\ s.page = screen.page /\ s.tag = screen.tag /\ s.list = screen.list
          /\ s.sure = screen.sure /\ HeartsAlike(s, screen) /\ BellAlike(s, screen)
      BY <1>1, <2>2 DEF ShopScreen, HeartsAlike, BellAlike
    <2>4. PICK g : g = Shop!List(c.arg.page, c.arg.tag, 1)
      OBVIOUS
    <2>5. /\ ShopCall(g) /\ g.kind = "list" /\ g.live /\ g.reply = None
          /\ g.arg.page = c.arg.page /\ g.arg.tag = c.arg.tag
      BY <2>4, ShopListIs
    <2>6. PICK others : others = calls \ {c}
      OBVIOUS
    <2>7. Shop!Send(s, {g}, others)
      BY <1>4, <2>1, <2>2, <2>4, <2>6, Zenon DEF Shop!AnswerChange
    <2>8. \A topic : NoneCross({g}, topic)
      BY NoneCrossAlone
    <2>9. "hearts" \in s.sure /\ ApartOn("hearts", others, {g}) => HeartsAreSure(s, others \cup {g}, held)
      <3>1. "hearts" \in s.sure => HeartsAreSure(screen, others, held)
        BY <1>1, <2>3, <2>6, ShopKnows, HeartsWithout DEF HeartsAlike
      <3> QED
        BY <2>3, <2>5, <2>8, <3>1, HeartsGrow
    <2>10. "bell" \in s.sure /\ ApartOn("bell", others, {g}) => BellIsSure(s, others \cup {g}, held)
      <3>1. "bell" \in s.sure => BellIsSure(screen, others, held)
        BY <1>1, <2>3, <2>6, ShopKnows, BellWithout DEF BellAlike
      <3> QED
        BY <2>3, <2>5, <2>8, <3>1, BellGrows
    <2>11. "list" \in s.sure /\ ApartOn("list", others, {g}) => ListIsSure(s, others \cup {g}, held)
      <3> SUFFICES ASSUME "list" \in screen.sure, ApartOn("list", others, {g})
                   PROVE  ListIsSure(s, others \cup {g}, held)
        BY <2>3
      <3>1. ListIsSure(screen, calls, held)
        BY ShopKnows
      <3>2. c.arg.page = screen.page /\ c.arg.tag = screen.tag
        BY <1>1, <3>1 DEF ListIsSure, ListCallIsCurrent
      <3>3. NoneCross(others, "list")
        BY <2>6, <3>1, NoneCrossFewer DEF ListIsSure
      <3>4. \A d \in others : /\ ShopCall(d) /\ d.kind # "me"
                              /\ d.kind = "list" /\ d.reply \notin {None, Refused} => d.reply = Shop!Listing(held, d.arg)
        BY <1>2, <2>6, <3>1 DEF ListIsSure, ListCallIsCurrent
      <3>5. g.arg.page = s.page /\ g.arg.tag = s.tag
        BY <2>3, <2>5, <3>2
      <3> QED
        BY <2>5, <2>8, <3>3, <3>4, <3>5, ListAsked
    <2>12. ShopStarted(s, others \cup {g})
      BY <1>2, <2>3, <2>5, <2>6, ShopKnows DEF ShopStarted
    <2>13. \A d \in others \cup {g} : ShopCall(d)
      BY <1>2, <2>5, <2>6
    <2> QED
      BY <1>2, <2>3, <2>7, <2>9, <2>10, <2>11, <2>12, <2>13, ShopSends
  <1> QED
    BY <1>3, <1>4

LEMMA ShopRefuses ==
  ASSUME ShopPageInv, NEW c \in calls, Shop!Refuse(c)
  PROVE  ShopPageInv'
  <1>1. screen \in ShopScreen /\ ShopCall(c) /\ c.reply = Refused
    BY ShopKnows DEF Shop!Refuse
  <1>2. c.kind \in {"list", "write"}
    <2>1. Refused \notin SUBSET Ids
      BY SetsAreAnswers
    <2>2. Refused # None /\ Refused # Done
      BY PageAssumption, DoneIsAnAnswer
    <2> QED
      BY <1>1, <2>1, <2>2 DEF ShopCall
  <1>3. PICK sure : sure = screen.sure \ {"list"}
    OBVIOUS
  <1>4. sure \in SUBSET ShopTopics
    BY <1>1, <1>3, ShopFields
  <1>5. PICK s : s = [screen EXCEPT !.sure = sure]
    OBVIOUS
  <1>6. s \in ShopScreen /\ ShopAlike(s, screen) /\ s.sure = sure
    BY <1>1, <1>4, <1>5, ShopSure
  <1>7. Shop!Show(s, c)
    BY <1>3, <1>5, Zenon DEF Shop!Refuse
  <1>8. ShopStarted(s, calls \ {c})
    BY <1>2, <1>6, ShopStaysStarted DEF ShopAlike, ListAlike
  <1>9. "hearts" \in s.sure => HeartsAreSure(s, calls \ {c}, held)
    BY <1>2, <1>3, <1>6, ShopKnows, HeartsWithout DEF ShopAlike
  <1>10. "bell" \in s.sure => BellIsSure(s, calls \ {c}, held)
    BY <1>2, <1>3, <1>6, ShopKnows, BellWithout DEF ShopAlike
  <1>11. "list" \notin s.sure
    BY <1>3, <1>6
  <1> QED
    BY <1>6, <1>7, <1>8, <1>9, <1>10, <1>11, ShopPageShows

LEMMA ShopStartIs == Shop!Start \in ShopScreen /\ ~Shop!Start.user /\ Shop!Start.page = None /\ Shop!Start.list = None
  <1>1. PICK ff \in BOOLEAN : ff = FALSE
    OBVIOUS
  <1>2. PICK one, zero \in Nat : one = 1 /\ zero = 0
    OBVIOUS
  <1>3. PICK none \in SUBSET Ids : none = {}
    OBVIOUS
  <1>4. PICK bell : bell = [unread |-> none, count |-> zero]
    OBVIOUS
  <1>5. bell \in ShopBells
    BY <1>3, <1>4, <1>2 DEF ShopBells
  <1>6. PICK sure \in SUBSET ShopTopics : sure = {"list", "hearts", "bell"}
    BY DEF ShopTopics
  <1>7. PICK page \in ShopPages : page = None
    BY DEF ShopPages
  <1>8. PICK tag \in ShopTags : tag = All
    BY DEF ShopTags
  <1>9. PICK list \in {None} \cup SUBSET ShopRows : list = None
    OBVIOUS
  <1>10. PICK t : t = [user |-> ff, page |-> page, tag |-> tag, list |-> list, number |-> one, loading |-> ff,
                       hearts |-> none, bell |-> bell, sure |-> sure, removed |-> none, clicks |-> zero]
    OBVIOUS
  <1>11. t \in ShopScreen /\ t.user = ff /\ t.page = page /\ t.list = list
    BY <1>2, <1>5, <1>10 DEF ShopScreen
  <1>12. Shop!Start = t
    BY <1>1, <1>2, <1>3, <1>4, <1>6, <1>7, <1>8, <1>9, <1>10, Zenon DEF Shop!Start
  <1> QED
    BY <1>1, <1>7, <1>9, <1>11, <1>12, Zenon

LEMMA NothingSure ==
  ASSUME NEW s, ~s.user, NEW none, none = {}
  PROVE  HeartsAreSure(s, none, held) /\ BellIsSure(s, none, held)
  BY DEF HeartsAreSure, BellIsSure, NoneCross

LEMMA ShopLoses ==
  ASSUME ShopPageInv, NEW c \in calls, Shop!Lose(c)
  PROVE  ShopPageInv'
  <1>1. screen \in ShopScreen /\ ShopCall(c) /\ ShopHeld(held)
    BY ShopKnows
  <1>2. PICK none : none = {}
    OBVIOUS
  <1>3. PICK b \in BOOLEAN : b = (screen.loading /\ c.kind # "list")
    OBVIOUS
  <1>4. PICK v : v = [screen EXCEPT !.loading = b]
    OBVIOUS
  <1>5. v \in ShopScreen /\ ShopAlike(v, screen) /\ v.sure = screen.sure
    BY <1>1, <1>4 DEF ShopScreen, ShopAlike, ListAlike, HeartsAlike, BellAlike
  <1>6. PICK u : u = IF c.live THEN v ELSE screen
    OBVIOUS
  <1>7. u \in ShopScreen /\ ShopAlike(u, screen) /\ u.sure = screen.sure
    BY <1>1, <1>5, <1>6 DEF ShopAlike, ListAlike, HeartsAlike, BellAlike
  <1>8. PICK sure : sure = screen.sure \ Shop!Topic(c)
    OBVIOUS
  <1>9. sure \in SUBSET ShopTopics
    BY <1>1, <1>8, ShopFields
  <1>10. PICK s : s = [u EXCEPT !.sure = sure]
    OBVIOUS
  <1>11. s \in ShopScreen /\ ShopAlike(s, u) /\ s.sure = sure
    BY <1>7, <1>9, <1>10, ShopSure
  <1>12. ShopAlike(s, screen)
    BY <1>7, <1>11 DEF ShopAlike, ListAlike, HeartsAlike, BellAlike
  <1>13. PICK others : others = calls \ {c}
    OBVIOUS
  <1>14. \/ c.kind = "me" /\ Shop!Mount(Shop!Start, "home", none, none)
         \/ c.kind = "ids" /\ Shop!Mount(s, "home", none, others)
         \/ c.kind # "me" /\ Shop!Show(s, c)
    <2>1. PICK was : was = [Shop!Pageless([screen EXCEPT !.loading = @ /\ c.kind # "list"], c)
                            EXCEPT !.sure = @ \ Shop!Topic(c)]
      OBVIOUS
    <2>2. was = s
      <3>1. [screen EXCEPT !.loading = @ /\ c.kind # "list"] = v
        BY <1>3, <1>4, Zenon
      <3>2. Shop!Pageless(v, c) = u
        BY <1>6, Zenon DEF Shop!Pageless
      <3> QED
        BY <1>7, <1>8, <1>10, <2>1, <3>1, <3>2, Zenon
    <2>3. \/ c.kind = "me" /\ Shop!Mount(Shop!Start, "home", {}, {})
          \/ c.kind = "ids" /\ Shop!Mount(was, "home", {}, calls \ {c})
          \/ c.kind # "me" /\ Shop!Show(was, c)
      <3>1. CASE c.kind = "me"
        BY <3>1 DEF Shop!Lose
      <3>2. CASE c.kind = "ids" /\ c.arg = "login" /\ screen.page # "home"
        BY <2>1, <3>2 DEF Shop!Lose
      <3>3. CASE c.kind # "me" /\ ~(c.kind = "ids" /\ c.arg = "login" /\ screen.page # "home")
        BY <2>1, <3>3 DEF Shop!Lose
      <3> QED
        BY <3>1, <3>2, <3>3
    <2> QED
      BY <1>2, <1>13, <2>2, <2>3, Zenon
  <1>15. "home" \in Shop!Pages
    BY DEF Shop!Pages
  <1>16. \A x \in none : ShopCall(x) /\ x.kind # "me" /\ x.kind \in {"ids", "bell"} /\ x.reply = None
    BY <1>2
  <1>17. "list" \in sure => c.kind = "bell"
    BY <1>1, <1>8, TopicIs DEF ShopCall
  <1>18. "hearts" \in sure => c.kind \notin {"ids", "heart", "unsave"}
    BY <1>1, <1>8, TopicIs DEF ShopCall
  <1>19. "bell" \in sure => c.kind # "bell"
    BY <1>1, <1>8, TopicIs DEF ShopCall
  <1>20. "list" \in s.sure => ListIsSure(s, others, held)
    BY <1>8, <1>11, <1>12, <1>13, <1>17, ShopKnows, ListWithout DEF ShopAlike
  <1>21. "hearts" \in s.sure => HeartsAreSure(s, others, held)
    BY <1>8, <1>11, <1>12, <1>13, <1>18, ShopKnows, HeartsWithout DEF ShopAlike
  <1>22. "bell" \in s.sure => BellIsSure(s, others, held)
    BY <1>8, <1>11, <1>12, <1>13, <1>19, ShopKnows, BellWithout DEF ShopAlike
  <1>23. CASE c.kind = "me" /\ Shop!Mount(Shop!Start, "home", none, none)
    <2>1. PICK start : start = Shop!Start
      OBVIOUS
    <2>2. start \in ShopScreen /\ ~start.user
      BY <2>1, ShopStartIs
    <2>3. PICK left : left = Shop!Orphans(none) \cup none
      OBVIOUS
    <2>4. left = {}
      BY <1>2, <2>3, OrphansOfNone
    <2>5. HeartsAreSure(start, Shop!Orphans(none) \cup none, held) /\ BellIsSure(start, Shop!Orphans(none) \cup none, held)
      BY <2>2, <2>3, <2>4, NothingSure
    <2>6. Shop!Mount(start, "home", none, none)
      BY <1>23, <2>1
    <2>7. ~(none # {})
      BY <1>2
    <2> QED
      BY <1>1, <1>15, <1>16, <2>2, <2>5, <2>6, <2>7, ShopMounts
  <1>24. CASE c.kind = "ids" /\ Shop!Mount(s, "home", none, others)
    <2>1. \A d \in others : ShopCall(d) /\ d.kind # "me"
      BY <1>13, <1>24, ShopAnswering
    <2>2. "list" \notin s.sure /\ "hearts" \notin s.sure
      BY <1>11, <1>17, <1>18, <1>24
    <2>3. PICK left : left = Shop!Orphans(others)
      OBVIOUS
    <2>4. "bell" \in s.sure => BellIsSure(s, left \cup none, held)
      <3>1. "bell" \in s.sure => BellIsSure(s, left, held)
        BY <1>22, <2>1, <2>3, BellOrphaned
      <3> QED
        BY <1>2, <3>1
    <2>5. "bell" \in s.sure /\ ApartOn("bell", Shop!Orphans(others), none) =>
            BellIsSure(s, Shop!Orphans(others) \cup none, held)
      BY <2>3, <2>4
    <2>6. Shop!Mount(s, "home", none, others)
      BY <1>24
    <2> QED
      BY <1>1, <1>11, <1>15, <1>16, <2>1, <2>2, <2>5, <2>6, ShopMounts
  <1>25. CASE c.kind # "me" /\ Shop!Show(s, c)
    <2>1. ShopStarted(s, calls \ {c})
      BY <1>12, <1>25, ShopStaysStarted DEF ShopAlike, ListAlike
    <2> QED
      BY <1>11, <1>13, <1>20, <1>21, <1>22, <1>25, <2>1, ShopPageShows
  <1> QED
    BY <1>14, <1>23, <1>24, <1>25

-----------------------------------------------------------------------------
LEMMA ShopPageStep ==
  ASSUME ShopPageInv, Shop!Next
  PROVE  ShopPageInv'
  <1>1. CASE \E page \in Shop!Pages : Shop!Open(page)
    BY <1>1, PageOpened
  <1>2. CASE \E tag \in ShopTags : Shop!PickTag(tag)
    BY <1>2, TagPicked
  <1>3. CASE Shop!TurnPage
    BY <1>3, PageTurned
  <1>4. CASE Shop!ToggleWish \/ Shop!RemoveSaved
    BY <1>4, WishToggled
  <1>5. CASE Shop!MarkRead
    BY <1>5, NoticesMarked
  <1>6. CASE Shop!MarkInBell
    BY <1>6, BellMarked
  <1>7. CASE Shop!Change
    BY <1>7, RowChanged
  <1>8. CASE Shop!SignIn
    BY <1>8, SignedIn
  <1>9. CASE Shop!SignOut
    BY <1>9, SignedOut
  <1>10. CASE Shop!Poll
    BY <1>10, BellPolled
  <1>11. CASE \E c \in calls : Shop!Serve(c) \/ Shop!Refuse(c) \/ Shop!Lose(c)
    BY <1>11, ShopServes, ShopRefuses, ShopLoses
  <1>12. CASE \E c \in calls : Shop!AnswerMe(c) \/ Shop!AnswerLogin(c) \/ Shop!AnswerIds(c) \/ Shop!AnswerList(c)
    BY <1>12, TokenAnswered, LoginAnswered, HeartsAnswered, ListAnswered
  <1>13. CASE \E c \in calls : Shop!AnswerHeart(c) \/ Shop!AnswerUnsave(c) \/ Shop!AnswerRead(c)
    BY <1>13, HeartAnswered, UnsaveAnswered, NoticeAnswered
  <1>14. CASE \E c \in calls : Shop!AnswerInBell(c) \/ Shop!AnswerBell(c) \/ Shop!AnswerChange(c)
    BY <1>14, InBellAnswered, BellAnswered, ChangeAnswered
  <1> QED
    BY <1>1, <1>2, <1>3, <1>4, <1>5, <1>6, <1>7, <1>8, <1>9, <1>10, <1>11, <1>12, <1>13, <1>14, Zenon
    DEF Shop!Next, ShopTags

LEMMA ShopRowIs ==
  ASSUME NEW n \in Ids, NEW tag \in ShopTags, NEW b
  PROVE  Shop!Row(n, tag, n = b) \in ShopRows /\ Shop!Row(n, tag, FALSE) \in ShopRows
  <1>1. PICK o, p \in BOOLEAN : o = (n = b) /\ p = FALSE
    OBVIOUS
  <1>2. [id |-> n, tag |-> tag, on |-> o] \in ShopRows /\ [id |-> n, tag |-> tag, on |-> p] \in ShopRows
    BY DEF ShopRows
  <1> QED
    BY <1>1, <1>2 DEF Shop!Row

LEMMA ShopPageInit == Shop!Init => ShopPageInv
  <1> SUFFICES ASSUME Shop!Init PROVE ShopPageInv
    OBVIOUS
  <1>1. \A n \in Ids : TagOf[n] \in ShopTags /\ All \in ShopTags
    BY DEF ShopTags, Shop!Tags
  <1>2. PICK rows : rows = {Shop!Row(n, TagOf[n], FALSE) : n \in Ids}
    OBVIOUS
  <1>3. PICK default \in Ids :
          held = [wish |-> {}, home |-> rows, reviews |-> rows, notes |-> rows,
                  addresses |-> {Shop!Row(n, All, n = default) : n \in Ids}]
    BY <1>2, Zenon DEF Shop!Init
  <1>4. PICK at : at = {Shop!Row(n, All, n = default) : n \in Ids}
    OBVIOUS
  <1>5. rows \in SUBSET ShopRows
    <2>1. \A n \in Ids : Shop!Row(n, TagOf[n], FALSE) \in ShopRows
      BY <1>1, ShopRowIs
    <2> QED
      BY <1>2, <2>1
  <1>6. at \in SUBSET ShopRows
    <2>1. \A n \in Ids : Shop!Row(n, All, n = default) \in ShopRows
      BY <1>1, ShopRowIs
    <2> QED
      BY <1>4, <2>1
  <1>7. ShopHeld(held)
    <2>1. PICK none \in SUBSET Ids : none = {}
      OBVIOUS
    <2>2. PICK h : h = [wish |-> none, home |-> rows, reviews |-> rows, notes |-> rows, addresses |-> at]
      OBVIOUS
    <2>3. ShopHeld(h)
      BY <1>5, <1>6, <2>2 DEF ShopHeld
    <2>4. held = h
      BY <1>3, <1>4, <2>1, <2>2, Zenon
    <2> QED
      BY <2>3, <2>4
  <1>8. PICK start : start = Shop!Start
    OBVIOUS
  <1>9. start \in ShopScreen /\ ~start.user /\ start.page = None
    BY <1>8, ShopStartIs
  <1>10. CASE screen = start /\ calls = {Shop!Call("me", None)}
    <2>1. PICK c : c = Shop!Call("me", None)
      OBVIOUS
    <2>2. ShopCall(c) /\ c.kind = "me" /\ c.reply = None
      BY <2>1, ShopBareIs
    <2>3. \A topic : NoneCross({c}, topic)
      BY NoneCrossAlone
    <2>4. ShopStarted(start, {c})
      BY <1>9, <2>2 DEF ShopStarted
    <2>5. ListIsSure(start, {c}, held)
      BY <1>9, <2>2, <2>3 DEF ListIsSure, ListCallIsCurrent, ListIsCurrent
    <2>6. HeartsAreSure(start, {c}, held) /\ BellIsSure(start, {c}, held)
      BY <1>9, <2>2, <2>3 DEF HeartsAreSure, BellIsSure
    <2>7. ShopPageOK(start, {c}, held)
      BY <1>7, <1>9, <2>2, <2>4, <2>5, <2>6 DEF ShopPageOK
    <2> QED
      BY <1>10, <2>1, <2>7 DEF ShopPageInv
  <1>11. CASE screen = Shop!Mounted(start, "home", start.sure) /\ calls = {Shop!List("home", All, 1)}
    <2>1. PICK g : g = Shop!List("home", All, 1)
      OBVIOUS
    <2>2. /\ ShopCall(g) /\ g.kind = "list" /\ g.live /\ g.reply = None
          /\ g.arg.page = "home" /\ g.arg.tag = All
      BY <2>1, ShopListIs
    <2>3. PICK sure \in SUBSET ShopTopics : sure = start.sure
      BY <1>9, ShopFields
    <2>4. PICK t : t = Shop!Mounted(start, "home", sure)
      OBVIOUS
    <2>5. "home" \in ShopPages /\ "home" # None
      BY ShopPagesNamed DEF ShopPages, Shop!Pages
    <2>6. t \in ShopScreen /\ t.page = "home" /\ t.tag = All /\ HeartsAlike(t, start)
      BY <1>9, <2>4, <2>5, ShopMounted
    <2>7. ~t.user
      BY <1>9, <2>6 DEF HeartsAlike
    <2>8. \A topic : NoneCross({g}, topic)
      BY NoneCrossAlone
    <2>9. ShopStarted(t, {g})
      BY <2>2, <2>5, <2>6 DEF ShopStarted
    <2>10. ListIsSure(t, {g}, held)
      <3>1. ListCallIsCurrent(g, t, held)
        BY <2>2, <2>6 DEF ListCallIsCurrent
      <3> QED
        BY <2>2, <2>8, <3>1 DEF ListIsSure, ListIsCurrent
    <2>11. HeartsAreSure(t, {g}, held) /\ BellIsSure(t, {g}, held)
      BY <2>2, <2>7, <2>8 DEF HeartsAreSure, BellIsSure
    <2>12. ShopPageOK(t, {g}, held)
      BY <1>7, <2>2, <2>6, <2>9, <2>10, <2>11 DEF ShopPageOK
    <2>13. screen = t /\ calls = {g}
      BY <1>11, <2>1, <2>3, <2>4
    <2> QED
      BY <2>12, <2>13 DEF ShopPageInv
  <1> QED
    BY <1>8, <1>10, <1>11, Zenon DEF Shop!Init

LEMMA ShopPageStays ==
  ASSUME ShopPageInv, UNCHANGED clientVars
  PROVE  ShopPageInv'
  BY DEF ShopPageInv, clientVars

LEMMA ShopPageKeeps == ShopPageInv => Shop!ShowsTheShop
  <1> SUFFICES ASSUME ShopPageInv, calls = {} PROVE Shop!ShowsTheShop
    BY DEF Shop!ShowsTheShop
  <1>1. screen.page # None
    BY ShopKnows DEF ShopStarted
  <1>2. "list" \in screen.sure /\ screen.page # "signin" =>
          screen.list = Shop!Listing(held, [page |-> screen.page, tag |-> screen.tag, number |-> screen.number])
    BY <1>1, ShopKnows DEF ListIsSure, ListIsCurrent, Here
  <1>3. "hearts" \in screen.sure /\ screen.user => screen.hearts \ screen.removed = held.wish \ screen.removed
    BY ShopKnows DEF HeartsAreSure, HeartsAreCurrent
  <1>4. "bell" \in screen.sure /\ screen.user => screen.bell.count >= Cardinality(Shop!Unread(held.notes))
    <2> SUFFICES ASSUME "bell" \in screen.sure, screen.user
                 PROVE  screen.bell.count >= Cardinality(Shop!Unread(held.notes))
      OBVIOUS
    <2>1. BellCounts(screen, calls, held)
      BY ShopKnows DEF BellIsSure
    <2>2. PICK S \in SUBSET Ids : S = screen.bell.unread
      BY ShopKnows, ShopFields DEF ShopBells
    <2>3. PICK U \in SUBSET S : U = Shop!Unread(held.notes)
      BY <2>1, <2>2 DEF BellCounts
    <2>4. IsFiniteSet(S)
      BY ShopAssumption, FS_Subset
    <2>5. Cardinality(U) <= Cardinality(S)
      BY <2>4, FS_Subset
    <2>6. Cardinality(S) \in Nat /\ Cardinality(U) \in Nat
      BY <2>4, FS_Subset, FS_CardinalityType
    <2> QED
      BY <2>1, <2>2, <2>3, <2>5, <2>6 DEF BellCounts
  <1> QED
    BY <1>2, <1>3, <1>4, ShopCount DEF Shop!ShowsTheShop

-----------------------------------------------------------------------------
(* The reports: sums over the lines that were ordered.  SumFunction and      *)
(* Cardinality are, of an instance, symbols of their own.                    *)

LEMMA ReportSum == \A f : Reports!SumFunction(f) = SumFunctionOnSet(f, DOMAIN f)
  <1>1. \A f, S : Reports!SumFunctionOnSet(f, S) = SumFunctionOnSet(f, S)
    BY Zenon DEF Reports!SumFunctionOnSet, SumFunctionOnSet, Reports!FoldFunctionOnSet, FoldFunctionOnSet,
       Reports!MapThenFoldSet, MapThenFoldSet
  <1> QED
    BY <1>1, Zenon DEF Reports!SumFunction

LEMMA ReportCount == \A S : Reports!Cardinality(S) = Cardinality(S)
  BY Zenon DEF Reports!Cardinality, Cardinality

LEMMA ImageIsFinite ==
  ASSUME NEW S, IsFiniteSet(S), NEW f
  PROVE  IsFiniteSet({f[x] : x \in S})
  <1>1. PICK g : g = [x \in S |-> f[x]]
    OBVIOUS
  <1>2. g \in Surjection(S, {f[x] : x \in S})
    BY <1>1 DEF Surjection
  <1> QED
    BY <1>2, FS_Surjection

OrderedLines == UNION {{[order |-> o, line |-> l] : l \in Lines[o]} : o \in Orders}
LineTotals == [x \in OrderedLines |-> x.line.total]
LineUnits == [x \in OrderedLines |-> x.line.units]

LEMMA LinesAreFinite == IsFiniteSet(OrderedLines)
  <1>1. ASSUME NEW o \in Orders PROVE IsFiniteSet({[order |-> o, line |-> l] : l \in Lines[o]})
    <2>1. PICK f : f = [l \in Lines[o] |-> [order |-> o, line |-> l]]
      OBVIOUS
    <2>2. IsFiniteSet({f[l] : l \in Lines[o]})
      BY ReportAssumption, ImageIsFinite
    <2>3. {f[l] : l \in Lines[o]} = {[order |-> o, line |-> l] : l \in Lines[o]}
      BY <2>1
    <2> QED
      BY <2>2, <2>3
  <1>2. IsFiniteSet({{[order |-> o, line |-> l] : l \in Lines[o]} : o \in Orders})
    <2>1. PICK f : f = [o \in Orders |-> {[order |-> o, line |-> l] : l \in Lines[o]}]
      OBVIOUS
    <2>2. IsFiniteSet({f[o] : o \in Orders})
      BY ReportAssumption, ImageIsFinite
    <2>3. {f[o] : o \in Orders} = {{[order |-> o, line |-> l] : l \in Lines[o]} : o \in Orders}
      BY <2>1
    <2> QED
      BY <2>2, <2>3
  <1> QED
    BY <1>1, <1>2, FS_UNION DEF OrderedLines

LEMMA LinesAreTyped ==
  ASSUME NEW x \in OrderedLines
  PROVE  /\ x.order \in Orders /\ x.line \in Lines[x.order] /\ x.line.seller \in Sellers
         /\ x.line.total \in Nat /\ x.line.units \in Nat
         /\ LineTotals[x] \in Nat /\ LineUnits[x] \in Nat
  BY ReportAssumption DEF OrderedLines, LineTotals, LineUnits

LEMMA LinesListed ==
  ASSUME NEW O \in SUBSET Orders, NEW s
  PROVE  Reports!LinesIn(O, s) = {x \in OrderedLines : x.order \in O /\ s \in {None, x.line.seller}}
  BY DEF Reports!LinesIn, OrderedLines

LEMMA LinesTotal ==
  ASSUME NEW L \in SUBSET OrderedLines
  PROVE  /\ IsFiniteSet(L) /\ Numbers(LineTotals, L) /\ Numbers(LineUnits, L)
         /\ Reports!TotalOf(L) = SumFunctionOnSet(LineTotals, L) /\ Reports!TotalOf(L) \in Nat
         /\ Reports!UnitsOf(L) = SumFunctionOnSet(LineUnits, L) /\ Reports!UnitsOf(L) \in Nat
  <1>1. IsFiniteSet(L)
    BY LinesAreFinite, FS_Subset
  <1>2. PICK f, g : f = [x \in L |-> x.line.total] /\ g = [x \in L |-> x.line.units]
    OBVIOUS
  <1>3. \A x \in L : LineTotals[x] \in Nat /\ LineUnits[x] \in Nat /\ f[x] = LineTotals[x] /\ g[x] = LineUnits[x]
    BY <1>2, LinesAreTyped DEF LineTotals, LineUnits
  <1>4. Numbers(LineTotals, L) /\ Numbers(LineUnits, L) /\ Numbers(f, L) /\ Numbers(g, L)
    BY <1>3 DEF Numbers
  <1>5. Reports!TotalOf(L) = SumFunctionOnSet(f, L) /\ Reports!UnitsOf(L) = SumFunctionOnSet(g, L)
    BY <1>2, ReportSum DEF Reports!TotalOf, Reports!UnitsOf
  <1>6. SumFunctionOnSet(f, L) = SumFunctionOnSet(LineTotals, L) /\ SumFunctionOnSet(g, L) = SumFunctionOnSet(LineUnits, L)
    BY <1>1, <1>3, <1>4, SumSame
  <1>7. SumFunctionOnSet(LineTotals, L) \in Nat /\ SumFunctionOnSet(LineUnits, L) \in Nat
    BY <1>1, <1>3, SumNat
  <1> QED
    BY <1>1, <1>4, <1>5, <1>6, <1>7

(* The total of the lines is that of the parts into which they fall.         *)
LEMMA LinesInParts ==
  ASSUME NEW L \in SUBSET OrderedLines, NEW D, IsFiniteSet(D), NEW pile, FallsInto(pile, D, L), AllOf(pile, D) = L,
         NEW g, NEW h,
         \A d \in D : g[d] = Reports!TotalOf(pile[d]) /\ h[d] = Reports!UnitsOf(pile[d])
  PROVE  SumFunctionOnSet(g, D) = Reports!TotalOf(L) /\ SumFunctionOnSet(h, D) = Reports!UnitsOf(L)
  <1>1. ASSUME NEW d \in D PROVE pile[d] \in SUBSET OrderedLines
    BY DEF FallsInto
  <1>2. SumsOf(g, LineTotals, pile, D) /\ SumsOf(h, LineUnits, pile, D)
    BY <1>1, LinesTotal DEF SumsOf
  <1>3. IsFiniteSet(L) /\ Numbers(LineTotals, L) /\ Numbers(LineUnits, L)
    BY LinesTotal
  <1>4. SumFunctionOnSet(LineTotals, AllOf(pile, D)) = SumFunctionOnSet(g, D)
    BY <1>2, <1>3, SumParts
  <1>5. SumFunctionOnSet(LineUnits, AllOf(pile, D)) = SumFunctionOnSet(h, D)
    BY <1>2, <1>3, SumParts
  <1> QED
    BY <1>4, <1>5, LinesTotal

(* A set falls into parts as its cardinality does.                           *)
LEMMA CountIsSum ==
  ASSUME NEW S, IsFiniteSet(S), NEW one, \A x \in S : one[x] = 1
  PROVE  SumFunctionOnSet(one, S) = Cardinality(S)
  <1>0. PICK m \in Int : m = 0 - 1
    OBVIOUS
  <1>1. PICK less : less = [x \in S |-> m]
    OBVIOUS
  <1>2. Numbers(one, S) /\ Numbers(less, S) /\ Combines(less, m, one, 0, one, S)
    BY <1>0, <1>1 DEF Numbers, Combines
  <1>3. SumFunctionOnSet(one, S) <= 1 * Cardinality(S)
    BY <1>2, SumAtMost
  <1>4. SumFunctionOnSet(less, S) <= m * Cardinality(S)
    <2>1. \A x \in S : less[x] <= m
      BY <1>1
    <2> QED
      BY <1>2, <2>1, SumAtMost
  <1>5. SumFunctionOnSet(less, S) = m * SumFunctionOnSet(one, S) + 0 * SumFunctionOnSet(one, S)
    BY <1>2, SumLinear
  <1>6. PICK a, b \in Int : a = SumFunctionOnSet(one, S) /\ b = Cardinality(S)
    BY <1>2, SumType, FS_CardinalityType
  <1> QED
    BY <1>0, <1>3, <1>4, <1>5, <1>6

LEMMA CountInParts ==
  ASSUME NEW S, IsFiniteSet(S), NEW D, IsFiniteSet(D), NEW pile, FallsInto(pile, D, S), AllOf(pile, D) = S,
         NEW h, \A d \in D : h[d] = Cardinality(pile[d])
  PROVE  SumFunctionOnSet(h, D) = Cardinality(S)
  <1>1. PICK one : one = [x \in S |-> 1]
    OBVIOUS
  <1>2. SumsOf(h, one, pile, D)
    <2>1. ASSUME NEW d \in D PROVE IsFiniteSet(pile[d]) /\ \A x \in pile[d] : one[x] = 1
      BY <1>1, FS_Subset DEF FallsInto
    <2> QED
      BY <2>1, CountIsSum DEF SumsOf
  <1>3. Numbers(one, S) /\ \A x \in S : one[x] = 1
    BY <1>1 DEF Numbers
  <1>4. SumFunctionOnSet(one, AllOf(pile, D)) = SumFunctionOnSet(h, D)
    BY <1>2, <1>3, SumParts
  <1> QED
    BY <1>3, <1>4, CountIsSum

-----------------------------------------------------------------------------
(* Rows that are rolled up by a key hold every line once.                    *)
RowParts(L, key, rows) == [c \in rows |-> {x \in L : key[x] = c.key}]
Holds(rows, pile, L) ==
  /\ FallsInto(pile, rows, L) /\ AllOf(pile, rows) = L
  /\ \A c \in rows : c.gmv = Reports!TotalOf(pile[c]) /\ c.units = Reports!UnitsOf(pile[c])

LEMMA RowsAddUp ==
  ASSUME NEW L \in SUBSET OrderedLines, NEW key, NEW rows, rows = Reports!RollUp(L, key),
         NEW pile, pile = RowParts(L, key, rows)
  PROVE  /\ IsFiniteSet(rows)
         /\ \A c \in rows : c.gmv \in Nat /\ c.units \in Nat /\ c.gmv <= Reports!TotalOf(L)
         /\ SumFunctionOnSet([c \in rows |-> c.gmv], rows) = Reports!TotalOf(L)
         /\ SumFunctionOnSet([c \in rows |-> c.units], rows) = Reports!UnitsOf(L)
         /\ Holds(rows, pile, L)
  <1> DEFINE Mine(k) == {x \in L : key[x] = k}
             keys == {key[x] : x \in L}
             Row(k) == [key |-> k, units |-> Reports!UnitsOf(Mine(k)), gmv |-> Reports!TotalOf(Mine(k))]
  <1>1. rows = {Row(k) : k \in keys}
    BY DEF Reports!RollUp
  <1>2. IsFiniteSet(L) /\ IsFiniteSet(keys)
    BY LinesTotal, ImageIsFinite
  <1>3. IsFiniteSet(rows)
    <2>1. PICK f : f = [k \in keys |-> Row(k)]
      OBVIOUS
    <2>2. IsFiniteSet({f[k] : k \in keys})
      BY <1>2, ImageIsFinite
    <2>3. {f[k] : k \in keys} = rows
      BY <1>1, <2>1
    <2> QED
      BY <2>2, <2>3
  <1>4. pile = [c \in rows |-> Mine(c.key)]
    BY DEF RowParts
  <1>5. ASSUME NEW c \in rows
        PROVE  /\ c.key \in keys /\ pile[c] = Mine(c.key) /\ pile[c] \in SUBSET L
               /\ c.gmv = Reports!TotalOf(pile[c]) /\ c.units = Reports!UnitsOf(pile[c])
               /\ c = Row(c.key)
    <2>1. PICK k \in keys : c = Row(k)
      BY <1>1
    <2>2. c.key = k /\ c.units = Reports!UnitsOf(Mine(k)) /\ c.gmv = Reports!TotalOf(Mine(k))
      BY <2>1
    <2>3. pile[c] = Mine(c.key)
      BY <1>4
    <2> QED
      BY <2>1, <2>2, <2>3
  <1> HIDE DEF Row
  <1>6. FallsInto(pile, rows, L)
    <2>1. \A c, d \in rows : c # d => c.key # d.key
      BY <1>5
    <2>2. pile \in [rows -> SUBSET L]
      BY <1>4, <1>5
    <2> QED
      BY <1>5, <2>1, <2>2 DEF FallsInto
  <1>7. AllOf(pile, rows) = L
    <2>1. ASSUME NEW x \in L PROVE \E c \in rows : x \in pile[c]
      <3>1. PICK c : c = Row(key[x])
        OBVIOUS
      <3>2. c \in rows /\ c.key = key[x]
        BY <1>1, <3>1 DEF Row
      <3> QED
        BY <1>5, <3>2
    <2> QED
      BY <1>5, <2>1 DEF AllOf
  <1>8. ASSUME NEW c \in rows PROVE c.gmv \in Nat /\ c.units \in Nat /\ c.gmv <= Reports!TotalOf(L)
    <2>1. pile[c] \in SUBSET L /\ pile[c] \in SUBSET OrderedLines
      BY <1>5
    <2>2. \A x \in L : LineTotals[x] \in Nat
      BY LinesAreTyped
    <2>3. SumFunctionOnSet(LineTotals, pile[c]) <= SumFunctionOnSet(LineTotals, L)
      BY <1>2, <2>1, <2>2, SumSubset
    <2> QED
      BY <1>5, <2>1, <2>3, LinesTotal
  <1>9. PICK g, h : g = [c \in rows |-> c.gmv] /\ h = [c \in rows |-> c.units]
    OBVIOUS
  <1>10. SumFunctionOnSet(g, rows) = Reports!TotalOf(L) /\ SumFunctionOnSet(h, rows) = Reports!UnitsOf(L)
    <2>1. \A c \in rows : g[c] = Reports!TotalOf(pile[c]) /\ h[c] = Reports!UnitsOf(pile[c])
      BY <1>5, <1>9
    <2> QED
      BY <1>3, <1>6, <1>7, <2>1, LinesInParts
  <1>11. \A c \in rows : c.gmv = Reports!TotalOf(pile[c]) /\ c.units = Reports!UnitsOf(pile[c])
    BY <1>5
  <1> QED
    BY <1>3, <1>6, <1>7, <1>8, <1>9, <1>10, <1>11 DEF Holds

(* What is said of a period.                                                 *)
LEMMA OverviewIs ==
  ASSUME NEW db, NEW w, NEW s, NEW sold, sold = Reports!Sold(db, Reports!ResolveWindow(db, w), s)
  PROVE  /\ Reports!Overview(db, w, s).gmv = Reports!Gmv(sold, s)
         /\ Reports!Overview(db, w, s).units = Reports!UnitsOf(Reports!LinesIn(sold, s))
         /\ Reports!Overview(db, w, s).orders = Cardinality(sold)
         /\ sold \in SUBSET Orders
         /\ Reports!SoldLines(db, w, s) = Reports!LinesIn(sold, s)
  <1>1. sold \in SUBSET Orders
    BY DEF Reports!Sold, Reports!ScopedOrders
  <1>2. Reports!SoldLines(db, w, s) = Reports!LinesIn(sold, s)
    BY DEF Reports!SoldLines
  <1>3. /\ Reports!Overview(db, w, s).gmv = Reports!Gmv(sold, s)
        /\ Reports!Overview(db, w, s).units = Reports!UnitsOf(Reports!LinesIn(sold, s))
        /\ Reports!Overview(db, w, s).orders = Reports!Cardinality(sold)
    BY DEF Reports!Overview
  <1> QED
    BY <1>1, <1>2, <1>3, ReportCount

LEMMA ToldIs ==
  ASSUME NEW w, NEW told, told = [s \in Sellers \cup {None} |-> Reports!Overview(held, w, s)],
         NEW s \in Sellers \cup {None}
  PROVE  told[s] = Reports!Overview(held, w, s)
  OBVIOUS

-----------------------------------------------------------------------------
(* Grand totals are of orders, and of slices that make them up.              *)
Grands == [x \in Reports!Slices |-> ShareOf[x].grand]

LEMMA SliceIs ==
  ASSUME NEW x \in Reports!Slices
  PROVE  x = <<x[1], x[2]>> /\ x[1] \in Orders /\ x[2] \in Reports!SlicesOf(x[1]) /\ x[2] \in Sellers
  <1>1. PICK o \in Orders : x \in {o} \X Reports!SlicesOf(o)
    BY DEF Reports!Slices
  <1>2. x = <<x[1], x[2]>> /\ x[1] = o /\ x[2] \in Reports!SlicesOf(o)
    BY <1>1
  <1> QED
    BY <1>2, ReportAssumption DEF Reports!SlicesOf

LEMMA SlicesAreFinite == IsFiniteSet(Reports!Slices) /\ Numbers(Grands, Reports!Slices)
  <1>1. IsFiniteSet(Orders \X Sellers)
    BY ReportAssumption, FS_Product
  <1>2. Reports!Slices \in SUBSET (Orders \X Sellers)
    BY SliceIs
  <1>3. IsFiniteSet(Reports!Slices)
    BY <1>1, <1>2, FS_Subset
  <1>4. Numbers(Grands, Reports!Slices)
    BY BillAssumption DEF Numbers, Grands
  <1> QED
    BY <1>3, <1>4

LEMMA SlicesOfOrder ==
  ASSUME NEW o \in Orders, NEW mine, mine = {o} \X Reports!SlicesOf(o)
  PROVE  /\ mine \in SUBSET Reports!Slices
         /\ GrandTotal[o] = SumFunctionOnSet(Grands, mine) /\ GrandTotal[o] \in Int
  <1>1. mine \in SUBSET Reports!Slices
    BY DEF Reports!Slices
  <1>2. IsFiniteSet(mine) /\ Numbers(Grands, mine)
    BY <1>1, SlicesAreFinite, FS_Subset DEF Numbers
  <1>3. PICK f : f = [x \in mine |-> ShareOf[x].grand]
    OBVIOUS
  <1>4. \A x \in mine : f[x] = Grands[x]
    BY <1>1, <1>3 DEF Grands
  <1>5. Numbers(f, mine)
    BY <1>2, <1>4 DEF Numbers
  <1>6. SumFunctionOnSet(f, mine) = SumFunctionOnSet(Grands, mine)
    BY <1>2, <1>4, <1>5, SumSame
  <1>7. GrandTotal[o] = SumFunctionOnSet(f, mine)
    <2>1. GrandTotal[o] = Reports!SumFunction([x \in {o} \X Reports!SlicesOf(o) |-> ShareOf[x].grand])
      BY BillAssumption
    <2>2. f = [x \in {o} \X Reports!SlicesOf(o) |-> ShareOf[x].grand] /\ DOMAIN f = mine
      BY <1>3
    <2> QED
      BY <2>1, <2>2, ReportSum
  <1> QED
    BY <1>1, <1>2, <1>6, <1>7, SumType

HaveSlice(O, s) == O \in SUBSET Orders /\ \A o \in O : s \in {None} \cup Reports!SlicesOf(o)

LEMMA GmvIs ==
  ASSUME NEW s, NEW O, HaveSlice(O, s), NEW f, f = [o \in O |-> Reports!SliceGmv(o, s)]
  PROVE  /\ IsFiniteSet(O) /\ Numbers(f, O)
         /\ Reports!Gmv(O, s) = SumFunctionOnSet(f, O) /\ Reports!Gmv(O, s) \in Int
  <1>1. IsFiniteSet(O)
    BY ReportAssumption, FS_Subset DEF HaveSlice
  <1>2. ASSUME NEW o \in O PROVE f[o] \in Int
    <2>1. o \in Orders /\ f[o] = Reports!SliceGmv(o, s)
      BY DEF HaveSlice
    <2>2. GrandTotal[o] \in Int
      BY <2>1, SlicesOfOrder
    <2>3. ASSUME s # None PROVE ShareOf[<<o, s>>].grand \in Int
      <3>1. PICK x : x = <<o, s>>
        OBVIOUS
      <3>2. x \in Reports!Slices
        BY <2>1, <2>3, <3>1 DEF HaveSlice, Reports!Slices
      <3> QED
        BY <3>1, <3>2, BillAssumption
    <2> QED
      BY <2>1, <2>2, <2>3 DEF Reports!SliceGmv
  <1>3. Numbers(f, O)
    BY <1>2 DEF Numbers
  <1>4. Reports!Gmv(O, s) = SumFunctionOnSet(f, O)
    BY ReportSum DEF Reports!Gmv
  <1> QED
    BY <1>1, <1>3, <1>4, SumType

LEMMA SumSingle ==
  ASSUME NEW g, NEW x, g[x] \in Int
  PROVE  SumFunctionOnSet(g, {x}) = g[x]
  <1>1. PICK S : S = {x}
    OBVIOUS
  <1>2. IsFiniteSet(S) /\ x \in S /\ Numbers(g, S) /\ S \ {x} = {}
    BY <1>1, FS_Singleton DEF Numbers
  <1>3. SumFunctionOnSet(g, S) = SumFunctionOnSet(g, S \ {x}) + g[x]
    BY <1>2, SumRemove
  <1> QED
    BY <1>1, <1>2, <1>3, SumEmpty

(* What a seller's slices come to is summed over the orders they belong to.  *)
LEMMA SlicesTotal ==
  ASSUME NEW s \in Sellers, NEW O, HaveSlice(O, s), NEW X, X = O \X {s}
  PROVE  X \in SUBSET Reports!Slices /\ Reports!Gmv(O, s) = SumFunctionOnSet(Grands, X)
  <1>0. s # None
    BY ReportAssumption
  <1>1. PICK f : f = [o \in O |-> Reports!SliceGmv(o, s)]
    OBVIOUS
  <1>2. IsFiniteSet(O) /\ Reports!Gmv(O, s) = SumFunctionOnSet(f, O)
    BY <1>1, GmvIs
  <1>3. X \in SUBSET Reports!Slices
    BY <1>0 DEF HaveSlice, Reports!Slices
  <1>4. IsFiniteSet(X) /\ Numbers(Grands, X)
    BY <1>3, SlicesAreFinite, FS_Subset DEF Numbers
  <1>5. PICK one : one = [o \in O |-> {<<o, s>>}]
    OBVIOUS
  <1>6. FallsInto(one, O, X) /\ AllOf(one, O) = X
    <2>1. one \in [O -> SUBSET X]
      BY <1>5
    <2>2. \A c, d \in O : c # d => one[c] \cap one[d] = {}
      BY <1>5
    <2>3. AllOf(one, O) = X
      BY <1>5 DEF AllOf
    <2> QED
      BY <2>1, <2>2, <2>3 DEF FallsInto
  <1>7. SumsOf(f, Grands, one, O)
    <2>1. ASSUME NEW o \in O PROVE f[o] = SumFunctionOnSet(Grands, one[o])
      <3>1. PICK x : x = <<o, s>>
        OBVIOUS
      <3>2. x \in X /\ one[o] = {x} /\ f[o] = ShareOf[x].grand
        BY <1>0, <1>1, <1>5, <3>1 DEF Reports!SliceGmv
      <3>3. Grands[x] = ShareOf[x].grand /\ Grands[x] \in Int
        BY <1>3, <1>4, <3>2 DEF Grands, Numbers
      <3> QED
        BY <3>2, <3>3, SumSingle
    <2> QED
      BY <2>1 DEF SumsOf
  <1>8. SumFunctionOnSet(Grands, AllOf(one, O)) = SumFunctionOnSet(f, O)
    BY <1>2, <1>4, <1>6, <1>7, SumParts
  <1> QED
    BY <1>2, <1>3, <1>6, <1>8

(* What the orders come to is what the sellers' slices of them come to.      *)
WithSlice(T, s) == {o \in T : s \in Reports!SlicesOf(o)}

LEMMA SellersGmv ==
  ASSUME NEW T \in SUBSET Orders, NEW g, \A s \in Sellers : g[s] = Reports!Gmv(WithSlice(T, s), s)
  PROVE  SumFunctionOnSet(g, Sellers) = Reports!Gmv(T, None)
  <1>1. PICK P : P = {x \in Reports!Slices : x[1] \in T}
    OBVIOUS
  <1>2. IsFiniteSet(P) /\ Numbers(Grands, P) /\ IsFiniteSet(Sellers)
    BY <1>1, SlicesAreFinite, FS_Subset, ReportAssumption DEF Numbers
  <1>3. PICK f : f = [o \in T |-> Reports!SliceGmv(o, None)]
    OBVIOUS
  <1>4. HaveSlice(T, None)
    BY DEF HaveSlice
  <1>5. IsFiniteSet(T) /\ Reports!Gmv(T, None) = SumFunctionOnSet(f, T)
    BY <1>3, <1>4, GmvIs
  <1>6. PICK ofOrder : ofOrder = [o \in T |-> {o} \X Reports!SlicesOf(o)]
    OBVIOUS
  <1>7. ASSUME NEW o \in T
        PROVE  /\ ofOrder[o] \in SUBSET P /\ ofOrder[o] = {x \in P : x[1] = o}
               /\ f[o] = SumFunctionOnSet(Grands, ofOrder[o])
    <2>1. PICK mine : mine = {o} \X Reports!SlicesOf(o)
      OBVIOUS
    <2>2. ofOrder[o] = mine
      BY <1>6, <2>1
    <2>3. mine \in SUBSET Reports!Slices /\ GrandTotal[o] = SumFunctionOnSet(Grands, mine)
      BY <2>1, SlicesOfOrder
    <2>4. f[o] = GrandTotal[o]
      BY <1>3 DEF Reports!SliceGmv
    <2>5. mine = {x \in P : x[1] = o}
      BY <1>1, <2>1, <2>3, SliceIs
    <2> QED
      BY <2>2, <2>3, <2>4, <2>5
  <1>8. FallsInto(ofOrder, T, P) /\ AllOf(ofOrder, T) = P
    <2>1. ofOrder \in [T -> SUBSET P]
      BY <1>6, <1>7
    <2>2. \A c, d \in T : c # d => ofOrder[c] \cap ofOrder[d] = {}
      BY <1>7
    <2>3. AllOf(ofOrder, T) = P
      BY <1>1, <1>7 DEF AllOf
    <2> QED
      BY <2>1, <2>2, <2>3 DEF FallsInto
  <1>9. SumsOf(f, Grands, ofOrder, T)
    BY <1>7 DEF SumsOf
  <1>10. SumFunctionOnSet(Grands, AllOf(ofOrder, T)) = SumFunctionOnSet(f, T)
    BY <1>2, <1>5, <1>8, <1>9, SumParts
  <1>11. PICK ofSeller : ofSeller = [s \in Sellers |-> {x \in P : x[2] = s}]
    OBVIOUS
  <1>12. FallsInto(ofSeller, Sellers, P) /\ AllOf(ofSeller, Sellers) = P
    <2>1. \A x \in P : x[2] \in Sellers
      BY <1>1, SliceIs
    <2> QED
      BY <1>11, <2>1 DEF FallsInto, AllOf
  <1>13. SumsOf(g, Grands, ofSeller, Sellers)
    <2>1. ASSUME NEW s \in Sellers PROVE g[s] = SumFunctionOnSet(Grands, ofSeller[s])
      <3>1. PICK O : O = WithSlice(T, s)
        OBVIOUS
      <3>2. PICK X : X = O \X {s}
        OBVIOUS
      <3>3. HaveSlice(O, s)
        BY <3>1 DEF HaveSlice, WithSlice
      <3>4. X \in SUBSET Reports!Slices /\ Reports!Gmv(O, s) = SumFunctionOnSet(Grands, X)
        BY <3>2, <3>3, SlicesTotal
      <3>5. X = ofSeller[s]
        <4>1. ofSeller[s] = {x \in Reports!Slices : x[1] \in T /\ x[2] = s}
          BY <1>1, <1>11
        <4>2. ASSUME NEW x \in X PROVE x \in ofSeller[s]
          BY <3>1, <3>2, <3>4, <4>1, <4>2 DEF WithSlice
        <4>3. ASSUME NEW x \in ofSeller[s] PROVE x \in X
          <5>1. x \in Reports!Slices /\ x[1] \in T /\ x[2] = s
            BY <4>1, <4>3
          <5>2. x = <<x[1], x[2]>> /\ x[2] \in Reports!SlicesOf(x[1])
            BY <5>1, SliceIs
          <5> QED
            BY <3>1, <3>2, <5>1, <5>2 DEF WithSlice
        <4> QED
          BY <4>2, <4>3
      <3> QED
        BY <3>1, <3>4, <3>5
    <2> QED
      BY <2>1 DEF SumsOf
  <1>14. SumFunctionOnSet(Grands, AllOf(ofSeller, Sellers)) = SumFunctionOnSet(g, Sellers)
    BY <1>2, <1>12, <1>13, SumParts
  <1> QED
    BY <1>5, <1>8, <1>10, <1>12, <1>14

(* The categories hold what was sold, in units and in goods.                 *)
LEMMA CategoriesHold ==
  ASSUME NEW w, NEW s, NEW L, L = Reports!SoldLines(held, w, s)
  PROVE  /\ L \in SUBSET OrderedLines /\ Reports!GoodsSold(w, s) = Reports!TotalOf(L)
         /\ Reports!SumFunction([c \in Reports!Categories(held, w, s) |-> c.units]) = Reports!UnitsOf(L)
  <1>1. PICK sold : sold = Reports!Sold(held, Reports!ResolveWindow(held, w), s)
    OBVIOUS
  <1>2. L \in SUBSET OrderedLines
    BY <1>1, OverviewIs, LinesListed
  <1>3. PICK key : key = [x \in L |-> CategoryOf[x.line.product]]
    OBVIOUS
  <1>4. PICK rows : rows = Reports!Categories(held, w, s)
    OBVIOUS
  <1>5. rows = Reports!RollUp(L, key)
    BY <1>3, <1>4 DEF Reports!Categories
  <1>6. PICK g, h : g = [c \in rows |-> c.gmv] /\ h = [c \in rows |-> c.units]
    OBVIOUS
  <1>7. PICK pile : pile = RowParts(L, key, rows)
    OBVIOUS
  <1>8. SumFunctionOnSet(g, rows) = Reports!TotalOf(L) /\ SumFunctionOnSet(h, rows) = Reports!UnitsOf(L)
    BY <1>2, <1>5, <1>6, <1>7, RowsAddUp
  <1>9. Reports!SumFunction(g) = SumFunctionOnSet(g, rows) /\ Reports!SumFunction(h) = SumFunctionOnSet(h, rows)
    BY <1>6, ReportSum
  <1> QED
    BY <1>2, <1>4, <1>6, <1>8, <1>9 DEF Reports!GoodsSold

LEMMA CategoriesTotals ==
  ASSUME NEW w, NEW s
  PROVE  Reports!CategoriesAddUp(w, s, Reports!Overview(held, w, s))
  <1>1. PICK sold : sold = Reports!Sold(held, Reports!ResolveWindow(held, w), s)
    OBVIOUS
  <1>2. PICK L : L = Reports!SoldLines(held, w, s)
    OBVIOUS
  <1>3. Reports!Overview(held, w, s).units = Reports!UnitsOf(L)
    BY <1>1, <1>2, OverviewIs
  <1> QED
    BY <1>2, <1>3, CategoriesHold DEF Reports!CategoriesAddUp

LEMMA SellersTotals ==
  ASSUME NEW w, NEW told, told = [s \in Sellers \cup {None} |-> Reports!Overview(held, w, s)]
  PROVE  Reports!SellersAddUp(w, told)
  <1> DEFINE win == Reports!ResolveWindow(held, w)
             SoldTo(s) == Reports!Sold(held, win, s)
             By(s) == Reports!LinesIn(SoldTo(s), s)
  <1>1. PICK L : L = By(None)
    OBVIOUS
  <1>2. \A s : SoldTo(s) \in SUBSET Orders
    BY DEF Reports!Sold, Reports!ScopedOrders
  <1>3. L = {x \in OrderedLines : x.order \in SoldTo(None)}
    <2>1. L = {x \in OrderedLines : x.order \in SoldTo(None) /\ None \in {None, x.line.seller}}
      BY <1>1, <1>2, LinesListed
    <2> QED
      BY <2>1
  <1>4. ASSUME NEW s \in Sellers
        PROVE  By(s) = {x \in L : x.line.seller = s} /\ SoldTo(s) = WithSlice(SoldTo(None), s)
    <2>1. By(s) = {x \in OrderedLines : x.order \in SoldTo(s) /\ s \in {None, x.line.seller}}
      BY <1>2, LinesListed
    <2>2. s # None
      BY ReportAssumption
    <2>3. \A x \in OrderedLines : x.line.seller = s => (x.order \in SoldTo(s) <=> x.order \in SoldTo(None))
      BY LinesAreTyped DEF Reports!Sold, Reports!ScopedOrders, Reports!SlicesOf
    <2>4. SoldTo(s) = WithSlice(SoldTo(None), s)
      BY <2>2 DEF Reports!Sold, Reports!ScopedOrders, WithSlice
    <2> QED
      BY <1>3, <2>1, <2>2, <2>3, <2>4
  <1>5. PICK pile : pile = [s \in Sellers |-> By(s)]
    OBVIOUS
  <1>6. FallsInto(pile, Sellers, L) /\ AllOf(pile, Sellers) = L /\ L \in SUBSET OrderedLines
    <2>1. \A s \in Sellers : pile[s] = {x \in L : x.line.seller = s}
      BY <1>4, <1>5
    <2>2. \A x \in L : x.line.seller \in Sellers
      BY <1>3, LinesAreTyped
    <2> QED
      BY <1>3, <1>5, <2>1, <2>2 DEF FallsInto, AllOf
  <1>7. PICK g, h, m : /\ g = [s \in Sellers |-> Reports!GoodsSold(w, s)]
                       /\ h = [s \in Sellers |-> told[s].units] /\ m = [s \in Sellers |-> told[s].gmv]
    OBVIOUS
  <1>8. ASSUME NEW s \in Sellers \cup {None}
        PROVE  /\ told[s].gmv = Reports!Gmv(SoldTo(s), s) /\ told[s].units = Reports!UnitsOf(By(s))
               /\ Reports!GoodsSold(w, s) = Reports!TotalOf(By(s))
    <2>1. told[s].gmv = Reports!Gmv(SoldTo(s), s) /\ told[s].units = Reports!UnitsOf(By(s))
      BY OverviewIs, ToldIs
    <2>2. Reports!SoldLines(held, w, s) = By(s)
      BY OverviewIs
    <2> QED
      BY <2>1, <2>2, CategoriesHold
  <1>9. \A s \in Sellers : g[s] = Reports!TotalOf(pile[s]) /\ h[s] = Reports!UnitsOf(pile[s])
    BY <1>5, <1>7, <1>8
  <1>10. SumFunctionOnSet(g, Sellers) = Reports!TotalOf(L) /\ SumFunctionOnSet(h, Sellers) = Reports!UnitsOf(L)
    BY <1>6, <1>9, LinesInParts, ReportAssumption
  <1>11. SumFunctionOnSet(m, Sellers) = Reports!Gmv(SoldTo(None), None)
    <2>1. PICK T : T = SoldTo(None)
      OBVIOUS
    <2>2. \A s \in Sellers : m[s] = Reports!Gmv(WithSlice(T, s), s)
      BY <1>4, <1>7, <1>8, <2>1
    <2>3. T \in SUBSET Orders
      BY <1>2, <2>1
    <2> QED
      BY <2>1, <2>2, <2>3, SellersGmv
  <1>12. /\ Reports!SumFunction(g) = SumFunctionOnSet(g, Sellers)
         /\ Reports!SumFunction(h) = SumFunctionOnSet(h, Sellers)
         /\ Reports!SumFunction(m) = SumFunctionOnSet(m, Sellers)
    BY <1>7, ReportSum
  <1>13. /\ told[None].gmv = Reports!Gmv(SoldTo(None), None) /\ told[None].units = Reports!UnitsOf(L)
         /\ Reports!GoodsSold(w, None) = Reports!TotalOf(L)
    BY <1>1, <1>8
  <1> QED
    BY <1>7, <1>10, <1>11, <1>12, <1>13 DEF Reports!SellersAddUp

-----------------------------------------------------------------------------
(* A ranking has every row once.                                             *)
LEMMA LeastSold ==
  ASSUME NEW T, T # {}, \A c \in T : c.gmv \in Nat /\ c.units \in Nat
  PROVE  \E m \in T : \A c \in T : ~Reports!MoreSold(m, c)
  <1>1. PICK a \in T : \A c \in T : a.gmv <= c.gmv
    <2>1. PICK c \in T, n \in Nat : n = c.gmv
      OBVIOUS
    <2>2. PICK B : B = {d.gmv : d \in T} \cap (0 .. n)
      OBVIOUS
    <2>3. B \in SUBSET (0 .. n) /\ n \in B
      BY <2>1, <2>2
    <2>4. PICK m \in B : \A k \in 0 .. m - 1 : k \notin B
      BY <2>3, LeastNumber
    <2>5. PICK d \in T : d.gmv = m
      BY <2>2
    <2>6. m \in Nat /\ m <= n
      BY <2>3
    <2>7. ASSUME NEW e \in T, ~(m <= e.gmv) PROVE FALSE
      <3>1. e.gmv \in 0 .. m - 1 /\ e.gmv \in 0 .. n
        BY <2>6, <2>7
      <3> QED
        BY <2>2, <2>4, <3>1
    <2> QED
      BY <2>5, <2>7
  <1>2. PICK E : E = {c \in T : c.gmv = a.gmv}
    OBVIOUS
  <1>3. PICK b \in E : \A c \in E : b.units <= c.units
    <2>1. PICK n \in Nat : n = a.units
      OBVIOUS
    <2>2. PICK B : B = {d.units : d \in E} \cap (0 .. n)
      OBVIOUS
    <2>3. B \in SUBSET (0 .. n) /\ n \in B
      BY <1>2, <2>1, <2>2
    <2>4. PICK m \in B : \A k \in 0 .. m - 1 : k \notin B
      BY <2>3, LeastNumber
    <2>5. PICK d \in E : d.units = m
      BY <2>2
    <2>6. m \in Nat /\ m <= n
      BY <2>3
    <2>7. ASSUME NEW e \in E, ~(m <= e.units) PROVE FALSE
      <3>1. e.units \in 0 .. m - 1 /\ e.units \in 0 .. n
        BY <1>2, <2>6, <2>7
      <3> QED
        BY <2>2, <2>4, <3>1
    <2> QED
      BY <2>5, <2>7
  <1>4. ASSUME NEW c \in T PROVE ~Reports!MoreSold(b, c)
    <2>1. b \in T /\ b.gmv = a.gmv /\ a.gmv <= c.gmv
      BY <1>1, <1>2
    <2>2. c.gmv = a.gmv => b.units <= c.units
      BY <1>2, <1>3
    <2>3. PICK p, q, r, t \in Nat : p = b.gmv /\ q = c.gmv /\ r = b.units /\ t = c.units
      BY <2>1
    <2> QED
      BY <2>1, <2>2, <2>3 DEF Reports!MoreSold
  <1> QED
    BY <1>2, <1>4

Ranks(seq, R) == seq \in [1 .. Cardinality(R) -> R] /\ Reports!IsRanked(seq, R)

LEMMA RankedWithLast ==
  ASSUME NEW T, IsFiniteSet(T), NEW m \in T, \A c \in T : ~Reports!MoreSold(m, c), NEW seq, Ranks(seq, T \ {m})
  PROVE  \E more : Ranks(more, T)
  <1>1. PICK n \in Nat : n = Cardinality(T \ {m})
    BY FS_RemoveElement, FS_CardinalityType
  <1>2. Cardinality(T) = n + 1
    <2>1. Cardinality(T) \in Nat
      BY FS_CardinalityType
    <2>2. Cardinality(T \ {m}) = IF m \in T THEN Cardinality(T) - 1 ELSE Cardinality(T)
      BY FS_RemoveElement, Zenon
    <2> QED
      BY <1>1, <2>1, <2>2
  <1>3. PICK more : more = [i \in 1 .. n + 1 |-> IF i = n + 1 THEN m ELSE seq[i]]
    OBVIOUS
  <1>4. seq \in [1 .. n -> T \ {m}] /\ Reports!IsRanked(seq, T \ {m})
    BY <1>1 DEF Ranks
  <1>5. more \in [1 .. n + 1 -> T] /\ more[n + 1] = m /\ \A i \in 1 .. n : more[i] = seq[i]
    BY <1>3, <1>4
  <1>6. ASSUME NEW row \in T PROVE \E i \in DOMAIN more : more[i] = row
    <2>1. CASE row = m
      BY <1>5, <2>1
    <2>2. CASE row # m
      <3>1. PICK i \in 1 .. n : seq[i] = row
        BY <1>4, <2>2 DEF Reports!IsRanked
      <3> QED
        BY <1>5, <3>1
    <2> QED
      BY <2>1, <2>2
  <1>7. ASSUME NEW i \in DOMAIN more, NEW j \in DOMAIN more, i < j PROVE ~Reports!MoreSold(more[j], more[i])
    <2>1. i \in 1 .. n /\ more[i] \in T
      BY <1>5, <1>7
    <2>2. CASE j = n + 1
      BY <1>5, <2>1, <2>2
    <2>3. CASE j # n + 1
      <3>1. j \in 1 .. n
        BY <1>5, <2>3
      <3> QED
        BY <1>4, <1>5, <1>7, <2>1, <3>1 DEF Reports!IsRanked
    <2> QED
      BY <2>2, <2>3
  <1>8. Reports!IsRanked(more, T)
    BY <1>6, <1>7 DEF Reports!IsRanked
  <1> QED
    BY <1>2, <1>5, <1>8 DEF Ranks

LEMMA RankingExists ==
  ASSUME NEW rows, IsFiniteSet(rows), \A c \in rows : c.gmv \in Nat /\ c.units \in Nat
  PROVE  \E seq : Ranks(seq, rows)
  <1>1. PICK B : B = {R \in SUBSET rows : ~\E seq : Ranks(seq, R)}
    OBVIOUS
  <1>2. SUFFICES ASSUME B # {} PROVE FALSE
    BY <1>1
  <1>3. PICK T \in B : IsFiniteSet(T) /\ \A U \in SUBSET T : U # T => U \notin B
    <2>1. B \in SUBSET SUBSET rows
      BY <1>1
    <2> QED
      BY <1>2, <2>1, MinimalSet
  <1>4. T \in SUBSET rows /\ ~\E seq : Ranks(seq, T)
    BY <1>1
  <1>5. CASE T = {}
    <2>1. PICK seq : seq = [i \in 1 .. 0 |-> i]
      OBVIOUS
    <2>2. Cardinality(T) = 0
      BY <1>5, FS_EmptySet
    <2>3. seq \in [1 .. 0 -> T] /\ DOMAIN seq = {}
      BY <2>1
    <2>4. Reports!IsRanked(seq, T)
      BY <1>5, <2>3 DEF Reports!IsRanked
    <2> QED
      BY <1>4, <2>2, <2>3, <2>4 DEF Ranks
  <1>6. CASE T # {}
    <2>1. PICK m \in T : \A c \in T : ~Reports!MoreSold(m, c)
      BY <1>4, <1>6, LeastSold
    <2>2. T \ {m} \in SUBSET T /\ T \ {m} # T /\ T \ {m} \in SUBSET rows
      BY <1>4
    <2>3. PICK seq : Ranks(seq, T \ {m})
      BY <1>1, <1>3, <2>2
    <2> QED
      BY <1>3, <1>4, <2>1, <2>3, RankedWithLast
  <1> QED
    BY <1>5, <1>6

LEMMA RankingIs ==
  ASSUME NEW rows, IsFiniteSet(rows), \A c \in rows : c.gmv \in Nat /\ c.units \in Nat,
         NEW seq, seq = Reports!Ranking(rows)
  PROVE  /\ seq \in [1 .. Cardinality(rows) -> rows]
         /\ \A row \in rows : \E i \in 1 .. Cardinality(rows) : seq[i] = row
         /\ \A i, j \in 1 .. Cardinality(rows) : seq[i] = seq[j] => i = j
  <1>1. PICK some : Ranks(some, rows)
    BY RankingExists
  <1>2. PICK n \in Nat : n = Cardinality(rows) /\ n = Reports!Cardinality(rows)
    BY FS_CardinalityType, ReportCount
  <1>3. \E f \in [1 .. n -> rows] : Reports!IsRanked(f, rows)
    BY <1>1, <1>2 DEF Ranks
  <1>4. seq = CHOOSE f \in [1 .. n -> rows] : Reports!IsRanked(f, rows)
    BY <1>2 DEF Reports!Ranking
  <1>5. seq \in [1 .. n -> rows] /\ Reports!IsRanked(seq, rows)
    BY <1>3, <1>4
  <1>6. \A row \in rows : \E i \in 1 .. n : seq[i] = row
    BY <1>5 DEF Reports!IsRanked
  <1>7. seq \in Surjection(1 .. n, rows)
    BY <1>5, <1>6 DEF Surjection
  <1>8. IsFiniteSet(1 .. n) /\ Cardinality(1 .. n) = n
    <2>1. Cardinality(1 .. n) = IF 1 > n THEN 0 ELSE n - 1 + 1
      BY FS_Interval
    <2> QED
      BY <2>1, FS_Interval
  <1>9. seq \in Injection(1 .. n, rows)
    BY <1>2, <1>7, <1>8, FS_SurjSameCardinalityImpliesInj
  <1>10. \A i, j \in 1 .. n : seq[i] = seq[j] => i = j
    BY <1>5, <1>9 DEF Injection, IsInjective
  <1> QED
    BY <1>2, <1>5, <1>6, <1>10

-----------------------------------------------------------------------------
LEMMA LengthIs ==
  ASSUME NEW S, NEW n \in Nat, NEW f \in [1 .. n -> S]
  PROVE  Len(f) = n
  <1>1. f \in Seq(S)
    OBVIOUS
  <1> QED
    BY <1>1

First(seq, k) == [i \in 1 .. k |-> seq[i]]
FirstOf(top, k, seq, n) ==
  /\ k \in 0 .. n /\ DOMAIN top = 1 .. k /\ Len(top) = k
  /\ \A i \in 1 .. k : top[i] = seq[i]
  /\ k < Limit => k = n

LEMMA TopIs ==
  ASSUME NEW rows, NEW n \in Nat, NEW seq \in [1 .. n -> rows],
         NEW k, k = Reports!Min({Limit, Len(seq)}),
         NEW top, top = First(seq, k)
  PROVE  top \in [1 .. k -> rows] /\ FirstOf(top, k, seq, n)
  <1>1. Len(seq) = n
    BY LengthIs
  <1>2. PICK l \in Nat : l = Limit
    BY ReportAssumption
  <1>3. k = Reports!Min({l, n})
    BY <1>1, <1>2
  <1>4. k \in {l, n} /\ k <= l /\ k <= n
    <2>1. \E x \in {l, n} : \A y \in {l, n} : x <= y
      OBVIOUS
    <2> QED
      BY <1>3, <2>1 DEF Reports!Min
  <1>5. k \in 0 .. n /\ k \in Nat
    BY <1>4
  <1>6. top \in [1 .. k -> rows] /\ DOMAIN top = 1 .. k /\ \A i \in 1 .. k : top[i] = seq[i]
    <2>1. \A i \in 1 .. k : i \in 1 .. n
      BY <1>5
    <2> QED
      BY <2>1 DEF First
  <1>7. Len(top) = k
    BY <1>5, <1>6, LengthIs
  <1>8. k < Limit => k = n
    BY <1>2, <1>4
  <1> QED
    BY <1>5, <1>6, <1>7, <1>8 DEF FirstOf

LEMMA TopTotals ==
  ASSUME NEW w, NEW s
  PROVE  Reports!TopIsOfTheSold(w, s)
  <1>1. PICK sold : sold = Reports!Sold(held, Reports!ResolveWindow(held, w), s)
    OBVIOUS
  <1>2. PICK L : L = Reports!LinesIn(sold, s)
    OBVIOUS
  <1>3. L \in SUBSET OrderedLines /\ Reports!SoldLines(held, w, s) = L
    BY <1>1, <1>2, OverviewIs, LinesListed
  <1>4. PICK key : key = [x \in L |-> x.line.product]
    OBVIOUS
  <1>5. PICK rows : rows = Reports!RollUp(L, key)
    OBVIOUS
  <1>p. PICK pile : pile = RowParts(L, key, rows)
    OBVIOUS
  <1>6. IsFiniteSet(rows) /\ \A c \in rows : c.gmv \in Nat /\ c.units \in Nat /\ c.gmv <= Reports!TotalOf(L)
    BY <1>3, <1>5, <1>p, RowsAddUp
  <1>7. /\ FallsInto(pile, rows, L) /\ AllOf(pile, rows) = L
        /\ \A c \in rows : c.gmv = Reports!TotalOf(pile[c]) /\ c.units = Reports!UnitsOf(pile[c])
    <2>1. Holds(rows, pile, L)
      BY <1>3, <1>5, <1>p, RowsAddUp
    <2> QED
      BY <2>1 DEF Holds
  <1>n. PICK n \in Nat : n = Cardinality(rows)
    BY <1>6, FS_CardinalityType
  <1>8. PICK seq : seq = Reports!Ranking(rows)
    OBVIOUS
  <1>9. /\ seq \in [1 .. n -> rows]
        /\ \A row \in rows : \E i \in 1 .. n : seq[i] = row
        /\ \A i, j \in 1 .. n : seq[i] = seq[j] => i = j
    BY <1>6, <1>n, <1>8, RankingIs
  <1>10. PICK top : top = Reports!Products(held, w, s)
    OBVIOUS
  <1>11. PICK k : k = Reports!Min({Limit, Len(seq)})
    OBVIOUS
  <1>t. top = [i \in 1 .. k |-> seq[i]]
    BY <1>3, <1>4, <1>5, <1>8, <1>10, <1>11 DEF Reports!Products
  <1>12. /\ k \in 0 .. n /\ top \in [1 .. k -> rows] /\ DOMAIN top = 1 .. k /\ Len(top) = k
         /\ \A i \in 1 .. k : top[i] = seq[i]
         /\ k < Limit => k = n
    <2>1. seq \in [1 .. n -> rows]
      BY <1>9
    <2>2. top = First(seq, k)
      BY <1>t DEF First
    <2>3. top \in [1 .. k -> rows] /\ FirstOf(top, k, seq, n)
      BY <1>n, <1>11, <2>1, <2>2, TopIs
    <2> QED
      BY <2>3 DEF FirstOf
  <1>13. Reports!GoodsSold(w, s) = Reports!TotalOf(L)
    BY <1>3, CategoriesHold
  <1>14. ASSUME NEW i \in DOMAIN top PROVE top[i].gmv <= Reports!GoodsSold(w, s)
    BY <1>6, <1>12, <1>13
  <1>15. ASSUME Len(top) < Limit
         PROVE  Reports!SumFunction([i \in DOMAIN top |-> top[i].gmv]) = Reports!GoodsSold(w, s)
    <2>1. k = n /\ DOMAIN top = 1 .. n
      BY <1>12, <1>15
    <2>2. PICK D : D = 1 .. n
      OBVIOUS
    <2>3. PICK g, h, share : /\ g = [i \in D |-> top[i].gmv] /\ h = [i \in D |-> top[i].units]
                             /\ share = [i \in D |-> pile[seq[i]]]
      OBVIOUS
    <2>4. ASSUME NEW i \in D PROVE /\ seq[i] \in rows /\ top[i] = seq[i] /\ share[i] = pile[seq[i]]
                                   /\ g[i] = Reports!TotalOf(share[i]) /\ h[i] = Reports!UnitsOf(share[i])
      BY <1>7, <1>9, <1>12, <2>1, <2>2, <2>3
    <2>5. FallsInto(share, D, L)
      <3>1. share \in [D -> SUBSET L]
        BY <1>7, <2>3, <2>4 DEF FallsInto
      <3>2. ASSUME NEW c \in D, NEW d \in D, c # d PROVE share[c] \cap share[d] = {}
        <4>1. seq[c] # seq[d]
          BY <1>9, <2>2, <3>2
        <4> QED
          BY <1>7, <2>4, <4>1 DEF FallsInto
      <3> QED
        BY <3>1, <3>2 DEF FallsInto
    <2>6. AllOf(share, D) = L
      <3>1. \A c \in rows : \E i \in D : share[i] = pile[c]
        BY <1>9, <2>2, <2>4
      <3>2. \A i \in D : \E c \in rows : share[i] = pile[c]
        BY <2>4
      <3> QED
        BY <1>7, <3>1, <3>2 DEF AllOf
    <2>7. IsFiniteSet(D)
      BY <2>2, FS_Interval
    <2>8. SumFunctionOnSet(g, D) = Reports!TotalOf(L)
      BY <1>3, <2>4, <2>5, <2>6, <2>7, LinesInParts
    <2>9. Reports!SumFunction(g) = SumFunctionOnSet(g, D)
      BY <2>3, ReportSum
    <2>10. g = [i \in DOMAIN top |-> top[i].gmv]
      BY <2>1, <2>2, <2>3
    <2> QED
      BY <1>13, <2>8, <2>9, <2>10
  <1> QED
    BY <1>10, <1>14, <1>15 DEF Reports!TopIsOfTheSold

-----------------------------------------------------------------------------
Instants == Nat \cup {None}

LEMMA WindowIs ==
  ASSUME NEW w \in Windows, held.now \in Nat
  PROVE  \E a, b \in Int : Reports!ResolveWindow(held, w) = [from |-> a, to |-> b]
  <1>1. PICK b \in Int : b = IF w.to = None THEN held.now ELSE 2 * w.to + 1
    BY ReportAssumption
  <1>2. PICK a \in Int : a = IF w.from = None THEN b - 2 * DefaultDays ELSE 2 * w.from
    BY ReportAssumption
  <1> QED
    BY <1>1, <1>2 DEF Reports!ResolveWindow

LEMMA DaysTotals ==
  ASSUME NEW w \in Windows, NEW s, held.now \in Nat, held.placed \in [Orders -> Instants]
  PROVE  Reports!DaysAddUp(w, s, Reports!Overview(held, w, s))
  <1>1. PICK a, b \in Int : Reports!ResolveWindow(held, w) = [from |-> a, to |-> b]
    BY WindowIs
  <1>2. PICK win : win = Reports!ResolveWindow(held, w)
    OBVIOUS
  <1>3. PICK sold : sold = Reports!Sold(held, win, s)
    OBVIOUS
  <1>4. HaveSlice(sold, s) /\ sold \in SUBSET Orders
    BY <1>3 DEF HaveSlice, Reports!Sold, Reports!ScopedOrders
  <1>6. PICK D : D = (a \div 2) .. (b \div 2)
    OBVIOUS
  <1>7. IsFiniteSet(D) /\ IsFiniteSet(sold)
    BY <1>4, <1>6, FS_Interval, FS_Subset, ReportAssumption
  <1> DEFINE On(d) == {o \in sold : held.placed[o] \div 2 = d}
  <1>8. ASSUME NEW o \in sold PROVE held.placed[o] \div 2 \in D
    <2>1. held.placed[o] # None /\ (a = None \/ a <= held.placed[o]) /\ (b = None \/ held.placed[o] <= b)
      BY <1>1, <1>2, <1>3 DEF Reports!Sold, Reports!ScopedOrders, Reports!During
    <2>2. PICK t \in Int : t = held.placed[o]
      BY <1>4, <2>1 DEF Instants
    <2>3. a <= t /\ t <= b
      BY <2>1, <2>2, ReportAssumption
    <2>4. a \div 2 <= t \div 2 /\ t \div 2 <= b \div 2
      BY <2>3
    <2> QED
      BY <1>6, <2>2, <2>4
  <1>9. PICK t : t = Reports!Trend(held, w, s)
    OBVIOUS
  <1>10. t = [d \in D |-> [orders |-> Reports!Cardinality(On(d)), gmv |-> Reports!Gmv(On(d), s)]]
    BY <1>1, <1>2, <1>3, <1>6, <1>9 DEF Reports!Trend
  <1>11. ASSUME NEW d \in D
         PROVE  t[d].orders = Cardinality(On(d)) /\ t[d].gmv = Reports!Gmv(On(d), s)
    BY <1>10, ReportCount
  <1>12. PICK bucket : bucket = [d \in D |-> On(d)]
    OBVIOUS
  <1>13. FallsInto(bucket, D, sold) /\ AllOf(bucket, D) = sold
    BY <1>8, <1>12 DEF FallsInto, AllOf
  <1>14. PICK f : f = [o \in sold |-> Reports!SliceGmv(o, s)]
    OBVIOUS
  <1>f. Numbers(f, sold) /\ Reports!Gmv(sold, s) = SumFunctionOnSet(f, sold)
    BY <1>4, <1>14, GmvIs
  <1>15. PICK g, n : g = [d \in D |-> t[d].gmv] /\ n = [d \in D |-> t[d].orders]
    OBVIOUS
  <1>16. SumFunctionOnSet(n, D) = Cardinality(sold)
    <2>1. \A d \in D : n[d] = Cardinality(bucket[d])
      BY <1>11, <1>12, <1>15
    <2> QED
      BY <1>7, <1>13, <2>1, CountInParts
  <1>17. SumFunctionOnSet(g, D) = Reports!Gmv(sold, s)
    <2>1. ASSUME NEW d \in D PROVE g[d] = SumFunctionOnSet(f, bucket[d])
      <3>1. PICK O : O = bucket[d]
        OBVIOUS
      <3>2. PICK e : e = [o \in O |-> Reports!SliceGmv(o, s)]
        OBVIOUS
      <3>3. HaveSlice(O, s) /\ \A o \in O : o \in sold
        BY <1>4, <1>12, <3>1 DEF HaveSlice
      <3>4. IsFiniteSet(O) /\ Numbers(e, O) /\ Reports!Gmv(O, s) = SumFunctionOnSet(e, O)
        BY <3>2, <3>3, GmvIs
      <3>5. \A o \in O : e[o] = f[o]
        BY <1>14, <3>2, <3>3
      <3>6. Numbers(f, O)
        BY <1>f, <3>3 DEF Numbers
      <3>7. SumFunctionOnSet(e, O) = SumFunctionOnSet(f, O)
        BY <3>4, <3>5, <3>6, SumSame
      <3>8. g[d] = Reports!Gmv(O, s)
        BY <1>11, <1>12, <1>15, <3>1
      <3> QED
        BY <3>1, <3>4, <3>7, <3>8
    <2>2. SumsOf(g, f, bucket, D)
      BY <2>1 DEF SumsOf
    <2>3. SumFunctionOnSet(f, AllOf(bucket, D)) = SumFunctionOnSet(g, D)
      BY <1>7, <1>f, <1>13, <2>2, SumParts
    <2> QED
      BY <1>f, <1>13, <2>3
  <1>18. DOMAIN t = D
    BY <1>10
  <1>19. Reports!SumFunction(g) = SumFunctionOnSet(g, D) /\ Reports!SumFunction(n) = SumFunctionOnSet(n, D)
    BY <1>15, ReportSum
  <1>20. Reports!Overview(held, w, s).gmv = Reports!Gmv(sold, s) /\ Reports!Overview(held, w, s).orders = Cardinality(sold)
    BY <1>2, <1>3, OverviewIs
  <1> QED
    BY <1>9, <1>15, <1>16, <1>17, <1>18, <1>19, <1>20 DEF Reports!DaysAddUp

-----------------------------------------------------------------------------
CaseRows == [kind : {"none", "slice", "return"}, asked : Instants, done : Instants]
PayableRows == [at : Instants, net : Nat, adjusted : Int, status : {"NONE", "EARNED", "IN_SETTLEMENT", "SETTLED"}]
FeeRows == [at : Instants, status : {"NONE", "EARNED", "SETTLED"}]

Tables ==
  [now : 0 .. LastInstant, events : Nat,
   placed : [Orders -> Instants],
   status : [Orders -> {"NONE", "PLACED", "CANCELLED", "DELIVERED", "REFUNDED"}],
   case : [Reports!Slices -> CaseRows],
   payable : [Reports!Slices -> PayableRows],
   batched : [Reports!Slices -> Instants],
   fee : [Orders -> FeeRows]]

WasDelivered(db, o) == db.status[o] \in {"DELIVERED", "REFUNDED"}

OrderFits(db, o) ==
  /\ db.placed[o] = None <=> db.status[o] = "NONE"
  /\ db.fee[o].at = None <=> ~WasDelivered(db, o)
  /\ db.fee[o].status = "NONE" <=> db.fee[o].at = None

SliceFits(db, x) ==
  /\ db.payable[x].at # None <=> WasDelivered(db, x[1]) /\ db.case[x].kind # "slice"
  /\ db.payable[x].at # None => db.payable[x].net = Reports!Earning(x) + db.payable[x].adjusted
  /\ db.payable[x].status # "NONE" => db.payable[x].at # None
  /\ db.payable[x].status = "IN_SETTLEMENT" => db.batched[x] # None
  /\ db.case[x].kind = "return" => WasDelivered(db, x[1])
  /\ db.case[x].kind = "none" => db.case[x] = Reports!NoCase

ReportFits(db) ==
  /\ db \in Tables
  /\ \A o \in Orders : OrderFits(db, o)
  /\ \A x \in Reports!Slices : SliceFits(db, x)

LEMMA RejectedIs ==
  ASSUME NEW db, NEW x \in Reports!Slices
  PROVE  x[2] \in Reports!Rejected(db, x[1]) <=> db.case[x].kind = "slice"
  BY SliceIs DEF Reports!Rejected

(* A seller keeps what the platform does not.                                *)
LEMMA EarningIsNat ==
  ASSUME NEW x \in Reports!Slices
  PROVE  Reports!Earning(x) \in Nat
  <1>1. Reports!GrossOf(x) \in Nat
    <2>1. {x[1]} \in SUBSET Orders
      BY SliceIs
    <2>2. PICK L : L = Reports!LinesIn({x[1]}, x[2])
      OBVIOUS
    <2>3. L \in SUBSET OrderedLines
      BY <2>1, <2>2, LinesListed
    <2> QED
      BY <2>2, <2>3, LinesTotal DEF Reports!GrossOf
  <1>2. PICK m \in Nat, d \in Int : m = Reports!GrossOf(x) /\ d = ShareOf[x].discount /\ 0 <= d /\ d <= m
    BY <1>1, BillAssumption
  <1>3. PICK g \in Nat : g = Reports!GoodsOf(x)
    BY <1>2 DEF Reports!GoodsOf
  <1>4. PICK c \in 0 .. 100, p \in Int : c = Commission /\ p = g * c
    BY ReportAssumption
  <1>5. p <= g * 100
    BY <1>4
  <1>6. PICK k \in Int : k = (p + 50) \div 100
    OBVIOUS
  <1>7. k <= g
    BY <1>5, <1>6
  <1>8. Reports!Earning(x) = g - k
    BY <1>3, <1>4, <1>6 DEF Reports!Earning
  <1> QED
    BY <1>7, <1>8

LEMMA ReportsStart == ReportFits(Reports!Empty)
  <1>1. PICK db : db = Reports!Empty
    OBVIOUS
  <1>2. db \in Tables
    BY <1>1, ReportAssumption DEF Reports!Empty, Tables, CaseRows, PayableRows, FeeRows, Instants,
       Reports!NoCase, Reports!NoPayable, Reports!NoFee
  <1>3. ASSUME NEW o \in Orders PROVE OrderFits(db, o)
    BY <1>1, <1>3 DEF Reports!Empty, OrderFits, WasDelivered, Reports!NoFee
  <1>4. ASSUME NEW x \in Reports!Slices PROVE SliceFits(db, x)
    BY <1>1, SliceIs DEF Reports!Empty, SliceFits, WasDelivered, Reports!NoCase, Reports!NoPayable
  <1> QED
    BY <1>1, <1>2, <1>3, <1>4 DEF ReportFits

(* What is said of the tables is not of how many events there were, nor of   *)
(* the time.                                                                 *)
LEMMA FitsElsewhere ==
  ASSUME NEW db, ReportFits(db), NEW new \in Tables,
         new.placed = db.placed, new.status = db.status, new.case = db.case,
         new.payable = db.payable, new.batched = db.batched, new.fee = db.fee
  PROVE  ReportFits(new)
  <1>1. ASSUME NEW o \in Orders PROVE OrderFits(new, o)
    BY DEF ReportFits, OrderFits, WasDelivered
  <1>2. ASSUME NEW x \in Reports!Slices PROVE SliceFits(new, x)
    BY DEF ReportFits, SliceFits, WasDelivered
  <1> QED
    BY <1>1, <1>2 DEF ReportFits

LEMMA FitsPassed ==
  ASSUME NEW db, ReportFits(db), NEW new \in Reports!Passed(db)
  PROVE  ReportFits(new)
  <1>1. PICK t \in 0 .. LastInstant : new = [db EXCEPT !.now = t]
    BY DEF Reports!Passed
  <1> QED
    BY <1>1, FitsElsewhere DEF ReportFits, Tables

LEMMA FitsCounted ==
  ASSUME NEW db, ReportFits(db)
  PROVE  ReportFits([db EXCEPT !.events = @ + 1])
  <1>1. PICK new : new = [db EXCEPT !.events = @ + 1]
    OBVIOUS
  <1>2. db.events + 1 \in Nat
    BY DEF ReportFits, Tables
  <1> QED
    BY <1>1, <1>2, FitsElsewhere DEF ReportFits, Tables

LEMMA FitsPlaced ==
  ASSUME NEW db, ReportFits(db), NEW new \in Reports!Placed(db)
  PROVE  ReportFits(new)
  <1>1. PICK o \in Orders : /\ db.placed[o] = None
                            /\ new = [db EXCEPT !.placed[o] = db.now, !.status[o] = "PLACED"]
    BY DEF Reports!Placed
  <1>2. db \in Tables /\ db.now \in Nat /\ db.now # None
    BY ReportAssumption DEF ReportFits, Tables
  <1>3. /\ new.placed = [db.placed EXCEPT ![o] = db.now] /\ new.status = [db.status EXCEPT ![o] = "PLACED"]
        /\ new.case = db.case /\ new.payable = db.payable /\ new.batched = db.batched /\ new.fee = db.fee
        /\ new \in Tables
    BY <1>1, <1>2 DEF Tables, Instants
  <1>4. \A p \in Orders : WasDelivered(new, p) <=> WasDelivered(db, p)
    BY <1>1, <1>2, <1>3 DEF WasDelivered, ReportFits, OrderFits, Tables
  <1>5. ASSUME NEW p \in Orders PROVE OrderFits(new, p)
    BY <1>2, <1>3, <1>4 DEF ReportFits, OrderFits, Tables
  <1>6. ASSUME NEW x \in Reports!Slices PROVE SliceFits(new, x)
    BY <1>3, <1>4, SliceIs DEF ReportFits, SliceFits
  <1> QED
    BY <1>3, <1>5, <1>6 DEF ReportFits

LEMMA FitsCancelled ==
  ASSUME NEW db, ReportFits(db), NEW new \in Reports!Cancelled(db)
  PROVE  ReportFits(new)
  <1>1. PICK o \in Orders : db.status[o] = "PLACED" /\ new = [db EXCEPT !.status[o] = "CANCELLED"]
    BY DEF Reports!Cancelled
  <1>2. db \in Tables
    BY DEF ReportFits
  <1>3. /\ new.placed = db.placed /\ new.status = [db.status EXCEPT ![o] = "CANCELLED"]
        /\ new.case = db.case /\ new.payable = db.payable /\ new.batched = db.batched /\ new.fee = db.fee
        /\ new \in Tables
    BY <1>1, <1>2 DEF Tables
  <1>4. \A p \in Orders : WasDelivered(new, p) <=> WasDelivered(db, p)
    BY <1>1, <1>2, <1>3 DEF WasDelivered, Tables
  <1>5. ASSUME NEW p \in Orders PROVE OrderFits(new, p)
    <2>1. OrderFits(db, p) /\ (new.status[p] = "NONE" <=> db.status[p] = "NONE")
      BY <1>1, <1>2, <1>3 DEF ReportFits, Tables
    <2> QED
      BY <1>3, <1>4, <2>1 DEF OrderFits
  <1>6. ASSUME NEW x \in Reports!Slices PROVE SliceFits(new, x)
    BY <1>3, <1>4, SliceIs DEF ReportFits, SliceFits
  <1> QED
    BY <1>3, <1>5, <1>6 DEF ReportFits

LEMMA FitsSliceRejected ==
  ASSUME NEW db, ReportFits(db), NEW new \in Reports!SliceRejected(db)
  PROVE  ReportFits(new)
  <1>1. PICK x \in Reports!Slices :
          /\ db.status[x[1]] = "PLACED"
          /\ new = [db EXCEPT !.case[x] = [kind |-> "slice", asked |-> db.now, done |-> None]]
    BY DEF Reports!SliceRejected
  <1>2. db \in Tables /\ db.now \in Nat
    BY DEF ReportFits, Tables
  <1>3. /\ new.placed = db.placed /\ new.status = db.status
        /\ new.case = [db.case EXCEPT ![x] = [kind |-> "slice", asked |-> db.now, done |-> None]]
        /\ new.payable = db.payable /\ new.batched = db.batched /\ new.fee = db.fee
        /\ new \in Tables
    BY <1>1, <1>2 DEF Tables, CaseRows, Instants
  <1>4. ASSUME NEW p \in Orders PROVE OrderFits(new, p)
    BY <1>3 DEF ReportFits, OrderFits, WasDelivered
  <1>5. ASSUME NEW y \in Reports!Slices PROVE SliceFits(new, y)
    <2>1. SliceFits(db, y) /\ db.case \in [Reports!Slices -> CaseRows]
      BY DEF ReportFits, Tables
    <2>2. CASE y = x
      <3>1. new.case[y].kind = "slice" /\ ~WasDelivered(db, y[1]) /\ ~WasDelivered(new, y[1])
        BY <1>1, <1>3, <2>1, <2>2 DEF WasDelivered
      <3> QED
        BY <1>3, <2>1, <3>1 DEF SliceFits
    <2>3. CASE y # x
      BY <1>3, <2>1, <2>3 DEF SliceFits, WasDelivered
    <2> QED
      BY <2>2, <2>3
  <1> QED
    BY <1>3, <1>4, <1>5 DEF ReportFits

LEMMA FitsDelivered ==
  ASSUME NEW db, ReportFits(db), NEW new \in Reports!Delivered(db)
  PROVE  ReportFits(new)
  <1>1. PICK o \in Orders :
          /\ db.status[o] = "PLACED"
          /\ new = [db EXCEPT !.status[o] = "DELIVERED", !.payable = Reports!Earn(db, o),
                              !.fee[o] = [at |-> db.now, status |-> "EARNED"]]
    BY DEF Reports!Delivered
  <1>2. PICK t \in Nat : t = db.now /\ t # None
    BY ReportAssumption DEF ReportFits, Tables
  <1>3. db \in Tables
    BY DEF ReportFits
  <1>4. PICK earn : earn = Reports!Earn(db, o)
    OBVIOUS
  <1>5. ASSUME NEW x \in Reports!Slices
        PROVE  earn[x] = IF x[1] = o /\ db.case[x].kind # "slice"
                         THEN [at |-> t, net |-> Reports!Earning(x), adjusted |-> 0, status |-> "EARNED"]
                         ELSE db.payable[x]
    BY <1>2, <1>4, RejectedIs DEF Reports!Earn
  <1>6. earn \in [Reports!Slices -> PayableRows]
    <2>1. earn = [x \in Reports!Slices |-> earn[x]]
      BY <1>4 DEF Reports!Earn
    <2>2. ASSUME NEW x \in Reports!Slices
          PROVE  earn[x] \in PayableRows
      <3>1. Reports!Earning(x) \in Nat
        BY EarningIsNat
      <3>2. db.payable[x] \in PayableRows
        BY <1>3 DEF Tables
      <3>3. [at |-> t, net |-> Reports!Earning(x), adjusted |-> 0, status |-> "EARNED"] \in PayableRows
        BY <3>1 DEF Instants, PayableRows
      <3> QED
        BY <1>5, <3>2, <3>3
    <2> QED
      BY <2>1, <2>2
  <1>7. /\ new.placed = db.placed /\ new.status = [db.status EXCEPT ![o] = "DELIVERED"]
        /\ new.case = db.case /\ new.payable = earn /\ new.batched = db.batched
        /\ new.fee = [db.fee EXCEPT ![o] = [at |-> t, status |-> "EARNED"]]
        /\ new \in Tables
    BY <1>1, <1>2, <1>3, <1>4, <1>6 DEF Tables, FeeRows, Instants
  <1>8. /\ WasDelivered(new, o) /\ ~WasDelivered(db, o)
        /\ \A p \in Orders : p # o => (WasDelivered(new, p) <=> WasDelivered(db, p))
    BY <1>1, <1>3, <1>7 DEF WasDelivered, Tables
  <1>9. ASSUME NEW p \in Orders PROVE OrderFits(new, p)
    <2>1. OrderFits(db, p) /\ db.fee \in [Orders -> FeeRows]
      BY DEF ReportFits, Tables
    <2>2. new.status[p] = "NONE" <=> db.status[p] = "NONE"
      BY <1>1, <1>3, <1>7 DEF Tables
    <2>3. CASE p = o
      BY <1>2, <1>7, <1>8, <2>1, <2>2, <2>3 DEF OrderFits
    <2>4. CASE p # o
      BY <1>7, <1>8, <2>1, <2>2, <2>4 DEF OrderFits
    <2> QED
      BY <2>3, <2>4
  <1>10. ASSUME NEW x \in Reports!Slices PROVE SliceFits(new, x)
    <2>1. SliceFits(db, x) /\ x[1] \in Orders
      BY SliceIs DEF ReportFits
    <2>2. CASE x[1] = o /\ db.case[x].kind # "slice"
      <3>1. earn[x] = [at |-> t, net |-> Reports!Earning(x), adjusted |-> 0, status |-> "EARNED"]
        BY <1>5, <2>2
      <3> QED
        BY <1>2, <1>7, <1>8, <2>1, <2>2, <3>1, EarningIsNat DEF SliceFits
    <2>3. CASE ~(x[1] = o /\ db.case[x].kind # "slice")
      <3>1. earn[x] = db.payable[x]
        BY <1>5, <2>3
      <3> QED
        BY <1>7, <1>8, <2>1, <2>3, <3>1 DEF SliceFits
    <2> QED
      BY <2>2, <2>3
  <1> QED
    BY <1>7, <1>9, <1>10 DEF ReportFits

LEMMA FitsPaidOut ==
  ASSUME NEW db, ReportFits(db), NEW new \in Reports!PaidOut(db)
  PROVE  ReportFits(new)
  <1>1. PICK fees : fees = [o \in Orders |-> IF db.fee[o].status = "EARNED"
                                           THEN [db.fee[o] EXCEPT !.status = "SETTLED"] ELSE db.fee[o]]
    OBVIOUS
  <1>2. new = [db EXCEPT !.fee = fees]
    BY <1>1 DEF Reports!PaidOut
  <1>3. db \in Tables
    BY DEF ReportFits
  <1>4. ASSUME NEW o \in Orders
        PROVE  /\ fees[o] \in FeeRows
               /\ fees[o].at = db.fee[o].at /\ (fees[o].status = "NONE" <=> db.fee[o].status = "NONE")
    <2>1. db.fee[o] \in FeeRows
      BY <1>3 DEF Tables
    <2> QED
      BY <1>1, <2>1 DEF FeeRows
  <1>5. fees \in [Orders -> FeeRows]
    BY <1>1, <1>4
  <1>6. /\ new.placed = db.placed /\ new.status = db.status
        /\ new.case = db.case /\ new.payable = db.payable /\ new.batched = db.batched /\ new.fee = fees
        /\ new \in Tables
    BY <1>2, <1>3, <1>5 DEF Tables
  <1>7. ASSUME NEW p \in Orders PROVE OrderFits(new, p)
    BY <1>4, <1>6 DEF ReportFits, OrderFits, WasDelivered
  <1>8. ASSUME NEW x \in Reports!Slices PROVE SliceFits(new, x)
    BY <1>6 DEF ReportFits, SliceFits, WasDelivered
  <1> QED
    BY <1>6, <1>7, <1>8 DEF ReportFits

LEMMA FitsAsked ==
  ASSUME NEW db, ReportFits(db), NEW new \in Reports!Asked(db)
  PROVE  ReportFits(new)
  <1>1. PICK x \in Reports!Slices :
          /\ db.status[x[1]] = "DELIVERED" /\ db.case[x] = Reports!NoCase
          /\ new = [db EXCEPT !.case[x] = [kind |-> "return", asked |-> db.now, done |-> None]]
    BY DEF Reports!Asked
  <1>2. db \in Tables /\ db.now \in Nat
    BY DEF ReportFits, Tables
  <1>3. /\ new.placed = db.placed /\ new.status = db.status
        /\ new.case = [db.case EXCEPT ![x] = [kind |-> "return", asked |-> db.now, done |-> None]]
        /\ new.payable = db.payable /\ new.batched = db.batched /\ new.fee = db.fee
        /\ new \in Tables
    BY <1>1, <1>2 DEF Tables, CaseRows, Instants
  <1>4. ASSUME NEW p \in Orders PROVE OrderFits(new, p)
    BY <1>3 DEF ReportFits, OrderFits, WasDelivered
  <1>5. ASSUME NEW y \in Reports!Slices PROVE SliceFits(new, y)
    <2>1. SliceFits(db, y) /\ db.case \in [Reports!Slices -> CaseRows]
      BY DEF ReportFits, Tables
    <2>2. CASE y = x
      <3>1. /\ new.case[y].kind = "return" /\ db.case[y].kind = "none"
            /\ WasDelivered(db, y[1]) /\ WasDelivered(new, y[1])
        BY <1>1, <1>3, <2>1, <2>2 DEF WasDelivered, Reports!NoCase
      <3> QED
        BY <1>3, <2>1, <3>1 DEF SliceFits
    <2>3. CASE y # x
      BY <1>3, <2>1, <2>3 DEF SliceFits, WasDelivered
    <2> QED
      BY <2>2, <2>3
  <1> QED
    BY <1>3, <1>4, <1>5 DEF ReportFits

LEMMA StatusWritten ==
  ASSUME NEW rows \in [Reports!Slices -> PayableRows], NEW x \in Reports!Slices,
         NEW s \in {"NONE", "EARNED", "IN_SETTLEMENT", "SETTLED"}
  PROVE  [rows EXCEPT ![x].status = s] \in [Reports!Slices -> PayableRows]
  <1>1. PICK row : row = [rows[x] EXCEPT !.status = s]
    OBVIOUS
  <1>2. row \in PayableRows
    BY <1>1 DEF PayableRows
  <1> QED
    BY <1>1, <1>2

LEMMA FitsBatched ==
  ASSUME NEW db, ReportFits(db), NEW new \in Reports!Batched(db)
  PROVE  ReportFits(new)
  <1>1. PICK x \in Reports!Slices :
          /\ db.payable[x].status = "EARNED"
          /\ new = [db EXCEPT !.payable[x].status = "IN_SETTLEMENT", !.batched[x] = db.now]
    BY DEF Reports!Batched
  <1>2. db \in Tables /\ db.now \in Nat /\ db.now # None
    BY ReportAssumption DEF ReportFits, Tables
  <1>3. /\ new.placed = db.placed /\ new.status = db.status /\ new.case = db.case /\ new.fee = db.fee
        /\ new.payable = [db.payable EXCEPT ![x].status = "IN_SETTLEMENT"]
        /\ new.batched = [db.batched EXCEPT ![x] = db.now]
        /\ new \in Tables
    <2>1. PICK rows : rows = [db.payable EXCEPT ![x].status = "IN_SETTLEMENT"]
      OBVIOUS
    <2>2. rows \in [Reports!Slices -> PayableRows]
      BY <1>2, <2>1, StatusWritten DEF Tables
    <2>3. new = [db EXCEPT !.payable = rows, !.batched = [db.batched EXCEPT ![x] = db.now]]
      BY <1>1, <1>2, <2>1 DEF Tables
    <2> QED
      BY <1>2, <2>1, <2>2, <2>3 DEF Tables, Instants
  <1>4. ASSUME NEW p \in Orders PROVE OrderFits(new, p)
    BY <1>3 DEF ReportFits, OrderFits, WasDelivered
  <1>5. ASSUME NEW y \in Reports!Slices PROVE SliceFits(new, y)
    <2>1. /\ SliceFits(db, y) /\ db.batched \in [Reports!Slices -> Instants]
          /\ db.payable \in [Reports!Slices -> PayableRows]
      BY <1>2 DEF ReportFits, Tables
    <2>2. CASE y = x
      <3>1. /\ new.payable[y].at = db.payable[y].at /\ new.payable[y].net = db.payable[y].net
            /\ new.payable[y].adjusted = db.payable[y].adjusted /\ new.batched[y] # None
            /\ db.payable[y].status # "NONE"
        BY <1>1, <1>2, <1>3, <2>1, <2>2 DEF PayableRows
      <3> QED
        BY <1>3, <2>1, <3>1 DEF SliceFits, WasDelivered
    <2>3. CASE y # x
      BY <1>3, <2>1, <2>3 DEF SliceFits, WasDelivered
    <2> QED
      BY <2>2, <2>3
  <1> QED
    BY <1>3, <1>4, <1>5 DEF ReportFits

LEMMA FitsSettled ==
  ASSUME NEW db, ReportFits(db), NEW new \in Reports!Settled(db)
  PROVE  ReportFits(new)
  <1>1. PICK x \in Reports!Slices :
          /\ db.payable[x].status = "IN_SETTLEMENT"
          /\ new = [db EXCEPT !.payable[x].status = "SETTLED"]
    BY DEF Reports!Settled
  <1>2. db \in Tables
    BY DEF ReportFits
  <1>3. /\ new.placed = db.placed /\ new.status = db.status /\ new.case = db.case /\ new.fee = db.fee
        /\ new.payable = [db.payable EXCEPT ![x].status = "SETTLED"] /\ new.batched = db.batched
        /\ new \in Tables
    <2>1. PICK rows : rows = [db.payable EXCEPT ![x].status = "SETTLED"]
      OBVIOUS
    <2>2. rows \in [Reports!Slices -> PayableRows]
      BY <1>2, <2>1, StatusWritten DEF Tables
    <2>3. new = [db EXCEPT !.payable = rows]
      BY <1>1, <1>2, <2>1 DEF Tables
    <2> QED
      BY <1>2, <2>1, <2>2, <2>3 DEF Tables
  <1>4. ASSUME NEW p \in Orders PROVE OrderFits(new, p)
    BY <1>3 DEF ReportFits, OrderFits, WasDelivered
  <1>5. ASSUME NEW y \in Reports!Slices PROVE SliceFits(new, y)
    <2>1. /\ SliceFits(db, y)
          /\ db.payable \in [Reports!Slices -> PayableRows]
      BY <1>2 DEF ReportFits, Tables
    <2>2. CASE y = x
      <3>1. /\ new.payable[y].at = db.payable[y].at /\ new.payable[y].net = db.payable[y].net
            /\ new.payable[y].adjusted = db.payable[y].adjusted /\ new.payable[y].status = "SETTLED"
            /\ db.payable[y].status # "NONE"
        BY <1>1, <1>2, <1>3, <2>1, <2>2 DEF PayableRows
      <3> QED
        BY <1>3, <2>1, <3>1 DEF SliceFits, WasDelivered
    <2>3. CASE y # x
      BY <1>3, <2>1, <2>3 DEF SliceFits, WasDelivered
    <2> QED
      BY <2>2, <2>3
  <1> QED
    BY <1>3, <1>4, <1>5 DEF ReportFits

LEMMA FitsRefunded ==
  ASSUME NEW db, ReportFits(db), NEW new \in Reports!Refunded(db)
  PROVE  ReportFits(new)
  <1>0. PICK x \in Reports!Slices :
          /\ db.case[x].asked # None
          /\ new = [db EXCEPT !.case[x].done = db.now, !.payable[x] = Reports!Debited(db, x),
                    !.status[x[1]] = IF db.case[x].kind = "return" /\ Reports!RefundedWith(db, x) THEN "REFUNDED" ELSE @]
    BY DEF Reports!Refunded
  <1>1. PICK s, cases : /\ s = IF db.case[x].kind = "return" /\ Reports!RefundedWith(db, x)
                               THEN "REFUNDED" ELSE db.status[x[1]]
                        /\ cases = [db.case EXCEPT ![x].done = db.now]
    OBVIOUS
  <1>2. db \in Tables /\ db.now \in Nat /\ x[1] \in Orders
    BY SliceIs DEF ReportFits, Tables
  <1>3. SliceFits(db, x) /\ \A y \in Reports!Slices : y = x \/ y # x
    BY DEF ReportFits
  <1>4. /\ s \in {"NONE", "PLACED", "CANCELLED", "DELIVERED", "REFUNDED"}
        /\ s \in {"DELIVERED", "REFUNDED"} <=> WasDelivered(db, x[1])
        /\ s = "NONE" <=> db.status[x[1]] = "NONE"
    BY <1>1, <1>2, <1>3 DEF Tables, WasDelivered, SliceFits
  <1>5. PICK row : row = Reports!Debited(db, x)
    OBVIOUS
  <1>c. /\ cases \in [Reports!Slices -> CaseRows] /\ cases[x].kind = db.case[x].kind
        /\ \A y \in Reports!Slices : y # x => cases[y] = db.case[y]
    <2>1. PICK c : c = [db.case[x] EXCEPT !.done = db.now]
      OBVIOUS
    <2>2. db.case \in [Reports!Slices -> CaseRows]
      BY <1>2 DEF Tables
    <2>3. c \in CaseRows /\ c.kind = db.case[x].kind
      BY <1>2, <2>1, <2>2 DEF CaseRows, Instants
    <2>4. cases = [db.case EXCEPT ![x] = c]
      BY <1>1, <2>1
    <2> QED
      BY <2>2, <2>3, <2>4
  <1>6. /\ row \in PayableRows
        /\ row.at = db.payable[x].at /\ row.status = db.payable[x].status
        /\ row.at # None => row.net = Reports!Earning(x) + row.adjusted
    <2>1. db.payable[x] \in PayableRows
      BY <1>2 DEF Tables
    <2>2. CASE db.case[x].kind = "return" /\ db.payable[x].status = "EARNED"
      <3>1. PICK n \in Nat, a \in Int, e \in Nat : n = db.payable[x].net /\ a = db.payable[x].adjusted /\ e = Reports!Earning(x)
        BY <2>1, EarningIsNat DEF PayableRows
      <3>2. row = [db.payable[x] EXCEPT !.net = 0, !.adjusted = a - n]
        BY <1>5, <2>1, <2>2, <3>1 DEF Reports!Debited
      <3>3. /\ row.at = db.payable[x].at /\ row.status = db.payable[x].status /\ row.net = 0 /\ row.adjusted = a - n
            /\ row \in PayableRows
        <4>1. PICK p \in PayableRows, m \in Int : p = db.payable[x] /\ m = a - n
          BY <2>1, <3>1
        <4>2. row = [p EXCEPT !.net = 0, !.adjusted = m]
          BY <3>2, <4>1
        <4> QED
          BY <4>1, <4>2 DEF PayableRows
      <3>4. row.at # None => n = e + a
        BY <1>3, <3>1, <3>3 DEF SliceFits
      <3> QED
        BY <3>1, <3>3, <3>4
    <2>3. CASE ~(db.case[x].kind = "return" /\ db.payable[x].status = "EARNED")
      BY <1>3, <1>5, <2>1, <2>3 DEF SliceFits, Reports!Debited
    <2> QED
      BY <2>2, <2>3
  <1>7. /\ new.placed = db.placed /\ new.status = [db.status EXCEPT ![x[1]] = s]
        /\ new.case = cases
        /\ new.payable = [db.payable EXCEPT ![x] = row] /\ new.batched = db.batched /\ new.fee = db.fee
        /\ new \in Tables
    <2>1. new = [db EXCEPT !.case = cases, !.payable = [db.payable EXCEPT ![x] = row],
                 !.status = [db.status EXCEPT ![x[1]] = s]]
      BY <1>0, <1>1, <1>2, <1>5 DEF Tables
    <2> QED
      BY <1>2, <1>4, <1>6, <1>c, <2>1 DEF Tables
  <1>8. \A p \in Orders : /\ WasDelivered(new, p) <=> WasDelivered(db, p)
                          /\ new.status[p] = "NONE" <=> db.status[p] = "NONE"
    BY <1>2, <1>4, <1>7 DEF WasDelivered, Tables
  <1>9. ASSUME NEW p \in Orders PROVE OrderFits(new, p)
    BY <1>7, <1>8 DEF ReportFits, OrderFits
  <1>10. ASSUME NEW y \in Reports!Slices PROVE SliceFits(new, y)
    <2>1. SliceFits(db, y) /\ (WasDelivered(new, y[1]) <=> WasDelivered(db, y[1]))
      BY <1>8, SliceIs DEF ReportFits
    <2>2. CASE y = x
      <3>1. new.case[y].kind = db.case[y].kind /\ db.case[y].kind # "none"
        <4>1. db.case[x] # Reports!NoCase
          BY <1>0 DEF Reports!NoCase
        <4> QED
          BY <1>3, <1>7, <1>c, <2>2, <4>1 DEF SliceFits
      <3>2. new.payable[y] = row
        BY <1>2, <1>7, <2>2 DEF Tables
      <3> QED
        BY <1>6, <1>7, <2>1, <2>2, <3>1, <3>2 DEF SliceFits
    <2>3. CASE y # x
      <3>1. new.case[y] = db.case[y] /\ new.payable[y] = db.payable[y]
        BY <1>2, <1>7, <1>c, <2>3 DEF Tables
      <3> QED
        BY <1>7, <2>1, <3>1 DEF SliceFits
    <2> QED
      BY <2>2, <2>3
  <1> QED
    BY <1>7, <1>9, <1>10 DEF ReportFits

-----------------------------------------------------------------------------
(* The inductive invariant of the reports is that their tables fit.          *)
ReportInv == ReportFits(held)

LEMMA ReportStarts == Reports!Init => ReportInv
  BY ReportsStart DEF Reports!Init, ReportInv

LEMMA EventCounted ==
  ASSUME ReportInv, NEW outcomes, Reports!Event(outcomes), \A db \in outcomes : ReportFits(db)
  PROVE  ReportInv'
  <1>1. PICK db \in outcomes : held' = [db EXCEPT !.events = @ + 1]
    BY DEF Reports!Event
  <1>2. ReportFits([db EXCEPT !.events = @ + 1])
    BY <1>1, FitsCounted
  <1> QED
    BY <1>1, <1>2 DEF ReportInv

LEMMA ReportStep ==
  ASSUME ReportInv, Reports!Next
  PROVE  ReportInv'
  <1>1. ASSUME Reports!Time PROVE ReportInv'
    <2>1. PICK new : new = held' /\ new \in Reports!Passed(held)
      BY <1>1 DEF Reports!Time
    <2>2. ReportFits(new)
      BY <2>1, FitsPassed DEF ReportInv
    <2> QED
      BY <2>1, <2>2 DEF ReportInv
  <1>2. ASSUME Reports!Event(Reports!Placed(held)) PROVE ReportInv'
    BY <1>2, FitsPlaced, EventCounted DEF ReportInv
  <1>3. ASSUME Reports!Event(Reports!Cancelled(held)) PROVE ReportInv'
    BY <1>3, FitsCancelled, EventCounted DEF ReportInv
  <1>4. ASSUME Reports!Event(Reports!SliceRejected(held)) PROVE ReportInv'
    BY <1>4, FitsSliceRejected, EventCounted DEF ReportInv
  <1>5. ASSUME Reports!Event(Reports!Delivered(held)) PROVE ReportInv'
    BY <1>5, FitsDelivered, EventCounted DEF ReportInv
  <1>6. ASSUME Reports!Event(Reports!PaidOut(held)) PROVE ReportInv'
    BY <1>6, FitsPaidOut, EventCounted DEF ReportInv
  <1>7. ASSUME Reports!Event(Reports!Asked(held)) PROVE ReportInv'
    BY <1>7, FitsAsked, EventCounted DEF ReportInv
  <1>8. ASSUME Reports!Event(Reports!Refunded(held)) PROVE ReportInv'
    BY <1>8, FitsRefunded, EventCounted DEF ReportInv
  <1>9. ASSUME Reports!Event(Reports!Batched(held)) PROVE ReportInv'
    BY <1>9, FitsBatched, EventCounted DEF ReportInv
  <1>10. ASSUME Reports!Event(Reports!Settled(held)) PROVE ReportInv'
    BY <1>10, FitsSettled, EventCounted DEF ReportInv
  <1> QED
    BY <1>1, <1>2, <1>3, <1>4, <1>5, <1>6, <1>7, <1>8, <1>9, <1>10 DEF Reports!Next

-----------------------------------------------------------------------------
(* The fees: what is pending and what was paid are all there is.             *)
LEMMA FeeTotals ==
  ASSUME NEW Q, Q \in SUBSET Orders, NEW st, \A o \in Q : st[o] \in {"EARNED", "SETTLED"},
         NEW early, NEW late, early = {o \in Q : st[o] = "EARNED"}, late = {o \in Q : st[o] = "SETTLED"}
  PROVE  Fee * Cardinality(early) + Fee * Cardinality(late) = Fee * Cardinality(Q)
  <1>1. IsFiniteSet(Q) /\ IsFiniteSet(early) /\ IsFiniteSet(late)
    BY ReportAssumption, FS_Subset
  <1>2. early \cup late = Q /\ early \cap late = {}
    OBVIOUS
  <1>3. Cardinality(Q) = Cardinality(early) + Cardinality(late) - Cardinality({})
    BY <1>1, <1>2, FS_Union
  <1>4. PICK f, a, b \in Nat : f = Fee /\ a = Cardinality(early) /\ b = Cardinality(late)
    BY <1>1, ReportAssumption, FS_CardinalityType
  <1>5. Cardinality(Q) = a + b
    BY <1>3, <1>4, FS_EmptySet
  <1>6. f * a + f * b = f * (a + b)
    BY <1>4
  <1> QED
    BY <1>4, <1>5, <1>6

LEMMA FeeSums ==
  ASSUME ReportInv, NEW win, NEW Q, Q = {o \in Orders : Reports!During(held.fee[o].at, win)}
  PROVE  /\ Reports!FeesOf(held, win, "EARNED") = Fee * Cardinality({o \in Q : held.fee[o].status = "EARNED"})
         /\ Reports!FeesOf(held, win, "SETTLED") = Fee * Cardinality({o \in Q : held.fee[o].status = "SETTLED"})
         /\ Reports!FeesOf(held, win, "EARNED") + Reports!FeesOf(held, win, "SETTLED") = Fee * Cardinality(Q)
         /\ Q \in SUBSET Orders
  <1>1. PICK early, late, st : /\ early = {o \in Q : held.fee[o].status = "EARNED"}
                               /\ late = {o \in Q : held.fee[o].status = "SETTLED"}
                               /\ st = [o \in Orders |-> held.fee[o].status]
    OBVIOUS
  <1>2. /\ {o \in Orders : Reports!During(held.fee[o].at, win) /\ held.fee[o].status = "EARNED"} = early
        /\ {o \in Orders : Reports!During(held.fee[o].at, win) /\ held.fee[o].status = "SETTLED"} = late
    BY <1>1
  <1>3. Reports!FeesOf(held, win, "EARNED") = Fee * Cardinality(early)
    BY <1>2, ReportCount DEF Reports!FeesOf
  <1>4. Reports!FeesOf(held, win, "SETTLED") = Fee * Cardinality(late)
    BY <1>2, ReportCount DEF Reports!FeesOf
  <1>5. ASSUME NEW o \in Q PROVE st[o] \in {"EARNED", "SETTLED"} /\ st[o] = held.fee[o].status
    <2>1. held.fee[o].at # None /\ OrderFits(held, o) /\ held.fee[o] \in FeeRows /\ o \in Orders
      BY DEF Reports!During, ReportInv, ReportFits, Tables
    <2> QED
      BY <1>1, <2>1 DEF OrderFits, FeeRows
  <1>6. early = {o \in Q : st[o] = "EARNED"} /\ late = {o \in Q : st[o] = "SETTLED"} /\ Q \in SUBSET Orders
    BY <1>1, <1>5
  <1>7. Fee * Cardinality(early) + Fee * Cardinality(late) = Fee * Cardinality(Q)
    BY <1>5, <1>6, FeeTotals
  <1> QED
    BY <1>1, <1>3, <1>4, <1>6, <1>7

LEMMA PayoutsTotal ==
  ASSUME ReportInv, NEW w
  PROVE  Reports!FeesAddUp(w)
  <1>1. PICK win, Q : win = Reports!DateFilter(w) /\ Q = {o \in Orders : Reports!During(held.fee[o].at, win)}
    OBVIOUS
  <1>2. Reports!FeesOf(held, win, "EARNED") + Reports!FeesOf(held, win, "SETTLED") = Fee * Cardinality(Q)
    BY <1>1, FeeSums
  <1>3. PICK P : P = Reports!PayoutsListed(held, w)
    OBVIOUS
  <1>4. PICK f : f = [o \in Q |-> [of |-> o, row |-> held.fee[o]]]
    OBVIOUS
  <1>5. P = {[of |-> o, row |-> held.fee[o]] : o \in Q}
    BY <1>1, <1>3 DEF Reports!PayoutsListed
  <1>6. f \in Bijection(Q, P)
    <2>1. f \in [Q -> P] /\ \A p \in P : \E o \in Q : f[o] = p
      BY <1>4, <1>5
    <2>2. \A o, p \in Q : f[o] = f[p] => o = p
      <3>1. \A o \in Q : f[o].of = o
        BY <1>4
      <3> QED
        BY <3>1
    <2> QED
      BY <2>1, <2>2 DEF Bijection, Injection, Surjection, IsInjective
  <1>7. IsFiniteSet(Q)
    BY <1>1, ReportAssumption, FS_Subset
  <1>8. Cardinality(P) = Cardinality(Q)
    BY <1>6, <1>7, FS_Bijection DEF ExistsBijection
  <1>9. Reports!PayoutSummary(held, w).pending = Reports!FeesOf(held, win, "EARNED")
        /\ Reports!PayoutSummary(held, w).paid = Reports!FeesOf(held, win, "SETTLED")
    BY <1>1 DEF Reports!PayoutSummary
  <1> QED
    BY <1>2, <1>3, <1>8, <1>9, ReportCount DEF Reports!FeesAddUp

-----------------------------------------------------------------------------
(* The lists: who is told of a row *)

LEMMA NothingUnreconciled ==
  ASSUME ReportInv
  PROVE  Reports!Unreconciled(held) = {}
  <1>1. ASSUME NEW x \in Reports!Slices, held.status[x[1]] \in {"DELIVERED", "REFUNDED"}
        PROVE  /\ ~((x[2] \in Reports!Rejected(held, x[1])) = (held.payable[x].at # None))
               /\ ~(held.payable[x].net < 0)
               /\ ~(held.payable[x].at # None /\ held.payable[x].net # Reports!Earning(x) + held.payable[x].adjusted)
    <2>1. SliceFits(held, x) /\ held.payable[x] \in PayableRows /\ WasDelivered(held, x[1])
      BY <1>1 DEF ReportInv, ReportFits, Tables, WasDelivered
    <2>2. x[2] \in Reports!Rejected(held, x[1]) <=> held.payable[x].at = None
      BY <2>1, RejectedIs DEF SliceFits
    <2>3. ~(held.payable[x].net < 0)
      BY <2>1 DEF PayableRows
    <2> QED
      BY <2>1, <2>2, <2>3 DEF SliceFits
  <1> QED
    BY <1>1 DEF Reports!Unreconciled

LEMMA DeliveredIs ==
  ASSUME ReportInv, NEW delivered,
         delivered = Reports!OrdersListed(held, None, "DELIVERED") \cup Reports!OrdersListed(held, None, "REFUNDED")
  PROVE  /\ delivered = {o \in Orders : WasDelivered(held, o)}
         /\ \A o \in Orders : WasDelivered(held, o) => held.placed[o] # None
  <1>1. ASSUME NEW o \in Orders, WasDelivered(held, o) PROVE held.placed[o] # None
    BY <1>1 DEF ReportInv, ReportFits, OrderFits, WasDelivered
  <1>2. None # "DELIVERED" /\ None # "REFUNDED"
    BY ReportAssumption
  <1> QED
    BY <1>1, <1>2 DEF Reports!OrdersListed, WasDelivered

LEMMA ListsAgreeAlways ==
  ASSUME ReportInv
  PROVE  Reports!ListsAgree
  <1>1. PICK delivered, mine :
          /\ delivered = Reports!OrdersListed(held, None, "DELIVERED") \cup Reports!OrdersListed(held, None, "REFUNDED")
          /\ mine = UNION {Reports!OrdersListed(held, b, None) : b \in {BuyerOf[o] : o \in Orders}}
    OBVIOUS
  <1>2. delivered = {o \in Orders : WasDelivered(held, o)} /\ \A o \in delivered : held.placed[o] # None
    BY <1>1, DeliveredIs
  <1>3. \A o \in Orders : held.placed[o] # None => o \in mine
    BY <1>1 DEF Reports!OrdersListed
  <1>4. \A x \in Reports!Slices : SliceFits(held, x) /\ x[1] \in Orders /\ x = <<x[1], x[2]>>
    BY SliceIs DEF ReportInv, ReportFits
  <1>5. Reports!ReturnsListed(held, Orders) = Reports!ReturnsListed(held, mine \cap delivered)
    BY <1>2, <1>3, <1>4 DEF Reports!ReturnsListed, SliceFits
  <1>6. ASSUME NEW s \in Sellers
        PROVE  /\ {p.of : p \in Reports!MyPayables(held, s, None)}
                    = {x \in Reports!SlicesListed(held, s) : x[1] \in delivered /\ s \notin Reports!Rejected(held, x[1])}
               /\ {p.of : p \in Reports!MyPayables(held, s, "IN_SETTLEMENT")} \subseteq Reports!MySettlements(held, s)
    <2>0. PICK always : always = Reports!DateFilter(Reports!Always)
      OBVIOUS
    <2>1. \A t : Reports!During(t, always) <=> t # None
      BY <2>0 DEF Reports!DateFilter, Reports!Always, Reports!Ends, Reports!During
    <2>2. ASSUME NEW status
          PROVE  {p.of : p \in Reports!MyPayables(held, s, status)}
                   = {x \in Reports!Slices :
                        x[2] = s /\ held.payable[x].at # None /\ status \in {None, held.payable[x].status}}
      <3>1. PICK X : X = {y \in Reports!EarnedIn(held, always) : status \in {None, held.payable[y].status}}
        OBVIOUS
      <3>2. Reports!MyPayables(held, s, status) = {p \in {[of |-> x, row |-> held.payable[x]] : x \in X} : p.of[2] = s}
        BY <2>0, <3>1 DEF Reports!MyPayables, Reports!PayablesListed
      <3>3. {p.of : p \in Reports!MyPayables(held, s, status)} = {x \in X : x[2] = s}
        <4>1. \A x : [of |-> x, row |-> held.payable[x]].of = x
          OBVIOUS
        <4>2. ASSUME NEW x \in X, x[2] = s PROVE x \in {p.of : p \in Reports!MyPayables(held, s, status)}
          <5>1. PICK p : p = [of |-> x, row |-> held.payable[x]]
            OBVIOUS
          <5>2. p \in Reports!MyPayables(held, s, status) /\ p.of = x
            BY <3>2, <4>2, <5>1
          <5> QED
            BY <5>2
        <4>3. ASSUME NEW p \in Reports!MyPayables(held, s, status) PROVE p.of \in X /\ p.of[2] = s
          BY <3>2
        <4> QED
          BY <4>2, <4>3
      <3> QED
        BY <2>1, <3>1, <3>3 DEF Reports!EarnedIn
    <2>3. ASSUME NEW x \in Reports!Slices, x[2] = s
          PROVE  held.payable[x].at # None
                   <=> held.placed[x[1]] # None /\ x[1] \in delivered /\ s \notin Reports!Rejected(held, x[1])
      BY <1>2, <1>4, <2>3, RejectedIs DEF SliceFits
    <2>4. {p.of : p \in Reports!MyPayables(held, s, None)}
            = {x \in Reports!SlicesListed(held, s) : x[1] \in delivered /\ s \notin Reports!Rejected(held, x[1])}
      BY <2>2, <2>3 DEF Reports!SlicesListed
    <2>5. ASSUME NEW x \in Reports!Slices, x[2] = s, "IN_SETTLEMENT" \in {None, held.payable[x].status}
          PROVE  x \in Reports!MySettlements(held, s)
      <3>1. held.payable[x].status = "IN_SETTLEMENT"
        BY <2>5, ReportAssumption
      <3>2. held.batched[x] # None
        BY <1>4, <3>1 DEF SliceFits
      <3> QED
        BY <2>0, <2>1, <2>5, <3>2 DEF Reports!MySettlements, Reports!SettlementsListed
    <2> QED
      BY <2>2, <2>4, <2>5
  <1>7. Reports!PartnerPayouts(held, None) = delivered
    <2>1. \A o \in Orders : held.fee[o].at # None <=> WasDelivered(held, o)
      BY DEF ReportInv, ReportFits, OrderFits
    <2> QED
      BY <1>2, <2>1 DEF Reports!PartnerPayouts
  <1>8. PICK own, sum, always, early, late :
          /\ own = Reports!PartnerSummary(held) /\ sum = Reports!PayoutSummary(held, Reports!Always)
          /\ always = Reports!DateFilter(Reports!Always)
          /\ early = {o \in delivered : held.fee[o].status = "EARNED"}
          /\ late = {o \in delivered : held.fee[o].status = "SETTLED"}
    OBVIOUS
  <1>9. delivered = {o \in Orders : Reports!During(held.fee[o].at, always)}
    <2>1. \A t : Reports!During(t, always) <=> t # None
      BY <1>8 DEF Reports!DateFilter, Reports!Always, Reports!Ends, Reports!During
    <2>2. \A o \in Orders : held.fee[o].at # None <=> WasDelivered(held, o)
      BY DEF ReportInv, ReportFits, OrderFits
    <2> QED
      BY <1>2, <2>1, <2>2
  <1>10. /\ sum.pending = Fee * Cardinality(early) /\ sum.paid = Fee * Cardinality(late)
         /\ sum.pending + sum.paid = Fee * Cardinality(delivered)
    <2>1. sum.pending = Reports!FeesOf(held, always, "EARNED") /\ sum.paid = Reports!FeesOf(held, always, "SETTLED")
      BY <1>8 DEF Reports!PayoutSummary
    <2> QED
      BY <1>8, <1>9, <2>1, FeeSums
  <1>11. Reports!PartnerPayouts(held, "EARNED") = early /\ Reports!PartnerPayouts(held, "SETTLED") = late
    <2>1. \A status : Reports!PartnerPayouts(held, status)
            = {o \in Orders : Reports!During(held.fee[o].at, always) /\ status \in {None, held.fee[o].status}}
      BY <1>8 DEF Reports!PartnerPayouts, Reports!DateFilter, Reports!Always, Reports!Ends, Reports!During
    <2>2. None # "EARNED" /\ None # "SETTLED"
      BY ReportAssumption
    <2> QED
      BY <1>8, <1>9, <2>1, <2>2
  <1>12. /\ own.pending = Fee * Cardinality(early) /\ own.paid = Fee * Cardinality(late)
         /\ own.total = own.pending + own.paid
    BY <1>8, <1>11, ReportCount DEF Reports!PartnerSummary
  <1>13. own.pending = sum.pending /\ own.paid = sum.paid /\ own.total = Fee * Reports!Cardinality(delivered)
    BY <1>10, <1>12, ReportCount
  <1> QED
    BY <1>1, <1>5, <1>6, <1>7, <1>8, <1>13 DEF Reports!ListsAgree

LEMMA ReportKeeps ==
  ASSUME ReportInv
  PROVE  Reports!TypeOK /\ Reports!ReportsAgree
  <1>1. Reports!TypeOK
    BY DEF Reports!TypeOK, ReportInv, ReportFits, Tables, PayableRows
  <1>2. ASSUME NEW w \in Windows, NEW told, told = [s \in Sellers \cup {None} |-> Reports!Overview(held, w, s)]
        PROVE  /\ Reports!SellersAddUp(w, told) /\ Reports!FeesAddUp(w)
               /\ \A s \in DOMAIN told :
                    Reports!DaysAddUp(w, s, told[s]) /\ Reports!CategoriesAddUp(w, s, told[s])
                    /\ Reports!TopIsOfTheSold(w, s)
    <2>1. Reports!SellersAddUp(w, told)
      BY <1>2, SellersTotals
    <2>2. held.now \in Nat /\ held.placed \in [Orders -> Instants]
      BY ReportAssumption DEF ReportInv, ReportFits, Tables
    <2>3. ASSUME NEW s \in DOMAIN told
          PROVE  Reports!DaysAddUp(w, s, told[s]) /\ Reports!CategoriesAddUp(w, s, told[s])
                 /\ Reports!TopIsOfTheSold(w, s)
      <3>1. told[s] = Reports!Overview(held, w, s)
        BY <1>2
      <3> QED
        BY <2>2, <3>1, DaysTotals, CategoriesTotals, TopTotals
    <2> QED
      BY <2>1, <2>3, PayoutsTotal
  <1> QED
    BY <1>1, <1>2, NothingUnreconciled, ListsAgreeAlways DEF Reports!ReportsAgree

LEMMA ReportStays ==
  ASSUME ReportInv, UNCHANGED clientVars
  PROVE  ReportInv'
  BY DEF clientVars, ReportInv

=============================================================================
