-------------------------- MODULE StorefrontOrder --------------------------
(***************************************************************************)
(* The order page of the storefront: the order, its payment or its cash on *)
(* delivery step, its cancellation and its returns panel.  Every part asks *)
(* the server for itself and is refreshed by its own actions only; the     *)
(* page stays mounted when the address bar moves it to another order.      *)
(* Courier tracking, which only reads, is left out.                        *)
(***************************************************************************)
EXTENDS Naturals, Sequences, FiniteSets

CONSTANTS Orders, Cod, Units, MaxCases, MaxCalls, MaxClicks, None, Refused

VARIABLES screen, calls, held

vars == <<screen, calls, held>>

Fresh == [status |-> "PLACED", cod |-> "NONE", paid |-> FALSE, cases |-> <<>>]

Method(o) == IF o \in Cod THEN "COD" ELSE "PREPAID"

Underway(o, s) ==
  [status |-> s, cod |-> IF o \in Cod THEN "CONFIRMED" ELSE "NONE", paid |-> o \notin Cod, cases |-> <<>>]

NoPanel == [cases |-> None, active |-> 0, mode |-> "none", busy |-> FALSE]

(* sent and busy are the state of the payment step, told the orders that the *)
(* page has called authorized; sure is for the properties.                   *)
Page(o, sure, clicks, told) ==
  [id |-> o, order |-> None, payment |-> None, cod |-> None, sent |-> FALSE, busy |-> FALSE,
   panel |-> NoPanel, told |-> told, sure |-> sure, clicks |-> clicks]

Init ==
  /\ screen = Page(None, TRUE, 0, {})
  /\ calls = {}
  /\ held \in [Orders -> {Fresh} \cup {Underway(o, s) : o \in Orders, s \in {"PACKED", "DELIVERED"}}]
  /\ \A o \in Orders : held[o] \in {Fresh} \cup {Underway(o, s) : s \in {"PACKED", "DELIVERED"}}

Call(kind, o, arg) == [kind |-> kind, id |-> o, arg |-> arg, live |-> TRUE, reply |-> None]
Writes == {"cancel", "capture", "otp", "verify", "request", "evidence"}
Cross(c, d) == c.kind \in Writes \/ d.kind \in Writes

Send(s, new, others) ==
  /\ calls' = others \cup new
  /\ Cardinality(calls') <= MaxCalls
  /\ screen' = [s EXCEPT !.sure = @ /\ ~\E c \in others, d \in new : Cross(c, d)]
  /\ UNCHANGED held

Clicked == [screen EXCEPT !.clicks = @ + 1]

(* From the list of orders the page is mounted afresh ...                    *)
Open(o) ==
  Send(Page(o, screen.sure \/ calls = {}, screen.clicks + 1, screen.told),
       {Call("get", o, None)}, {[c EXCEPT !.live = FALSE] : c \in calls})

(* ... and from order to order it keeps what it shows until answers come.    *)
Move(o) ==
  /\ screen.id \notin {None, o}
  /\ Send([Clicked EXCEPT !.id = o, !.sure = FALSE], {Call("get", o, None)}, calls)

Load(s, o, others) == Send(s, {Call("get", o, None)}, others)

Shown == screen.order
IsOf(method) == Shown # None /\ Method(Shown.id) = method

Offered == {"PLACED", "CONFIRMED", "PACKED"}

Cancel ==
  /\ Shown # None /\ Shown.status \in Offered
  /\ Send(Clicked, {Call("cancel", Shown.id, screen.id)}, calls)

Capture ==
  /\ IsOf("PREPAID") /\ screen.payment = FALSE /\ ~screen.busy
  /\ Send([Clicked EXCEPT !.busy = TRUE], {Call("capture", Shown.id, screen.id)}, calls)

Verified == screen.cod \in {"VERIFIED", "COMPLETED"}

SendOtp ==
  /\ IsOf("COD") /\ ~Verified /\ ~screen.busy /\ ~screen.sent
  /\ Send([Clicked EXCEPT !.busy = TRUE], {Call("otp", Shown.id, None)}, calls)

Verify ==
  /\ IsOf("COD") /\ ~Verified /\ ~screen.busy /\ screen.sent
  /\ \E code \in {"right", "wrong"} :
       Send([Clicked EXCEPT !.busy = TRUE], {Call("verify", Shown.id, code)}, calls)

-----------------------------------------------------------------------------
(* The returns panel, there while the order shown is delivered.  Its form is *)
(* gone, and with it that it was busy, once another takes its place or there *)
(* is, or is no longer, a case to work on.                                   *)
InPlaceOf(panel, new) ==
  [new EXCEPT !.busy = @ /\ new.mode = panel.mode /\ (new.active = 0 <=> panel.active = 0)]
Panelled(s) == [s EXCEPT !.panel = InPlaceOf(screen.panel, @)]

HasPanel(order) == order # None /\ order.status = "DELIVERED"
Live(case) == case.status \notin {"REJECTED", "COMPLETED", "CANCELLED"}
First(cases) ==
  LET live == {i \in DOMAIN cases : Live(cases[i])}
  IN IF live = {} THEN 0 ELSE CHOOSE i \in live : \A j \in live : i <= j

CanStart == HasPanel(Shown) /\ screen.panel.active = 0

OpenForm ==
  /\ CanStart /\ screen.panel.mode # "form"
  /\ screen' = Panelled([Clicked EXCEPT !.panel.mode = "form"])
  /\ UNCHANGED <<calls, held>>

Submit ==
  /\ CanStart /\ screen.panel.mode = "form" /\ ~screen.panel.busy
  /\ \E n \in 1..Units :
       Send([Clicked EXCEPT !.panel.busy = TRUE], {Call("request", Shown.id, n)}, calls)

Attach ==
  /\ HasPanel(Shown) /\ screen.panel.mode = "evidence" /\ screen.panel.active # 0 /\ ~screen.panel.busy
  /\ Send([Clicked EXCEPT !.panel.busy = TRUE], {Call("evidence", Shown.id, screen.panel.active)}, calls)

(* The call to add evidence stands at every live case that wants some.       *)
OpenEvidence ==
  /\ HasPanel(Shown) /\ screen.panel.cases # None
  /\ \E i \in DOMAIN screen.panel.cases :
       /\ Live(screen.panel.cases[i]) /\ ~screen.panel.cases[i].proof
       /\ screen' = Panelled([Clicked EXCEPT !.panel.active = i, !.panel.mode = "evidence"])
  /\ UNCHANGED <<calls, held>>

-----------------------------------------------------------------------------
(* The server: what each call finds, and what it leaves.                     *)
Cancellable == {"PLACED", "CONFIRMED"}

Used(h) == LET counted == {i \in DOMAIN h.cases : h.cases[i].status # "REJECTED"}
           IN IF counted = {} THEN 0 ELSE IF Cardinality(counted) = 1
              THEN h.cases[CHOOSE i \in counted : TRUE].n ELSE Units

Served(c, h) ==
  CASE c.kind = "cancel" /\ h.status \in Cancellable -> [h EXCEPT !.status = "CANCELLED"]
    [] c.kind = "capture" /\ ~h.paid /\ h.status # "CANCELLED" -> [h EXCEPT !.paid = TRUE]
    [] c.kind = "otp" /\ h.status # "CANCELLED" /\ h.cod # "CONFIRMED" ->
         [h EXCEPT !.cod = "PENDING_CUSTOMER_OTP"]
    [] c.kind = "verify" /\ h.status # "CANCELLED" /\ h.cod = "PENDING_CUSTOMER_OTP" ->
         IF c.arg = "right" THEN [h EXCEPT !.cod = "CONFIRMED", !.status = "CONFIRMED"] ELSE h
    [] c.kind = "request" /\ h.status = "DELIVERED" /\ c.arg + Used(h) <= Units ->
         [h EXCEPT !.cases = Append(@, [status |-> "REQUESTED", n |-> c.arg, proof |-> FALSE])]
    [] c.kind = "evidence" /\ Live(h.cases[c.arg]) -> [h EXCEPT !.cases[c.arg].proof = TRUE]
    [] c.kind \in {"get", "payment", "list"} -> h
    [] c.kind = "cod" /\ h.cod # "NONE" -> h
    [] OTHER -> Refused

Replied(c, r) == calls' = (calls \ {c}) \cup {[c EXCEPT !.reply = r]}

Serve(c) ==
  /\ c.reply = None
  /\ LET h == Served(c, held[c.id])
     IN /\ Replied(c, h)
        /\ IF h = Refused THEN UNCHANGED held
           ELSE Len(h.cases) <= MaxCases /\ held' = [held EXCEPT ![c.id] = h]
  /\ UNCHANGED screen

(* Operators and couriers move the order and its cases on.                   *)
NextStatus == [PLACED |-> "CONFIRMED", CONFIRMED |-> "PACKED", PACKED |-> "DELIVERED"]
Cleared(o) == held[o].paid \/ held[o].cod = "CONFIRMED"

Progress(o) ==
  /\ \/ /\ held[o].status \in DOMAIN NextStatus /\ Cleared(o)
        /\ held' = [held EXCEPT ![o].status = NextStatus[@]]
     \/ \E i \in DOMAIN held[o].cases, s \in {"REJECTED", "COMPLETED"} :
          /\ Live(held[o].cases[i])
          /\ held' = [held EXCEPT ![o].cases[i].status = s]
  /\ screen' = [screen EXCEPT !.sure = FALSE]
  /\ UNCHANGED calls

-----------------------------------------------------------------------------
(* The answers.  One for a page that is gone changes nothing.                *)
Received(c) == c \in calls /\ c.live /\ c.reply \notin {None, Refused}

Show(s, c) == screen' = s /\ calls' = calls \ {c} /\ UNCHANGED held

(* Whatever comes of it, the form that has sent a call may be used again.    *)
Freed(c) ==
  CASE c.live /\ c.kind \in {"capture", "otp", "verify"} /\ IsOf(Method(c.id)) -> [screen EXCEPT !.busy = FALSE]
    [] c.live /\ c.kind = "request" -> [screen EXCEPT !.panel.busy = @ /\ screen.panel.mode = "evidence"]
    [] c.live /\ c.kind = "evidence" -> [screen EXCEPT !.panel.busy = @ /\ screen.panel.mode = "form"]
    [] OTHER -> screen

(* Then the page asks for the payment, or for the verification, and a panel  *)
(* that appears, or whose order changes, for the cases.  The step of the     *)
(* other method, if one was shown, is gone.                                  *)
AnswerGet(c) ==
  /\ Received(c) /\ c.kind = "get"
  /\ LET order == [id |-> c.id, status |-> c.reply.status]
         kept == HasPanel(Shown) /\ HasPanel(order)
         same == Shown # None /\ Method(Shown.id) = Method(c.id)
     IN Send([screen EXCEPT !.order = order, !.panel = IF kept THEN @ ELSE NoPanel,
                            !.sent = @ /\ same, !.busy = @ /\ same],
             {Call(IF c.id \in Cod THEN "cod" ELSE "payment", c.id, None)}
               \cup (IF HasPanel(order) /\ ~(kept /\ Shown.id = c.id) THEN {Call("list", c.id, None)} ELSE {}),
             calls \ {c})

AnswerPayment(c) == Received(c) /\ c.kind = "payment" /\ Show([screen EXCEPT !.payment = c.reply.paid], c)
AnswerCod(c) == Received(c) /\ c.kind = "cod" /\ Show([screen EXCEPT !.cod = c.reply.cod], c)

AnswerOtp(c) ==
  /\ Received(c) /\ c.kind = "otp"
  /\ Show([Freed(c) EXCEPT !.cod = c.reply.cod, !.sent = IsOf("COD")], c)

(* Whatever the answer says, the order is called authorized.                 *)
AnswerVerify(c) ==
  /\ Received(c) /\ c.kind = "verify"
  /\ Show([Freed(c) EXCEPT !.cod = c.reply.cod, !.told = @ \cup {c.id}], c)

(* The page loads the order that it was at when the button was clicked.     *)
AnswerOrder(c) ==
  /\ Received(c) /\ c.kind \in {"cancel", "capture"}
  /\ Load(Freed(c), c.arg, calls \ {c})

AnswerList(c) ==
  /\ Received(c) /\ c.kind = "list"
  /\ LET s == [screen EXCEPT !.panel.cases = c.reply.cases, !.panel.active = First(c.reply.cases)]
     IN Show(IF HasPanel(Shown) THEN Panelled(s) ELSE screen, c)

AnswerCase(c) ==
  /\ Received(c) /\ c.kind \in {"request", "evidence"}
  /\ LET done == Freed(c)
     IN Send(IF c.kind = "request" /\ HasPanel(Shown)
             THEN Panelled([done EXCEPT !.panel.active = Len(c.reply.cases), !.panel.mode = "evidence"])
             ELSE done,
             {Call("list", c.id, None)}, calls \ {c})

Refuse(c) == c \in calls /\ (c.reply = Refused \/ (~c.live /\ c.reply # None)) /\ Show(Freed(c), c)
Lose(c) == c \in calls /\ Show([Freed(c) EXCEPT !.sure = FALSE], c)

Next ==
  \/ /\ screen.clicks < MaxClicks
     /\ \/ \E o \in Orders : Open(o) \/ Move(o)
        \/ Cancel \/ Capture \/ SendOtp \/ Verify
        \/ OpenForm \/ Submit \/ Attach \/ OpenEvidence
  \/ \E o \in Orders : Progress(o)
  \/ \E c \in calls :
       \/ Serve(c) \/ AnswerGet(c) \/ AnswerPayment(c) \/ AnswerCod(c) \/ AnswerOtp(c) \/ AnswerVerify(c)
       \/ AnswerOrder(c) \/ AnswerList(c) \/ AnswerCase(c) \/ Refuse(c) \/ Lose(c)

Spec == Init /\ [][Next]_vars

-----------------------------------------------------------------------------
Settled == calls = {} /\ screen.sure /\ Shown # None

(* Once no call is under way, the page shows the server's order, payment,    *)
(* verification and cases, and the panel works on a case that is open,       *)
(* unless calls crossed, one was lost, others moved the order or the page    *)
(* was moved to another order.  One thing it does not show: an order that    *)
(* its verification has just confirmed still reads as placed.                *)
ShowsTheOrder ==
  Settled =>
    LET h == held[Shown.id]
    IN /\ Shown.id = screen.id
       /\ \/ Shown.status = h.status
          \/ Shown.status = "PLACED" /\ h.status = "CONFIRMED" /\ screen.cod = "CONFIRMED"
       /\ screen.payment # None => screen.payment = h.paid
       /\ screen.cod # None => screen.cod = h.cod
       /\ HasPanel(Shown) =>
            /\ screen.panel.cases = h.cases
            /\ screen.panel.active = 0 <=> First(h.cases) = 0
            /\ screen.panel.active # 0 => Live(h.cases[screen.panel.active])

(* Not kept by the code.                                                     *)
ShowsTheStatus == Settled => Shown.status = held[Shown.id].status
AuthorizedIsConfirmed == \A o \in screen.told : held[o].cod = "CONFIRMED"
OfferedIsAccepted == Settled /\ Shown.status \in Offered => held[Shown.id].status \in Cancellable
=============================================================================
