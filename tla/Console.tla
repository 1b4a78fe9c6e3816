------------------------------ MODULE Console ------------------------------
(***************************************************************************)
(* The work lists of the staff, seller and courier console.  Every view    *)
(* keeps a list it has read under a filter, offers on each row the steps   *)
(* it believes the row may take next, and reads the list again after a     *)
(* step.  A behaviour follows one view, the board, as if it were mounted;  *)
(* what an order or a return carries beyond the state its buttons look at  *)
(* is left out, as are the summaries beside the lists.                     *)
(***************************************************************************)
EXTENDS Naturals, FiniteSets

CONSTANTS Rows, MaxCalls, MaxClicks, None, Refused

VARIABLES
  screen,   \* what the view shows, or None
  calls,    \* calls on their way to the server, or back
  held      \* the board followed, and the server's rows of it

vars == <<screen, calls, held>>

Row(s) == [status |-> s, leg |-> "none"]
Leg(s, l) == [status |-> s, leg |-> l]
Step(s, do, t) == [from |-> Row(s), do |-> do, to |-> Row(t)]
LegStep(r, do, t) == [from |-> r, do |-> do, to |-> t]

-----------------------------------------------------------------------------
(* What the services accept: a step from a row to a row.                     *)
FulfilmentSteps ==
  {Step("PLACED", "CONFIRMED", "CONFIRMED"), Step("CONFIRMED", "PACKED", "PACKED"),
   Step("PACKED", "SHIPPED", "SHIPPED"), Step("SHIPPED", "OUT_FOR_DELIVERY", "OUT_FOR_DELIVERY"),
   Step("SHIPPED", "DELIVERED", "DELIVERED"), Step("OUT_FOR_DELIVERY", "DELIVERED", "DELIVERED")}

ForRefund(l) == Leg("APPROVED_FOR_REFUND", l)
Issued(l) == Leg("REPLACEMENT_ISSUED", l)

(* The leg is the refund or the replacement of the case.                     *)
ReturnSteps ==
  {Step("REQUESTED", "approve", "APPROVED"), Step("REQUESTED", "reject", "REJECTED"),
   Step("APPROVED", "pickup", "PICKUP_SCHEDULED"), Step("PICKUP_SCHEDULED", "pickedUp", "PICKED_UP"),
   Step("PICKED_UP", "inspect", "APPROVED_FOR_REFUND"),
   LegStep(Row("PICKED_UP"), "inspect", Issued("PENDING_DISPATCH")),
   LegStep(ForRefund("none"), "initiate", ForRefund("PENDING")),
   LegStep(ForRefund("PENDING"), "refund", Leg("COMPLETED", "COMPLETED")),
   LegStep(ForRefund("PENDING"), "refund", ForRefund("PROCESSING")),
   LegStep(Issued("PENDING_DISPATCH"), "dispatch", Issued("DISPATCHED")),
   LegStep(Issued("DISPATCHED"), "complete", Issued("COMPLETED"))}

SettlementSteps ==
  {Step("PENDING", "APPROVED", "APPROVED"), Step("APPROVED", "PROCESSING", "PROCESSING"),
   Step("PROCESSING", "PAID", "PAID"), Step("PROCESSING", "FAILED", "FAILED"),
   Step("PAID", "RECONCILED", "RECONCILED"), Step("FAILED", "PROCESSING", "PROCESSING")}

TaskSteps ==
  {Step("ASSIGNED", "accept", "ACCEPTED"), Step("ASSIGNED", "reject", "REJECTED"),
   Step("ACCEPTED", "pickup", "PICKED_UP"), Step("PICKED_UP", "out", "OUT_FOR_DELIVERY"),
   Step("OUT_FOR_DELIVERY", "deliver", "DELIVERED")}
  \cup {Step(s, "fail", "FAILED") : s \in {"ACCEPTED", "PICKED_UP", "OUT_FOR_DELIVERY"}}

PublishingSteps ==
  {Step(s, "submit", "PENDING_REVIEW") : s \in {"DRAFT", "REJECTED"}}
  \cup {Step(s, "archive", "ARCHIVED") : s \in {"DRAFT", "REJECTED", "PENDING_REVIEW"}}

ReviewSteps ==
  {Step("PENDING_REVIEW", "approve", "APPROVED"), Step("PENDING_REVIEW", "reject", "REJECTED")}

ModerationSteps ==
  {Step("PENDING", "approve", "PUBLISHED"), Step("PENDING", "reject", "REJECTED"),
   Step("PUBLISHED", "hide", "HIDDEN"), Step("HIDDEN", "unhide", "PUBLISHED")}

SliceSteps == {Step("PLACED", "accept", "ACCEPTED"), Step("PLACED", "reject", "REJECTED")}

(* A partner is moved to whatever status is asked.                           *)
PartnerSteps ==
  {Step(s, t, t) : s \in {"REGISTERED", "ACTIVE", "SUSPENDED"}, t \in {"ACTIVE", "SUSPENDED"}}

(* A payable to be settled has its period in its leg.                        *)
EarnedSteps ==
  {LegStep(Leg("EARNED", l), "settle", Leg("IN_SETTLEMENT", l)) : l \in {"inside", "outside"}}

Steps ==
  [orders |-> FulfilmentSteps, returns |-> ReturnSteps, settlements |-> SettlementSteps,
   payables |-> {Step("EARNED", "adjust", "EARNED")}, earned |-> EarnedSteps,
   payouts |-> {Step("EARNED", "settle", "SETTLED")}, tasks |-> TaskSteps,
   products |-> ReviewSteps, reviews |-> ModerationSteps, slices |-> SliceSteps,
   catalog |-> PublishingSteps, partners |-> PartnerSteps,
   sessions |-> {Step("active", "revoke", "revoked")}]

Boards == DOMAIN Steps

(* Steps the services refuse for reasons the row does not show: an order     *)
(* that is not paid or accepted, a refund of nothing, a courier under way.   *)
MayBeRefused == {"CONFIRMED", "PACKED", "SHIPPED", "OUT_FOR_DELIVERY", "DELIVERED", "initiate", "complete"}

-----------------------------------------------------------------------------
(* What the views offer on a row.                                            *)
OrderButtons(r) ==
  CASE r.status = "PLACED" -> {"CONFIRMED"}
    [] r.status = "CONFIRMED" -> {"PACKED"}
    [] r.status = "PACKED" -> {"SHIPPED"}
    [] r.status = "SHIPPED" -> {"OUT_FOR_DELIVERY", "DELIVERED"}
    [] r.status = "OUT_FOR_DELIVERY" -> {"DELIVERED"}
    [] OTHER -> {}

(* Nothing else can be inspected, or dispatched, while one is.               *)
ReturnButtons(r, doing) ==
  {b \in {"approve", "reject", "pickup", "pickedUp", "inspect", "initiate", "refund", "dispatch", "complete"} :
     CASE b \in {"approve", "reject"} -> r.status = "REQUESTED"
       [] b = "pickup" -> r.status = "APPROVED"
       [] b = "pickedUp" -> r.status = "PICKUP_SCHEDULED"
       [] b = "inspect" -> r.status = "PICKED_UP" /\ doing # "inspect"
       [] b = "initiate" -> r = ForRefund("none")
       [] b = "refund" -> r = ForRefund("PENDING")
       [] b = "dispatch" -> r.leg = "PENDING_DISPATCH" /\ doing # "dispatch"
       [] b = "complete" -> r.leg = "DISPATCHED"}

SkippingButtons(r) ==   \* mutation: a failed batch may be paid at once
  CASE r.status = "PENDING" -> {"APPROVED"}
    [] r.status = "APPROVED" -> {"PROCESSING"}
    [] r.status \in {"PROCESSING", "FAILED"} -> {"PAID", "FAILED"}
    [] OTHER -> {}

SettlementButtons(r) ==
  CASE r.status = "PENDING" -> {"APPROVED"}
    [] r.status = "APPROVED" -> {"PROCESSING"}
    [] r.status = "PROCESSING" -> {"PAID", "FAILED"}
    [] r.status = "PAID" -> {"RECONCILED"}
    [] r.status = "FAILED" -> {"PROCESSING"}
    [] OTHER -> {}

TaskButtons(r) ==
  CASE r.status = "ASSIGNED" -> {"accept", "reject"}
    [] r.status = "ACCEPTED" -> {"pickup", "fail"}
    [] r.status = "PICKED_UP" -> {"out", "fail"}
    [] r.status = "OUT_FOR_DELIVERY" -> {"deliver", "fail"}
    [] OTHER -> {}

ModerationButtons(r) ==
  CASE r.status = "PENDING" -> {"approve", "reject"}
    [] r.status = "PUBLISHED" -> {"hide"}
    [] r.status = "HIDDEN" -> {"unhide"}
    [] OTHER -> {}

CatalogButtons(r) ==
  (IF r.status \in {"DRAFT", "REJECTED"} THEN {"submit"} ELSE {})
  \cup (IF r.status \in {"DRAFT", "REJECTED", "PENDING_REVIEW"} THEN {"archive"} ELSE {})

SliceButtons(r) == IF r.status = "PLACED" THEN {"accept", "reject"} ELSE {}
DecisionButtons(r) == IF r.status = "PENDING_REVIEW" THEN {"approve", "reject"} ELSE {}
PartnerButtons(r) == IF r.status = "ACTIVE" THEN {"SUSPENDED"} ELSE {"ACTIVE"}
MoneyButtons(r, do) == IF r.status = "EARNED" THEN {do} ELSE {}
SessionButtons(r) == IF r.status = "active" THEN {"revoke"} ELSE {}

Buttons(board, r, doing) ==
  CASE board = "orders" -> OrderButtons(r)
    [] board = "returns" -> ReturnButtons(r, doing)
    [] board = "settlements" -> SettlementButtons(r)
    [] board = "payables" -> MoneyButtons(r, "adjust")
    [] board \in {"earned", "payouts"} -> MoneyButtons(r, "settle")
    [] board = "tasks" -> TaskButtons(r)
    [] board = "products" -> DecisionButtons(r)
    [] board = "reviews" -> ModerationButtons(r)
    [] board = "slices" -> SliceButtons(r)
    [] board = "catalog" -> CatalogButtons(r)
    [] board = "partners" -> PartnerButtons(r)
    [] board = "sessions" -> SessionButtons(r)

(* Steps that first ask for a reason, for results or for a reference, in a   *)
(* block that stands open until it is confirmed or put away.                 *)
Prompted ==
  [returns |-> {"reject", "inspect", "dispatch"}, tasks |-> {"reject", "fail"}, sessions |-> {"revoke"}]

Asks(board, do) == board \in DOMAIN Prompted /\ do \in Prompted[board]

-----------------------------------------------------------------------------
Unfiltered == "all"
(* The settlements, the partners and the tasks of a courier have no filter.  *)
Filters(board) ==
  CASE board \in {"settlements", "partners", "tasks"} -> {Unfiltered}
    [] board = "earned" -> {Unfiltered, "inside"}
    [] board = "sessions" -> {Unfiltered, "active", "revoked"}
    [] board = "products" -> {"PENDING_REVIEW", "APPROVED", "REJECTED"}
    [] board = "reviews" -> {"PENDING", "PUBLISHED", "REJECTED", "HIDDEN"}
    [] OTHER -> {Unfiltered} \cup {s.from.status : s \in Steps[board]}

FirstFilter(board) ==
  CASE board = "sessions" -> "active"
    [] board = "products" -> "PENDING_REVIEW"
    [] board = "reviews" -> "PENDING"
    [] board = "slices" -> "PLACED"
    [] OTHER -> Unfiltered

Entry(board) ==
  CASE board \in {"orders", "slices"} -> Row("PLACED")
    [] board = "returns" -> Row("REQUESTED")
    [] board = "tasks" -> Row("ASSIGNED")
    [] board = "products" -> Row("PENDING_REVIEW")
    [] board = "catalog" -> Row("DRAFT")
    [] board = "partners" -> Row("REGISTERED")
    [] board = "sessions" -> Row("active")
    [] board \in {"settlements", "reviews"} -> Row("PENDING")
    [] board = "earned" -> Leg("EARNED", "outside")
    [] OTHER -> Row("EARNED")

(* The states of a row that its service knows.                               *)
States(board) ==
  {Entry(board)} \cup {s.from : s \in Steps[board]} \cup {s.to : s \in Steps[board]}

Matches(board, r, f) ==
  IF board = "earned" THEN r.status = "EARNED" /\ f \in {Unfiltered, r.leg} ELSE f \in {Unfiltered, r.status}

Listed(board, rows, f) ==
  LET shown == {i \in Rows : Matches(board, rows[i], f)} IN [i \in shown |-> rows[i]]

-----------------------------------------------------------------------------
ListCall(f) == [kind |-> "list", row |-> None, do |-> None, then |-> f, reply |-> None]
ActCall(i, do, f) == [kind |-> "act", row |-> i, do |-> do, then |-> f, reply |-> None]

Blank(board) ==
  [board |-> board, filter |-> FirstFilter(board), asked |-> FirstFilter(board), list |-> <<>>,
   hidden |-> TRUE, prompt |-> None, ticked |-> {}, unsent |-> {}, sure |-> TRUE, clicks |-> 0]

(* The rows start in a state of their service, all but one where it begins.  *)
Init ==
  \E board \in Boards, i \in Rows :
    /\ screen = Blank(board)
    /\ calls = {ListCall(FirstFilter(board))}
    /\ held \in [Rows -> States(board)]
    /\ \A j \in Rows \ {i} : held[j] = Entry(board)

Clicked == [screen EXCEPT !.clicks = @ + 1]

Cross(c, d) == c.kind = "act" \/ d.kind = "act" \/ c.then # d.then

Send(s, new, others) ==
  /\ calls' = others \cup new
  /\ Cardinality(calls') <= MaxCalls
  /\ screen' = [s EXCEPT !.sure = @ /\ ~\E c \in others, d \in new : Cross(c, d)]
  /\ UNCHANGED held

(* Lists that a reload hides until it ends.                                  *)
Hides(board, picked) ==
  \/ board \in {"tasks", "products", "reviews", "catalog", "slices", "sessions"}
  \/ picked /\ board \in {"orders", "returns"}

Reload(s, f, others, picked) ==
  Send([s EXCEPT !.asked = f, !.hidden = @ \/ Hides(s.board, picked)], {ListCall(f)}, others)

(* A filter is picked, one that may list something.  The payables are read   *)
(* again under the filter that is left, the sessions not before a search.    *)
Pick(f) ==
  LET s == [Clicked EXCEPT !.filter = f, !.prompt = IF screen.board = "returns" THEN None ELSE @]
  IN /\ f \in {FirstFilter(screen.board), Unfiltered, "inside"} \cup {held[i].status : i \in Rows}
     /\ CASE screen.board = "payables" -> Reload(s, screen.filter, calls, TRUE)
          [] screen.board = "sessions" ->
               ~screen.hidden /\ screen' = s /\ UNCHANGED <<calls, held>>
          [] screen.board \in {"earned", "payouts"} -> f # screen.filter /\ Reload(s, f, calls, TRUE)
          [] OTHER -> Reload(s, f, calls, TRUE)

Search ==
  /\ screen.board = "sessions" /\ ~screen.hidden
  /\ Send([Clicked EXCEPT !.asked = screen.filter], {ListCall(screen.filter)}, calls)

Refresh == screen.board = "tasks" /\ ~screen.hidden /\ Reload(Clicked, Unfiltered, calls, FALSE)

Shown(i) == ~screen.hidden /\ i \in DOMAIN screen.list
Doing == IF screen.prompt = None THEN None ELSE screen.prompt.do
Offers(i, do) == Shown(i) /\ do \in Buttons(screen.board, screen.list[i], Doing)

(* Buttons that are dead while their own call is under way.                  *)
Busy(i, do) ==
  /\ screen.board \in {"orders", "products", "tasks"}
  /\ \E c \in calls : c.kind = "act" /\ c.row = i /\ (c.do = do \/ screen.board = "products")

Do(s, i, do) == Send(s, {ActCall(i, do, screen.filter)}, calls)

Click(i, do) ==
  /\ screen.board \notin {"earned", "tasks"} /\ ~Asks(screen.board, do)
  /\ Offers(i, do) /\ ~Busy(i, do)
  /\ Do(Clicked, i, do)

Ask(i, do) ==
  /\ Asks(screen.board, do) /\ Offers(i, do)
  /\ screen' = [Clicked EXCEPT !.prompt = [row |-> i, do |-> do]]
  /\ UNCHANGED <<calls, held>>

(* The block stands with its row, whatever has become of it; the control     *)
(* panel lays it over its tables, and hides these while the call is made.    *)
Confirm ==
  /\ screen.board \in {"returns", "sessions"} /\ screen.prompt # None
  /\ Shown(screen.prompt.row) \/ screen.board = "sessions"
  /\ Do([Clicked EXCEPT !.hidden = @ \/ screen.board = "sessions"], screen.prompt.row, screen.prompt.do)

PutAway ==
  /\ screen.prompt # None
  /\ screen' = [Clicked EXCEPT !.prompt = None]
  /\ UNCHANGED <<calls, held>>

(* The courier's steps name an object that the view never imports: nothing   *)
(* is sent, and the view says that the action failed.                        *)
CourierAction(i, do) ==
  /\ screen.board = "tasks"
  /\ \/ ~Asks("tasks", do) /\ Offers(i, do)
     \/ screen.prompt = [row |-> i, do |-> do] /\ Shown(i)
  /\ screen' = [Clicked EXCEPT !.unsent = @ \cup {do}]
  /\ UNCHANGED <<calls, held>>

(* A settlement of the payables that are ticked, listed or not.              *)
Tick(i) ==
  /\ screen.board = "earned" /\ Shown(i)
  /\ screen' = [Clicked EXCEPT !.ticked = IF i \in @ THEN @ \ {i} ELSE @ \cup {i}]
  /\ UNCHANGED <<calls, held>>

CreateSettlement ==
  /\ screen.board = "earned" /\ screen.ticked # {} /\ DOMAIN screen.list # {}
  /\ Do(Clicked, screen.ticked, "settle")

-----------------------------------------------------------------------------
(* The server.                                                               *)
Moves(board, r, do) == {s.to : s \in {s \in Steps[board] : s.from = r /\ s.do = do}}

(* A payout moves every fee of the partner, a settlement all that are named. *)
Results(board, rows, c) ==
  CASE board = "payouts" ->
         {[i \in Rows |-> IF rows[i] = Row("EARNED") THEN Row("SETTLED") ELSE rows[i]]}
    [] board = "earned" ->
         IF \E i \in c.row : rows[i].status # "EARNED" THEN {}
         ELSE {[i \in Rows |-> IF i \in c.row THEN [rows[i] EXCEPT !.status = "IN_SETTLEMENT"] ELSE rows[i]]}
    [] OTHER -> {[rows EXCEPT ![c.row] = t] : t \in Moves(board, rows[c.row], c.do)}

Replied(c, r) == calls' = (calls \ {c}) \cup {[c EXCEPT !.reply = r]}

ServeList(c) ==
  /\ c.kind = "list" /\ c.reply = None
  /\ Replied(c, Listed(screen.board, held, c.then))
  /\ UNCHANGED <<screen, held>>

ServeAct(c) ==
  /\ c.kind = "act" /\ c.reply = None
  /\ LET after == Results(screen.board, held, c)
     IN \/ held' \in after /\ Replied(c, "done")
        \/ (after = {} \/ c.do \in MayBeRefused) /\ Replied(c, Refused) /\ UNCHANGED held
  /\ UNCHANGED screen

(* Another desk takes a step of its own, counted among the clicks.           *)
Elsewhere ==
  /\ \E i \in Rows, s \in Steps[screen.board] :
       held[i] = s.from /\ held' = [held EXCEPT ![i] = s.to]
  /\ screen' = [Clicked EXCEPT !.sure = FALSE]
  /\ UNCHANGED calls

-----------------------------------------------------------------------------
(* The answers.                                                              *)
AnswerList(c) ==
  /\ c.kind = "list" /\ c.reply # None
  /\ screen' = [screen EXCEPT !.list = c.reply, !.hidden = FALSE]
  /\ calls' = calls \ {c}
  /\ UNCHANGED held

(* Then the list is read again under the filter the click was made under,    *)
(* to which the seller's view returns; all of it is read without a filter.   *)
AnswerAct(c) ==
  /\ c.kind = "act" /\ c.reply = "done"
  /\ LET s == [screen EXCEPT !.prompt = IF Asks(screen.board, c.do) THEN None ELSE @,
                             !.ticked = {},
                             !.filter = IF screen.board = "slices" THEN c.then ELSE @]
     IN Reload(s, c.then, calls \ {c}, FALSE)

(* The view keeps what it shows, and the block stays open.                   *)
Refuse(c) ==
  /\ c.reply = Refused
  /\ calls' = calls \ {c}
  /\ screen' = [screen EXCEPT !.hidden = @ /\ screen.board # "sessions"]
  /\ UNCHANGED held

Lose(c) ==
  /\ calls' = calls \ {c}
  /\ screen' = [screen EXCEPT !.hidden = @ /\ c.kind # "list" /\ screen.board # "sessions", !.sure = FALSE]
  /\ UNCHANGED held

Dos == UNION {{s.do : s \in Steps[b]} : b \in Boards}

Next ==
  \/ /\ screen.clicks < MaxClicks
     /\ \/ Elsewhere
        \/ \E f \in Filters(screen.board) : Pick(f)
        \/ Search \/ Refresh \/ Confirm \/ PutAway \/ CreateSettlement
        \/ \E i \in Rows : Tick(i)
        \/ \E i \in Rows, do \in Dos : Click(i, do) \/ Ask(i, do) \/ CourierAction(i, do)
  \/ \E c \in calls : ServeList(c) \/ ServeAct(c) \/ AnswerList(c) \/ AnswerAct(c) \/ Refuse(c) \/ Lose(c)

Spec == Init /\ [][Next]_vars

-----------------------------------------------------------------------------
Settled == calls = {} /\ screen.sure

(* Once no call is under way a view shows the server's rows of the filter it *)
(* asked for, which is the one it marks, the payables and the sessions       *)
(* apart; and on none of them does it offer a step the service would refuse  *)
(* for the state of the row.  Unless calls crossed or one was lost, or       *)
(* another desk took a step.                                                 *)
ShowsTheBoard ==
  Settled =>
    /\ screen.list = Listed(screen.board, held, screen.asked)
    /\ screen.asked = screen.filter \/ screen.board \in {"payables", "sessions"}
    /\ \A i \in DOMAIN screen.list : \A do \in Buttons(screen.board, screen.list[i], Doing) :
         Moves(screen.board, held[i], do) # {}

(* Not kept by the code.                                                     *)
TabIsShown == Settled => screen.asked = screen.filter
TickedIsShown == Settled => screen.ticked \subseteq DOMAIN screen.list
ConfirmedIsTaken ==
  Settled /\ screen.prompt # None /\ Shown(screen.prompt.row)
    => Moves(screen.board, held[screen.prompt.row], screen.prompt.do) # {}

(* CourierTasks.jsx names the steps a courier can take from each state of a  *)
(* task: no such step goes unsent.                                           *)
ActionsAreSent == screen.unsent = {}
=============================================================================
