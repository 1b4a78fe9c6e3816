---------------------------- MODULE ReturnCases ----------------------------
(***************************************************************************)
(* The return requests of one delivered order, in ReturnsService: the      *)
(* request, the operator's decision, pickup and inspection, and the refund *)
(* with its call to the payment gateway and the events the gateway sends   *)
(* later.  A replacement is followed up to its issue; its way to the buyer *)
(* is ReplacementCourier.                                                  *)
(*                                                                         *)
(* As in OrderLifecycle a handler is a slot of req: it reads, and writes   *)
(* by id later.  completeRefund calls the gateway in between, which no     *)
(* rollback undoes.  The transaction that completes a refund adds up the   *)
(* COMPLETED rows of the order, where it does not see the other open       *)
(* transactions, so the sum and the commit are two steps.                  *)
(*                                                                         *)
(* Not every refund of the order comes from a return.  A slice that its     *)
(* seller rejected was refunded when it was resolved, before the delivery: *)
(* a row of refunds that is COMPLETED from the start, with a made-up       *)
(* reference and no call to the gateway.  The cap of the refunds and the   *)
(* sum that closes the order count such rows.  (An order of which every    *)
(* slice was resolved is delivered all the same.)  Left out: a second      *)
(* resolution that has read the slice before the first, and is still under *)
(* way after the delivery; OrderLifecycle has it.                          *)
(*                                                                         *)
(* Money is counted in halves of a unit's share of the grand total: the    *)
(* whole share of a PASS and the half of a PARTIAL_PASS are whole numbers. *)
(***************************************************************************)
EXTENDS Naturals, FiniteSets, FiniteSetsExt

CONSTANTS
  Cases,           \* return_requests of the order
  Items,           \* order_items
  Bought,          \* quantity of each item
  SliceRefunds,    \* what a resolved slice may have been refunded
  Results,         \* the inspection results that may be found
  GatewayRefunds,  \* refunds at the gateway
  Requests,        \* calls and webhooks in flight at the same time
  MaxLost,         \* calls that die between the gateway and the database
  None

ASSUME ReturnAssumption ==
  /\ IsFiniteSet(Cases) /\ IsFiniteSet(Items)
  /\ Bought \in [Items -> Nat] /\ \E i \in Items : Bought[i] > 0
  /\ SliceRefunds \subseteq Nat
  /\ Results \subseteq {"PASS", "PARTIAL_PASS", "FAIL"}
  /\ None \notin GatewayRefunds /\ None \notin Cases
  /\ MaxLost \in Nat

VARIABLES
  method,       \* orders.paymentMethod: "GATEWAY" (prepaid) or "COD"
  sliceRefunds, \* refunds.amount of the resolved slices, added up
  order,        \* orders.status: "DELIVERED" or "REFUNDED"
  ret,          \* return_requests.status ("NONE": no row yet)
  remedy,       \* return_requests.resolution
  pick,         \* quantity of each item a request returns
  result,       \* return_items.inspectionResult ("NONE": not inspected)
  issued,       \* requests with a replacements row (unique column)
  refund,       \* refunds.status ("NONE": no row yet)
  amount,       \* refunds.amount
  gatewayRef,   \* refunds.gatewayRef
  completions,  \* REFUND_COMPLETED events, each with a debit of the sellers
  gateway,      \* the gateway's refunds
  told,         \* until calls overlap: gateway refunds whose event was answered
  early,        \* those answered while no row carried their reference
  req,          \* the calls in flight
  overlapped,   \* some call has begun while another was in flight
  lost          \* until then, calls that died after the gateway took the refund

caseVars    == <<ret, remedy, pick, result, issued>>
refundVars  == <<refund, amount, gatewayRef, completions>>
gatewayVars == <<gateway, told, early>>
vars == <<method, sliceRefunds, order, caseVars, refundVars, gatewayVars, req, overlapped, lost>>

-----------------------------------------------------------------------------
ReturnStatus == {"NONE", "REQUESTED", "APPROVED", "REJECTED", "PICKUP_SCHEDULED", "PICKED_UP",
                 "INSPECTION", "APPROVED_FOR_REFUND", "REPLACEMENT_ISSUED", "COMPLETED"}
RefundState == {"NONE", "PENDING", "PROCESSING", "COMPLETED", "FAILED"}
Remedies    == {"REFUND", "REPLACEMENT"}
Found       == [Items -> Results \cup {"NONE"}]
GatewayStates == {"NONE", "PROCESSING", "PROCESSED", "FAILED"}

Idle == [op |-> "idle"]

Request ==
       {Idle}
  \cup [op : {"request"}, pick : [Items -> Nat]]
  \cup [op : {"step"}, case : Cases, to : ReturnStatus]
  \cup [op : {"inspect"}, case : Cases]
  \cup [op : {"initiate"}, case : Cases, amount : Nat]
  \cup [op : {"refund"}, case : Cases]
  \cup [op : {"book"}, case : Cases, ref : GatewayRefunds \cup {None}, terminal : BOOLEAN]
  \cup [op : {"event"}, case : Cases, ref : GatewayRefunds, terminal : BOOLEAN]
  \cup [op : {"close"}, case : Cases, ref : GatewayRefunds \cup {None},
        event : BOOLEAN, full : BOOLEAN]

-----------------------------------------------------------------------------
GrandTotal == MapThenSumSet(LAMBDA i : 2 * Bought[i], Items)
AmountIn(states) ==
  (IF "COMPLETED" \in states THEN sliceRefunds ELSE 0)
    + MapThenSumSet(LAMBDA c : amount[c], {c \in Cases : refund[c] \in states})
ToRefund == {"PENDING", "PROCESSING", "COMPLETED"}

(* Only a slice of a prepaid order is refunded when it is resolved.         *)
ResolvedAmounts(paidBy) == {0} \cup {n \in SliceRefunds : n <= GrandTotal /\ paidBy = "GATEWAY"}

Init ==
  /\ method \in {"GATEWAY", "COD"}
  /\ sliceRefunds \in ResolvedAmounts(method)
  /\ order = "DELIVERED"
  /\ ret = [c \in Cases |-> "NONE"]
  /\ remedy = [c \in Cases |-> "REFUND"]
  /\ pick = [c \in Cases |-> [i \in Items |-> 0]]
  /\ result = [c \in Cases |-> [i \in Items |-> "NONE"]]
  /\ issued = {}
  /\ refund = [c \in Cases |-> "NONE"]
  /\ amount = [c \in Cases |-> 0]
  /\ gatewayRef = [c \in Cases |-> None]
  /\ completions = [c \in Cases |-> 0]
  /\ gateway = [g \in GatewayRefunds |-> [case |-> None, state |-> "NONE"]]
  /\ told = {}
  /\ early = {}
  /\ req = [r \in Requests |-> Idle]
  /\ overlapped = FALSE
  /\ lost = 0

Begin(r, snapshot) ==
  /\ req[r] = Idle
  /\ req' = [req EXCEPT ![r] = snapshot]
  /\ overlapped' = (overlapped \/ \E q \in Requests : req[q] # Idle)
  /\ UNCHANGED <<method, sliceRefunds, order, caseVars, refundVars, gatewayVars, lost>>

Proceed(r, next) == req' = [req EXCEPT ![r] = next]
End(r) == Proceed(r, Idle)

(* A refused check inside the transaction, a database error, a process that *)
(* dies.  When the gateway has already taken the refund, its answer is lost.*)
Drop(r) ==
  /\ req[r] # Idle
  /\ LET paidFor == req[r].op \in {"book", "close"} /\ req[r].ref # None IN
       lost' = IF paidFor /\ ~overlapped THEN lost + 1 ELSE lost
  /\ lost' <= MaxLost
  /\ End(r)
  /\ UNCHANGED <<method, sliceRefunds, order, caseVars, refundVars, gatewayVars, overlapped>>

-----------------------------------------------------------------------------
(* request *)

Live(c) == ret[c] \notin {"NONE", "REJECTED"}
Used(i) == MapThenSumSet(LAMBDA c : pick[c][i], {c \in Cases : Live(c)})
Returnable(p) == \A i \in Items : p[i] > 0 => p[i] + Used(i) <= Bought[i]

ReadRequest(r) ==
  /\ order = "DELIVERED"
  /\ \E p \in [Items -> UNION {0 .. Bought[i] : i \in Items}] :
       /\ \E i \in Items : p[i] > 0
       /\ Returnable(p)
       /\ Begin(r, [op |-> "request", pick |-> p])

CommitRequest(r, c) ==
  /\ req[r].op = "request"
  /\ ret[c] = "NONE"
  /\ ret' = [ret EXCEPT ![c] = "REQUESTED"]
  /\ \E m \in Remedies : remedy' = [remedy EXCEPT ![c] = m]
  /\ pick' = [pick EXCEPT ![c] = req[r].pick]
  /\ End(r)
  /\ UNCHANGED <<method, sliceRefunds, order, result, issued, refundVars, gatewayVars, overlapped, lost>>

-----------------------------------------------------------------------------
(* decide, schedulePickup, pickedUp *)

Steps == {"REQUESTED"} \X {"APPROVED", "REJECTED"}
           \cup {<<"APPROVED", "PICKUP_SCHEDULED">>, <<"PICKUP_SCHEDULED", "PICKED_UP">>}

ReadStep(r, c) ==
  \E to \in ReturnStatus :
    <<ret[c], to>> \in Steps /\ Begin(r, [op |-> "step", case |-> c, to |-> to])

CommitStep(r) ==
  /\ req[r].op = "step"
  /\ ret' = [ret EXCEPT ![req[r].case] = req[r].to]
  /\ End(r)
  /\ UNCHANGED <<method, sliceRefunds, order, remedy, pick, result, issued, refundVars, gatewayVars, overlapped, lost>>

-----------------------------------------------------------------------------
(* inspect *)

Picked(c) == {i \in Items : pick[c][i] > 0}

MayInspect(c) == ret[c] = "PICKED_UP"
ReadInspect(r, c) == MayInspect(c) /\ Begin(r, [op |-> "inspect", case |-> c])

Merge(old, found) == [i \in Items |-> IF found[i] = "NONE" THEN old[i] ELSE found[i]]
Complete(c, found) == \A i \in Items : pick[c][i] > 0 => found[i] # "NONE"
AllInspected(c, found) == Complete(c, found)

CommitInspect(r, found) ==
  /\ req[r].op = "inspect"
  /\ LET c == req[r].case
     IN /\ \E new \in Found :
             /\ \A i \in Items : new[i] # "NONE" => i \in Picked(c)
             /\ found = Merge(result[c], new)
        /\ result' = [result EXCEPT ![c] = found]
        /\ \/ /\ ~AllInspected(c, found)
              /\ ret' = [ret EXCEPT ![c] = "INSPECTION"]
              /\ UNCHANGED issued
           \/ /\ AllInspected(c, found) /\ remedy[c] = "REFUND"
              /\ ret' = [ret EXCEPT ![c] = "APPROVED_FOR_REFUND"]
              /\ UNCHANGED issued
           \/ /\ AllInspected(c, found) /\ remedy[c] = "REPLACEMENT"
              /\ c \notin issued
              /\ \E i \in Picked(c) : found[i] # "FAIL"
              /\ ret' = [ret EXCEPT ![c] = "REPLACEMENT_ISSUED"]
              /\ issued' = issued \cup {c}
  /\ End(r)
  /\ UNCHANGED <<method, sliceRefunds, order, remedy, pick, refundVars, gatewayVars, overlapped, lost>>

-----------------------------------------------------------------------------
(* initiateRefund *)

Share(res) == CASE res = "FAIL" -> 0 [] res = "PARTIAL_PASS" -> 1 [] OTHER -> 2
Refundable(c) == MapThenSumSet(LAMBDA i : Share(result[c][i]) * pick[c][i], Items)

MayInitiate(c) ==
  /\ ret[c] = "APPROVED_FOR_REFUND"
  /\ refund[c] = "NONE"
  /\ Refundable(c) \in 1 .. GrandTotal
  /\ AmountIn(ToRefund) + Refundable(c) <= GrandTotal

ReadInitiate(r, c) ==
  MayInitiate(c) /\ Begin(r, [op |-> "initiate", case |-> c, amount |-> Refundable(c)])

CommitInitiate(r) ==
  /\ req[r].op = "initiate"
  /\ refund[req[r].case] = "NONE"        \* unique returnRequestId
  /\ refund' = [refund EXCEPT ![req[r].case] = "PENDING"]
  /\ amount' = [amount EXCEPT ![req[r].case] = req[r].amount]
  /\ End(r)
  /\ UNCHANGED <<method, sliceRefunds, order, caseVars, gatewayRef, completions, gatewayVars, overlapped, lost>>

-----------------------------------------------------------------------------
(* completeRefund *)

MayComplete(c) == ret[c] = "APPROVED_FOR_REFUND" /\ refund[c] = "PENDING"

ReadComplete(r, c) ==
  /\ MayComplete(c)
  /\ Begin(r, IF method = "GATEWAY"
                THEN [op |-> "refund", case |-> c]
                ELSE [op |-> "book", case |-> c, ref |-> None, terminal |-> TRUE])

(* The gateway takes the refund, and says whether the money has moved.  One *)
(* that refuses it leaves nothing behind (Drop).                            *)
CallGateway(r, g) ==
  /\ req[r].op = "refund"
  /\ gateway[g].state = "NONE"
  /\ \E state \in {"PROCESSING", "PROCESSED"} :
       /\ gateway' = [gateway EXCEPT ![g] = [case |-> req[r].case, state |-> state]]
       /\ Proceed(r, [op |-> "book", case |-> req[r].case, ref |-> g,
                      terminal |-> state = "PROCESSED"])
  /\ UNCHANGED <<method, sliceRefunds, order, caseVars, refundVars, told, early, overlapped, lost>>

(* An open transaction that has updated the refund keeps its row.           *)
Open(c) == \E q \in Requests : req[q].op = "close" /\ req[q].case = c

NextRefundState(terminal) == IF terminal THEN "COMPLETED" ELSE "PROCESSING"

BookProcessing(r) ==
  /\ req[r].op = "book"
  /\ ~req[r].terminal
  /\ ~Open(req[r].case)
  /\ refund' = [refund EXCEPT ![req[r].case] = NextRefundState(req[r].terminal)]
  /\ gatewayRef' = [gatewayRef EXCEPT ![req[r].case] = req[r].ref]
  /\ End(r)
  /\ UNCHANGED <<method, sliceRefunds, order, caseVars, amount, completions, gatewayVars, overlapped, lost>>

-----------------------------------------------------------------------------
(* reconcileRefundFromEvent: the gateway reports how a refund has ended, at  *)
(* least once, and perhaps before completeRefund has stored its reference.   *)

Told(g) == IF overlapped THEN told ELSE told \cup ({g} \ {None})
Ended(g) == gateway[g].state \in {"PROCESSED", "FAILED"}
InFlight(c) == refund[c] = "PROCESSING"
NotYetBooked(c) == refund[c] = "PENDING"   \* mutation: what is in flight counts as handled
Actionable(c) == InFlight(c)

ReadEvent(r, g, c) ==
  /\ Ended(g)
  /\ gatewayRef[c] = g
  /\ Actionable(c)
  /\ Begin(r, [op |-> "event", case |-> c, ref |-> g, terminal |-> gateway[g].state = "PROCESSED"])

(* No row has the reference, or its refund is not in flight: answered, and   *)
(* nothing is changed.                                                       *)
Dismiss(g) ==
  /\ Ended(g)
  /\ g \notin told
  /\ \A c \in Cases : gatewayRef[c] = g => ~Actionable(c)
  /\ ~overlapped
  /\ told' = told \cup {g}
  /\ early' = IF \E c \in Cases : gatewayRef[c] = g THEN early ELSE early \cup {g}
  /\ UNCHANGED <<method, sliceRefunds, order, caseVars, refundVars, gateway, req, overlapped, lost>>

BookFailure(r) ==
  /\ req[r].op = "event"
  /\ ~req[r].terminal
  /\ ~Open(req[r].case)
  /\ refund' = [refund EXCEPT ![req[r].case] = "FAILED"]
  /\ told' = Told(req[r].ref)
  /\ End(r)
  /\ UNCHANGED <<method, sliceRefunds, order, caseVars, amount, gatewayRef, completions, gateway, early, overlapped, lost>>

-----------------------------------------------------------------------------
(* The transaction of a completed refund, of either handler, and             *)
(* applyRefundTerminalEffects.                                               *)

AnyReport(r) == TRUE   \* mutation: a refund that was taken, or failed, closes the case
Successful(r) == req[r].terminal

Asked(c) == MapThenSumSet(LAMBDA d : amount[d], Cases)   \* mutation: refunds still in flight count
CompletedWith(c) ==
  sliceRefunds + amount[c]
    + MapThenSumSet(LAMBDA d : amount[d], {d \in Cases \ {c} : refund[d] = "COMPLETED"})

CountCompleted(r) ==
  /\ req[r].op \in {"book", "event"}
  /\ Successful(r)
  /\ ~Open(req[r].case)
  /\ \E full \in BOOLEAN :
       /\ full = (CompletedWith(req[r].case) >= GrandTotal)
       /\ Proceed(r, [op |-> "close", case |-> req[r].case, ref |-> req[r].ref,
                      event |-> req[r].op = "event", full |-> full])
  /\ UNCHANGED <<method, sliceRefunds, order, caseVars, refundVars, gatewayVars, overlapped, lost>>

CommitClose(r) ==
  /\ req[r].op = "close"
  /\ LET c == req[r].case IN
       /\ refund' = [refund EXCEPT ![c] = "COMPLETED"]
       /\ gatewayRef' = [gatewayRef EXCEPT ![c] = IF req[r].event THEN @ ELSE req[r].ref]
       /\ ret' = [ret EXCEPT ![c] = "COMPLETED"]
       /\ completions' = [completions EXCEPT ![c] = @ + 1]
  /\ order' = IF req[r].full THEN "REFUNDED" ELSE order
  /\ told' = IF req[r].event THEN Told(req[r].ref) ELSE told
  /\ End(r)
  /\ UNCHANGED <<method, sliceRefunds, remedy, pick, result, issued, amount, gateway, early, overlapped, lost>>

-----------------------------------------------------------------------------
(* The gateway finishes a refund it has taken.                               *)
Settle(g) ==
  /\ gateway[g].state = "PROCESSING"
  /\ \E state \in {"PROCESSED", "FAILED"} : gateway' = [gateway EXCEPT ![g].state = state]
  /\ UNCHANGED <<method, sliceRefunds, order, caseVars, refundVars, told, early, req, overlapped, lost>>

Call(r) ==
  \/ ReadRequest(r)
  \/ \E c \in Cases :
       \/ CommitRequest(r, c) \/ ReadStep(r, c) \/ ReadInspect(r, c)
       \/ ReadInitiate(r, c) \/ ReadComplete(r, c)
       \/ \E g \in GatewayRefunds : ReadEvent(r, g, c)
  \/ \E g \in GatewayRefunds : CallGateway(r, g)
  \/ CommitStep(r) \/ (\E found \in Found : CommitInspect(r, found)) \/ CommitInitiate(r)
  \/ BookProcessing(r) \/ BookFailure(r) \/ CountCompleted(r) \/ CommitClose(r)
  \/ Drop(r)

Next ==
  \/ \E r \in Requests : Call(r)
  \/ \E g \in GatewayRefunds : Settle(g) \/ Dismiss(g)

Spec == Init /\ [][Next]_vars

-----------------------------------------------------------------------------
(* The rows, the gateway's records and the calls in flight are well formed. *)
TypeOK ==
  /\ method \in {"GATEWAY", "COD"}
  /\ sliceRefunds \in Nat
  /\ order \in {"DELIVERED", "REFUNDED"}
  /\ ret \in [Cases -> ReturnStatus]
  /\ remedy \in [Cases -> Remedies]
  /\ pick \in [Cases -> [Items -> Nat]]
  /\ result \in [Cases -> Found]
  /\ issued \subseteq Cases
  /\ refund \in [Cases -> RefundState]
  /\ amount \in [Cases -> Nat]
  /\ gatewayRef \in [Cases -> GatewayRefunds \cup {None}]
  /\ completions \in [Cases -> Nat]
  /\ gateway \in [GatewayRefunds -> [case : Cases \cup {None}, state : GatewayStates]]
  /\ told \subseteq GatewayRefunds
  /\ early \subseteq told
  /\ req \in [Requests -> Request]
  /\ overlapped \in BOOLEAN
  /\ lost \in Nat

Taken(c) == {g \in GatewayRefunds : gateway[g].case = c}
InHand(c) == \/ \E g \in Taken(c) : gateway[g].state = "PROCESSED"
             \/ method = "COD" /\ completions[c] > 0
Inspected(c) == ret[c] # "NONE" /\ Complete(c, result[c])

(* The gateway is never asked for the money of goods that have not all been *)
(* picked up and inspected, although every status on the way is written by  *)
(* id after an outdated check.                                              *)
GoodsBeforeMoney ==
  \A c \in Cases : Taken(c) # {} \/ completions[c] > 0 => Inspected(c)

(* A return that counts as completed, and whose sellers were debited, is    *)
(* one whose buyer has the money: an event that came too late, twice or out *)
(* of order completes nothing that failed.                                  *)
MoneyBeforeBooks ==
  \A c \in Cases : completions[c] > 0 \/ ret[c] = "COMPLETED" => InHand(c)

(* An order counts as REFUNDED only when the refunds of returns that        *)
(* reached the buyer make up, with the rows of its resolved slices, its     *)
(* grand total, whatever the sum of an open transaction missed.             *)
RefundedIsCovered ==
  order = "REFUNDED" =>
    sliceRefunds + MapThenSumSet(LAMBDA c : amount[c], {c \in Cases : InHand(c)}) >= GrandTotal

(* An event about a refund that the books still call PROCESSING is only     *)
(* swallowed when it overtook the call that stores its reference, or calls  *)
(* overlapped.                                                              *)
NoEventSwallowed ==
  ~overlapped =>
    \A c \in Cases : refund[c] = "PROCESSING" /\ gatewayRef[c] \in told => gatewayRef[c] \in early

(* As long as calls follow one another, whatever the gateway does and       *)
(* however often it reports: nothing is returned twice, refunded twice or   *)
(* debited twice, all the refunds of the order stay within its grand total, *)
(* a completed return closes it when they reach it, and money leaves twice  *)
(* only after an answer of the gateway was lost.                            *)
OneAtATime ==
  ~overlapped =>
    /\ \A i \in Items : Used(i) <= Bought[i]
    /\ AmountIn(ToRefund) <= GrandTotal
    /\ \A c \in Cases : completions[c] <= 1 /\ Cardinality(Taken(c)) <= 1 + lost
    /\ order = "REFUNDED" <=>
         AmountIn({"COMPLETED"}) >= GrandTotal /\ \E c \in Cases : refund[c] = "COMPLETED"

(* The refunds of an order add up to what is due: both for the order that is *)
(* called REFUNDED and, as long as calls follow one another, for each return.*)
RefundsAreDue == RefundedIsCovered /\ OneAtATime

(* The handlers implement the contract: goods, then money, then books.      *)
Contract ==
  INSTANCE RefundContract WITH
    inspected   <- {c \in Cases : Inspected(c)},
    paid        <- {c \in Cases : InHand(c)},
    closed      <- {c \in Cases : completions[c] > 0},
    orderClosed <- order = "REFUNDED"

ContractSpec == Contract!Spec

-----------------------------------------------------------------------------
(* Stated by the code, and not kept by it. *)

(* "On refund.failed the Refund + txn are FAILED (with reason) and the      *)
(* request is left APPROVED_FOR_REFUND so the operator can retry": a case   *)
(* with a failed refund can be initiated or completed again.                *)
FailedRefundCanBeRetried ==
  \A c \in Cases :
    (refund[c] = "FAILED" /\ ret[c] = "APPROVED_FOR_REFUND") => MayInitiate(c) \/ MayComplete(c)

(* "idempotent on the refund reference": a case is paid once.               *)
RefundPaidOnce == \A c \in Cases : Cardinality(Taken(c)) <= 1

(* "For a PREPAID order the customer is refunded this slice's grand-total   *)
(* share": an order counts as REFUNDED only when its total has reached the  *)
(* buyer through the gateway or as cash.                                    *)
RefundedIsInHand ==
  order = "REFUNDED" =>
    MapThenSumSet(LAMBDA c : amount[c], {c \in Cases : InHand(c)}) >= GrandTotal

(* "Record inspection results for provided return items. When every item    *)
(* has a result the request finalises": a request under inspection can take *)
(* the results that are missing.                                            *)
InspectionCanBeFinished ==
  \A c \in Cases : ret[c] = "INSPECTION" => MayInspect(c)
=============================================================================
