--------------------------- MODULE OrderLifecycle ---------------------------
(***************************************************************************)
(* One order and its seller slices, under the concurrent requests of       *)
(* OrderService, FulfilmentService, SellerOpsService and CodService and    *)
(* the payment webhook.                                                    *)
(*                                                                         *)
(* A handler reads rows with no lock, decides, and then runs a database    *)
(* transaction; between the two, any other request may commit.  So a       *)
(* request is a slot of req: a Read... action fills it with what the       *)
(* handler keeps from its reads, a Commit... action is its transaction,    *)
(* which runs at READ COMMITTED and sees the rows as they are then.  A     *)
(* transaction is one step, except where it decides on rows it has not     *)
(* locked (the refund aggregate of resolveRejectedSlice).  Answers of      *)
(* sellers and webhooks have no earlier read that matters: one step each.  *)
(***************************************************************************)
EXTENDS Naturals, FiniteSets, FiniteSetsExt

CONSTANTS
  Slices,       \* seller_orders of the order, one per seller
  Requests,     \* HTTP requests that may be in flight at the same time
  Method,       \* the order's paymentMethod
  SliceTotal,   \* grandTotal of each slice
  MaxAttempts   \* wrong codes that reject a COD verification (5 in the code)

ASSUME OrderAssumption ==
  /\ IsFiniteSet(Slices)
  /\ Method \in {"PREPAID", "COD"}
  /\ SliceTotal \in [Slices -> Nat]
  /\ MaxAttempts \in Nat \ {0}

VARIABLES
  order,      \* orders.status
  payStatus,  \* orders.paymentStatus
  payment,    \* payments.state ("NONE": a COD order has no payment row)
  cleared,    \* a CAPTURE transaction, or the OTP-verified history row, exists
  cod,        \* cod_verifications.status ("NONE": no row yet)
  attempts,   \* cod_verifications.otpAttempts
  slice,      \* seller_orders.status
  released,   \* how often the stock of a slice's items was put back
  refunds,    \* how many COMPLETED refund rows a slice has
  delivered,  \* slices whose deliveredAt is set
  payables,   \* slices with a seller_payables row (unique sellerOrderId)
  req         \* the requests in flight

payVars   == <<payStatus, payment, cleared>>
codVars   == <<cod, attempts>>
sliceVars == <<slice, released, refunds>>
doneVars  == <<delivered, payables>>
rows      == <<order, payVars, codVars, sliceVars, doneVars>>
vars      == <<rows, req>>

-----------------------------------------------------------------------------
(* Statuses.  RETURN_REQUESTED, RETURNED, REFUND_PENDING and REFUNDED come  *)
(* after DELIVERED and belong to the returns flow.                          *)

OrderStatus == {"PLACED", "CONFIRMED", "PACKED", "SHIPPED",
                "OUT_FOR_DELIVERY", "DELIVERED", "CANCELLED"}
PaymentStatus == {"PENDING", "PAID", "FAILED", "COD_PENDING", "COD_PAID", "COD_FAILED"}
SliceStatus == {"PLACED", "ACCEPTED", "REJECTED", "CANCELLED"}
CodStatus == {"NONE", "PENDING_CUSTOMER_OTP", "CONFIRMED", "REJECTED", "EXPIRED"}

Forward ==      \* the NEXT table of FulfilmentService
  [PLACED           |-> {"CONFIRMED"},
   CONFIRMED        |-> {"PACKED"},
   PACKED           |-> {"SHIPPED"},
   SHIPPED          |-> {"OUT_FOR_DELIVERY", "DELIVERED"},
   OUT_FOR_DELIVERY |-> {"DELIVERED"},
   DELIVERED        |-> {},
   CANCELLED        |-> {}]

ShipmentStages == {"SHIPPED", "OUT_FOR_DELIVERY", "DELIVERED"}
CancellablePacked == {"PLACED", "CONFIRMED", "PACKED"}  \* mutation: one stage too late
Cancellable    == {"PLACED", "CONFIRMED"}
Resolvable     == {"PLACED", "CONFIRMED", "PACKED"}

Idle == [op |-> "idle"]

Request ==
       [op : {"idle", "cancel", "otpReject", "otpExpire", "otpConfirm"}]
  \cup [op : {"otpWrong"}, attempts : Nat]
  \cup [op : {"otpIssue"}, fresh : BOOLEAN]
  \cup [op : {"resolve", "refund"}, slice : Slices]
  \cup [op : {"advance"}, from : OrderStatus, to : OrderStatus, ships : BOOLEAN]

-----------------------------------------------------------------------------
(* What checkout and buyNow leave behind: a PLACED order whose slices are   *)
(* PLACED, and a payment intent when it is PREPAID.                         *)
Init ==
  /\ order = "PLACED"
  /\ payStatus = IF Method = "COD" THEN "COD_PENDING" ELSE "PENDING"
  /\ payment = IF Method = "COD" THEN "NONE" ELSE "INITIATED"
  /\ cleared = FALSE
  /\ cod = "NONE"
  /\ attempts = 0
  /\ slice = [s \in Slices |-> "PLACED"]
  /\ released = [s \in Slices |-> 0]
  /\ refunds = [s \in Slices |-> 0]
  /\ delivered = {}
  /\ payables = {}
  /\ req = [r \in Requests |-> Idle]

Begin(r, snapshot) ==   \* the reads of a handler end
  /\ req[r] = Idle
  /\ req' = [req EXCEPT ![r] = snapshot]
  /\ UNCHANGED rows

End(r) == req' = [req EXCEPT ![r] = Idle]

(* A guarded write that matches no row, a refused cap, a database error or  *)
(* a process that dies: the transaction rolls back.                         *)
Abort(r) ==
  /\ req[r] # Idle
  /\ End(r)
  /\ UNCHANGED rows

-----------------------------------------------------------------------------
(* SellerOpsService: one guarded updateMany each.  The order's own status   *)
(* is not looked at.                                                        *)

SecondThoughts(s, answer) ==  \* mutation: an accepted slice may still be declined
  /\ slice[s] \in {"PLACED", "ACCEPTED"}
  /\ slice' = [slice EXCEPT ![s] = answer]
  /\ UNCHANGED <<order, payVars, codVars, released, refunds, doneVars, req>>
Answer(s, answer) ==
  /\ slice[s] = "PLACED"
  /\ slice' = [slice EXCEPT ![s] = answer]
  /\ UNCHANGED <<order, payVars, codVars, released, refunds, doneVars, req>>

Accept(s) == Answer(s, "ACCEPTED")
Reject(s) == Answer(s, "REJECTED")

-----------------------------------------------------------------------------
(* Stock of the items of the slices in S is incremented by what they took.  *)

ReturnStock(S) ==
  released' = [s \in Slices |-> IF s \in S THEN released[s] + 1 ELSE released[s]]

-----------------------------------------------------------------------------
(* OrderService.cancelOrder *)

ReadCancel(r) == order \in Cancellable /\ Begin(r, [op |-> "cancel"])

(* The transaction of resolveRejectedSlice holds the row lock of its slice  *)
(* until it commits: a writer of that row waits.                            *)
Locked(s) == \E q \in Requests : req[q].op = "refund" /\ req[q].slice = s

OnlyAnswered == {s \in Slices : slice[s] = "ACCEPTED"}  \* mutation: open slices forgotten
ToRelease == {s \in Slices : slice[s] # "CANCELLED"}

(* Every slice that is not CANCELLED yet becomes so, and only the stock of  *)
(* those slices goes back.  A captured payment stays captured.              *)
CommitCancel(r) ==
  /\ req[r].op = "cancel"
  /\ order \in Cancellable
  /\ \A s \in ToRelease : ~Locked(s)
  /\ order' = "CANCELLED"
  /\ slice' = [s \in Slices |-> "CANCELLED"]
  /\ ReturnStock(ToRelease)
  /\ End(r)
  /\ UNCHANGED <<payVars, codVars, refunds, doneVars>>

-----------------------------------------------------------------------------
(* OrderService.resolveRejectedSlice *)

MayResolveOpen(s) ==  \* mutation: any slice that is not CANCELLED
  order \in Resolvable /\ slice[s] # "CANCELLED" /\ (Method = "PREPAID" => payStatus = "PAID")
MayResolve(s) ==
  /\ order \in Resolvable
  /\ slice[s] = "REJECTED"
  /\ Method = "PREPAID" => payStatus = "PAID"

ReadResolve(r, s) == MayResolve(s) /\ Begin(r, [op |-> "resolve", slice |-> s])

Total(f) == MapThenSumSet(LAMBDA s : f[s] * SliceTotal[s], Slices)
Refunded == Total(refunds)
GrandTotal == Total([s \in Slices |-> 1])

(* PREPAID, inside the transaction: the slice row is written (and locked),  *)
(* then the refunds committed so far are added up and held against the      *)
(* order's grand total.                                                     *)
AggregateRefunds(r) ==
  /\ req[r].op = "resolve"
  /\ Method = "PREPAID"
  /\ ~Locked(req[r].slice)
  /\ Refunded + SliceTotal[req[r].slice] <= GrandTotal
  /\ req' = [req EXCEPT ![r] = [op |-> "refund", slice |-> req[r].slice]]
  /\ UNCHANGED rows

(* The slice is written by its id alone, whatever its status is by now.     *)
CommitResolve(r) ==
  /\ req[r].op = IF Method = "PREPAID" THEN "refund" ELSE "resolve"
  /\ slice' = [slice EXCEPT ![req[r].slice] = "CANCELLED"]
  /\ ReturnStock({req[r].slice})
  /\ refunds' = IF Method = "PREPAID"
                  THEN [refunds EXCEPT ![req[r].slice] = @ + 1] ELSE refunds
  /\ End(r)
  /\ UNCHANGED <<order, payVars, codVars, doneVars>>

-----------------------------------------------------------------------------
(* FulfilmentService.advance *)

ToFulfil == {s \in Slices : slice[s] # "CANCELLED"}
Accepted == {s \in Slices : slice[s] = "ACCEPTED"}

UnpaidGate == payStatus # "FAILED"  \* mutation: pending money is good enough
ConfirmationGate ==
  IF Method = "PREPAID" THEN payStatus = "PAID" ELSE cod = "CONFIRMED"

NoneRejected == \A s \in Slices : slice[s] # "REJECTED"  \* mutation: silence is consent
ShipmentGate == ToFulfil \subseteq Accepted

ReadAdvance(r, to) ==
  /\ to \in Forward[order]
  /\ to = "CONFIRMED" => ConfirmationGate
  /\ to \in ShipmentStages => ShipmentGate
  /\ Begin(r, [op |-> "advance", from |-> order, to |-> to, ships |-> ToFulfil # {}])

(* The order row is written only if its status is the one that was read.    *)
StillAt(from) == order = from

(* SettlementService.earnDeliveredSlices: a payable for every ACCEPTED      *)
(* slice that has none.                                                     *)
EarnAllSlices == payables' = Slices  \* mutation: no status filter
EarnDeliveredSlices == payables' = payables \cup Accepted

CommitAdvance(r) ==
  /\ req[r].op = "advance"
  /\ StillAt(req[r].from)
  /\ order' = req[r].to
  /\ payStatus' = IF req[r].to = "DELIVERED" /\ Method = "COD"
                    THEN "COD_PAID" ELSE payStatus
  /\ IF req[r].to = "DELIVERED" /\ req[r].ships
       THEN delivered' = delivered \cup Accepted /\ EarnDeliveredSlices
       ELSE UNCHANGED doneVars
  /\ End(r)
  /\ UNCHANGED <<payment, cleared, codVars, sliceVars>>

-----------------------------------------------------------------------------
(* PaymentService, seen from the order (PaymentWebhook has the event log):  *)
(* a verified event of the gateway is applied.                              *)

PaymentCaptured ==
  /\ payment \in {"INITIATED", "FAILED"}
  /\ payment' = "CONFIRMED"
  /\ payStatus' = "PAID"
  /\ cleared' = TRUE
  /\ UNCHANGED <<order, codVars, sliceVars, doneVars, req>>

PaymentFailed ==
  /\ payment # "NONE"
  /\ payment' = "FAILED"
  /\ payStatus' = "FAILED"
  /\ UNCHANGED <<order, cleared, codVars, sliceVars, doneVars, req>>

-----------------------------------------------------------------------------
(* CodService.  Both handlers begin with ownCodOrder. *)

OwnCodOrder == Method = "COD" /\ order # "CANCELLED"

ReadIssueOtp(r) ==
  /\ OwnCodOrder
  /\ cod # "CONFIRMED"
  /\ Begin(r, [op |-> "otpIssue", fresh |-> cod = "NONE"])

(* update if a row was read, else create, which fails on the unique orderId *)
(* when another request has created one meanwhile.                          *)
CommitIssueOtp(r) ==
  /\ req[r].op = "otpIssue"
  /\ req[r].fresh => cod = "NONE"
  /\ cod' = "PENDING_CUSTOMER_OTP"
  /\ attempts' = 0
  /\ End(r)
  /\ UNCHANGED <<order, payVars, sliceVars, doneVars>>

(* What verifyOtp decides on the row it read: the code is right or wrong,   *)
(* in time or not.                                                          *)
VerifyDecision ==
  IF attempts >= MaxAttempts THEN {[op |-> "otpReject"]}
  ELSE {[op |-> "otpExpire"], [op |-> "otpConfirm"]} \cup
       (IF attempts + 1 >= MaxAttempts
          THEN {[op |-> "otpReject"]}
          ELSE {[op |-> "otpWrong", attempts |-> attempts + 1]})

ReadVerifyOtp(r) ==
  /\ OwnCodOrder
  /\ cod = "PENDING_CUSTOMER_OTP"
  /\ \E decision \in VerifyDecision : Begin(r, decision)

CommitWrongCode(r) ==
  /\ req[r].op = "otpWrong"
  /\ attempts' = req[r].attempts
  /\ End(r)
  /\ UNCHANGED <<order, payVars, cod, sliceVars, doneVars>>

CommitExpire(r) ==
  /\ req[r].op = "otpExpire"
  /\ cod' = "EXPIRED"
  /\ End(r)
  /\ UNCHANGED <<order, payVars, attempts, sliceVars, doneVars>>

CommitRejectCod(r) ==
  /\ req[r].op = "otpReject"
  /\ cod' = "REJECTED"
  /\ payStatus' = "COD_FAILED"
  /\ End(r)
  /\ UNCHANGED <<order, payment, cleared, attempts, sliceVars, doneVars>>

(* The right code confirms the order by its id alone, whatever its status   *)
(* is by now.                                                               *)
CommitConfirmCod(r) ==
  /\ req[r].op = "otpConfirm"
  /\ cod' = "CONFIRMED"
  /\ attempts' = attempts + 1
  /\ order' = "CONFIRMED"
  /\ payStatus' = "COD_PENDING"
  /\ cleared' = TRUE
  /\ End(r)
  /\ UNCHANGED <<payment, sliceVars, doneVars>>

-----------------------------------------------------------------------------
Customer(r) == ReadCancel(r) \/ CommitCancel(r)
Operator(r) ==
  \/ \E s \in Slices : ReadResolve(r, s)
  \/ AggregateRefunds(r) \/ CommitResolve(r)
  \/ \E to \in OrderStatus : ReadAdvance(r, to)
  \/ CommitAdvance(r)
Otp(r) ==
  \/ ReadIssueOtp(r) \/ CommitIssueOtp(r) \/ ReadVerifyOtp(r)
  \/ CommitWrongCode(r) \/ CommitExpire(r) \/ CommitRejectCod(r) \/ CommitConfirmCod(r)

Next ==
  \/ \E s \in Slices : Accept(s) \/ Reject(s)
  \/ \E r \in Requests : Customer(r) \/ Operator(r) \/ Otp(r) \/ Abort(r)
  \/ PaymentCaptured \/ PaymentFailed

Spec == Init /\ [][Next]_vars

-----------------------------------------------------------------------------
(* Types of the rows and of the requests in flight. *)
TypeOK ==
  /\ order \in OrderStatus
  /\ payStatus \in PaymentStatus
  /\ payment \in {"NONE", "INITIATED", "CONFIRMED", "FAILED"}
  /\ cleared \in BOOLEAN
  /\ cod \in CodStatus
  /\ attempts \in Nat
  /\ slice \in [Slices -> SliceStatus]
  /\ released \in [Slices -> Nat]
  /\ refunds \in [Slices -> Nat]
  /\ delivered \subseteq Slices
  /\ payables \subseteq Slices
  /\ req \in [Requests -> Request]

(* The per-seller acceptance gate is read before the transaction that ships,*)
(* yet no order is ever on its way with a slice whose seller has not        *)
(* accepted it, unless that slice was dropped.                              *)
AcceptedBeforeShipment ==
  order \in ShipmentStages => \A s \in Slices : slice[s] \in {"ACCEPTED", "CANCELLED"}

(* An order is CONFIRMED, or further, only when the capture of its money or *)
(* its OTP verification is on record, however late the confirmation that    *)
(* saw it commits.                                                          *)
ClearedBeforeConfirmation ==
  order \in {"CONFIRMED", "PACKED"} \cup ShipmentStages => cleared

(* Cancelling the order and resolving a rejected slice race each other, and *)
(* still a slice is CANCELLED exactly when its stock was put back: no stock *)
(* is lost, and none comes back for goods that may still ship.              *)
CancelledIffReleased ==
  \A s \in Slices : slice[s] = "CANCELLED" <=> released[s] > 0

(* The buyer is never given back the money of a slice whose seller is paid  *)
(* for it, whatever resolutions were in flight when the order moved on.     *)
RefundedNotPaidOut ==
  \A s \in Slices : refunds[s] > 0 => slice[s] = "CANCELLED" /\ s \notin payables

(* The reconciliation rules of SettlementService: a delivered order owes a  *)
(* payable for each of its ACCEPTED slices and for no other one, and an     *)
(* order that is not delivered owes none.                                   *)
DeliveryPaysAccepted ==
  payables = IF order = "DELIVERED" THEN Accepted ELSE {}

(* A PREPAID order only moves along the NEXT table or is cancelled before   *)
(* it is packed: two operators, or an operator and the customer, who read   *)
(* the same status never both have their way.                               *)
ForwardOnly ==
  [][\/ order' \in Forward[order]
     \/ order \in {"PLACED", "CONFIRMED"} /\ order' = "CANCELLED"]_order

(* What a handler has read and relies on still holds while its transaction  *)
(* is pending, whoever commits first: the slice it will drop was declined,  *)
(* and the gates it passed have not closed behind it.                       *)
GoodRead(q) ==
  /\ q.op \in {"resolve", "refund"} => slice[q.slice] \in {"REJECTED", "CANCELLED"}
  /\ q.op = "advance" =>
       /\ q.to \in Forward[q.from]
       /\ q.to = "CONFIRMED" => cleared
       /\ q.to \in ShipmentStages =>
            \A s \in Slices : slice[s] \in IF q.ships THEN {"ACCEPTED", "CANCELLED"}
                                                      ELSE {"CANCELLED"}

ReadsStayGood == \A r \in Requests : GoodRead(req[r])

(* The handlers with their stale reads implement the atomic contract.       *)
Contract == INSTANCE OrderContract
ContractSpec == Contract!Spec

-----------------------------------------------------------------------------
(* Stated by the code, and not kept by it. *)

(* "never double-release an item": the stock of a slice comes back at most  *)
(* once.                                                                    *)
StockReleasedOnce == \A s \in Slices : released[s] <= 1

(* "Legal forward transitions": nothing follows CANCELLED.                  *)
CancelledIsFinal == [][order # "CANCELLED"]_order
=============================================================================
