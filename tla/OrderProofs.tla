----------------------------- MODULE OrderProofs -----------------------------
(***************************************************************************)
(* Safety of OrderLifecycle for any number of slices and of requests in    *)
(* flight, either payment method, any prices and any attempt limit; what   *)
(* more holds of a PREPAID order; and the last mile of CourierDelivery,    *)
(* which extends it by the couriers' steps.                                *)
(***************************************************************************)
EXTENDS CourierDelivery, TLAPS

USE OrderAssumption

(* The fields a pending request has, by its operation.                      *)
LEMMA RequestFields ==
  ASSUME NEW q \in Request
  PROVE  /\ q.op \in {"resolve", "refund"} => q.slice \in Slices
         /\ q.op = "advance" => /\ q.from \in OrderStatus
                                /\ q.to \in OrderStatus
                                /\ q.ships \in BOOLEAN
         /\ q.op = "otpWrong" => q.attempts \in Nat
         /\ q.op = "otpIssue" => q.fresh \in BOOLEAN
BY DEF Request

(* The records the Read actions build are requests.                         *)
LEMMA RequestShapes ==
  /\ Idle \in Request
  /\ [op |-> "cancel"] \in Request
  /\ \A s \in Slices : /\ [op |-> "resolve", slice |-> s] \in Request
                       /\ [op |-> "refund", slice |-> s] \in Request
  /\ \A from, to \in OrderStatus, b \in BOOLEAN :
       [op |-> "advance", from |-> from, to |-> to, ships |-> b] \in Request
  /\ \A b \in BOOLEAN : [op |-> "otpIssue", fresh |-> b] \in Request
  /\ \A n \in Nat : [op |-> "otpWrong", attempts |-> n] \in Request
  /\ [op |-> "otpReject"] \in Request
  /\ [op |-> "otpExpire"] \in Request
  /\ [op |-> "otpConfirm"] \in Request
BY DEF Request, Idle

(* verifyOtp leaves its read phase with a request of a known shape.         *)
LEMMA DecisionShape ==
  ASSUME attempts \in Nat, NEW d \in VerifyDecision
  PROVE  d \in Request
BY RequestShapes DEF VerifyDecision

(* Checkout writes well-typed rows.                                         *)
LEMMA TypeInit ==
  ASSUME Init
  PROVE  TypeOK
<1> USE DEF Init
<1>1. /\ order \in OrderStatus
      /\ payStatus \in PaymentStatus
      /\ payment \in {"NONE", "INITIATED", "CONFIRMED", "FAILED"}
      /\ cod \in CodStatus
  BY DEF OrderStatus, PaymentStatus, CodStatus
<1>2. /\ slice \in [Slices -> SliceStatus]
      /\ released \in [Slices -> Nat]
      /\ refunds \in [Slices -> Nat]
  BY DEF SliceStatus
<1>3. req \in [Requests -> Request]
  BY RequestShapes
<1> QED BY <1>1, <1>2, <1>3 DEF TypeOK

(* Every handler keeps them so.                                             *)
LEMMA TypeStep == TypeOK /\ [Next]_vars => TypeOK'
<1> SUFFICES ASSUME TypeOK, [Next]_vars PROVE TypeOK'
  OBVIOUS
<1> USE DEF TypeOK, rows, payVars, codVars, sliceVars, doneVars, Begin, End
<1>1. CASE UNCHANGED vars
  BY <1>1 DEF vars
<1>2. ASSUME NEW s \in Slices, Accept(s) \/ Reject(s) PROVE TypeOK'
  BY <1>2 DEF Accept, Reject, Answer, SliceStatus
<1>3. ASSUME NEW r \in Requests, Customer(r) PROVE TypeOK'
  <2>1. CASE ReadCancel(r)
    BY <2>1, RequestShapes DEF ReadCancel
  <2>2. CASE CommitCancel(r)
    <3>1. /\ slice' \in [Slices -> SliceStatus]
          /\ order' \in OrderStatus
      BY <2>2 DEF CommitCancel, SliceStatus, OrderStatus
    <3>2. released' \in [Slices -> Nat]
      BY <2>2 DEF CommitCancel, ReturnStock
    <3>3. req' \in [Requests -> Request]
      BY <2>2, RequestShapes DEF CommitCancel
    <3> QED BY <2>2, <3>1, <3>2, <3>3 DEF CommitCancel
  <2> QED BY <1>3, <2>1, <2>2 DEF Customer
<1>4. ASSUME NEW r \in Requests, Operator(r) PROVE TypeOK'
  <2>1. ASSUME NEW s \in Slices, ReadResolve(r, s) PROVE TypeOK'
    BY <2>1, RequestShapes DEF ReadResolve
  <2>2. CASE AggregateRefunds(r)
    BY <2>2, RequestShapes, RequestFields DEF AggregateRefunds
  <2>3. CASE CommitResolve(r)
    BY <2>3, RequestShapes, RequestFields DEF CommitResolve, ReturnStock, SliceStatus
  <2>4. ASSUME NEW to \in OrderStatus, ReadAdvance(r, to) PROVE TypeOK'
    BY <2>4, RequestShapes DEF ReadAdvance
  <2>5. CASE CommitAdvance(r)
    BY <2>5, RequestShapes, RequestFields DEF CommitAdvance, EarnDeliveredSlices, Accepted, PaymentStatus
  <2> QED BY <1>4, <2>1, <2>2, <2>3, <2>4, <2>5 DEF Operator
<1>5. ASSUME NEW r \in Requests, Otp(r) PROVE TypeOK'
  <2>1. CASE ReadIssueOtp(r)
    BY <2>1, RequestShapes DEF ReadIssueOtp
  <2>2. CASE ReadVerifyOtp(r)
    BY <2>2, DecisionShape DEF ReadVerifyOtp
  <2>3. CASE CommitIssueOtp(r) \/ CommitExpire(r) \/ CommitRejectCod(r)
    BY <2>3, RequestShapes DEF CommitIssueOtp, CommitExpire, CommitRejectCod,
       CodStatus, PaymentStatus
  <2>5. CASE CommitConfirmCod(r)
    <3>1. attempts' \in Nat
      BY <2>5 DEF CommitConfirmCod
    <3>2. cod' \in CodStatus /\ order' \in OrderStatus /\ payStatus' \in PaymentStatus
      BY <2>5 DEF CommitConfirmCod, CodStatus, OrderStatus, PaymentStatus
    <3> QED BY <2>5, <3>1, <3>2, RequestShapes DEF CommitConfirmCod
  <2>4. CASE CommitWrongCode(r)
    BY <2>4, RequestShapes, RequestFields DEF CommitWrongCode
  <2> QED BY <1>5, <2>1, <2>2, <2>3, <2>4, <2>5 DEF Otp
<1>6. ASSUME NEW r \in Requests, Abort(r) PROVE TypeOK'
  BY <1>6, RequestShapes DEF Abort
<1>7. CASE PaymentCaptured \/ PaymentFailed
  BY <1>7 DEF PaymentCaptured, PaymentFailed, PaymentStatus
<1> QED BY <1>1, <1>2, <1>3, <1>4, <1>5, <1>6, <1>7 DEF Next

(* Rows and pending requests keep their types: no handler writes a status   *)
(* outside its enum or a negative counter.                                  *)
THEOREM TypeCorrect == Spec => []TypeOK
BY TypeInit, TypeStep, PTL DEF Spec

-----------------------------------------------------------------------------
(* The inductive invariant.  AcceptedBeforeShipment is not inductive: the   *)
(* transaction that ships looks at the order row alone.  What is missing is *)
(* that the gate it passed earlier cannot have closed since, ReadsStayGood, *)
(* and that holds because slices only ever move one way, SliceStep.         *)

Clearance ==
  /\ payStatus = "PAID" => cleared
  /\ cod = "CONFIRMED" => cleared

IInv ==
  /\ TypeOK
  /\ AcceptedBeforeShipment
  /\ ClearedBeforeConfirmation
  /\ CancelledIffReleased
  /\ ReadsStayGood
  /\ Clearance

SliceStep ==
  /\ cleared => cleared'
  /\ \A s \in Slices :
       /\ slice[s] \in {"REJECTED", "CANCELLED"} => slice'[s] \in {"REJECTED", "CANCELLED"}
       /\ slice[s] \in {"ACCEPTED", "CANCELLED"} => slice'[s] \in {"ACCEPTED", "CANCELLED"}
       /\ slice[s] = "CANCELLED" => slice'[s] = "CANCELLED"

(* A declined slice never becomes accepted, an accepted one never becomes   *)
(* declined, CANCELLED is final, and clearance is never withdrawn.          *)
LEMMA SlicesMoveOneWay == IInv /\ [Next]_vars => SliceStep
<1> SUFFICES ASSUME IInv, [Next]_vars PROVE SliceStep
  OBVIOUS
<1> USE DEF IInv, TypeOK, SliceStep, rows, payVars, codVars, sliceVars, doneVars, Begin, End
<1>1. CASE UNCHANGED vars
  BY <1>1 DEF vars
<1>2. ASSUME NEW s \in Slices, Accept(s) \/ Reject(s) PROVE SliceStep
  BY <1>2 DEF Accept, Reject, Answer
<1>3. ASSUME NEW r \in Requests, Customer(r) PROVE SliceStep
  BY <1>3 DEF Customer, ReadCancel, CommitCancel
<1>4. ASSUME NEW r \in Requests, Operator(r) PROVE SliceStep
  <2>1. CASE CommitResolve(r)
    <3>1. slice[req[r].slice] \in {"REJECTED", "CANCELLED"}
      BY <2>1 DEF CommitResolve, ReadsStayGood, GoodRead
    <3> QED BY <2>1, <3>1 DEF CommitResolve
  <2>2. CASE UNCHANGED <<slice, cleared>>
    BY <2>2
  <2> QED BY <1>4, <2>1, <2>2
          DEF Operator, ReadResolve, AggregateRefunds, ReadAdvance, CommitAdvance
<1>5. ASSUME NEW r \in Requests, Otp(r) \/ Abort(r) PROVE SliceStep
  BY <1>5 DEF Otp, Abort, ReadIssueOtp, CommitIssueOtp, ReadVerifyOtp, CommitWrongCode,
     CommitExpire, CommitRejectCod, CommitConfirmCod
<1>6. CASE PaymentCaptured \/ PaymentFailed
  BY <1>6 DEF PaymentCaptured, PaymentFailed
<1> QED BY <1>1, <1>2, <1>3, <1>4, <1>5, <1>6 DEF Next

(* So what a handler may rely on is never taken away by another step.       *)
LEMMA GoodReadsLast ==
  ASSUME TypeOK, SliceStep, NEW q \in Request, GoodRead(q)
  PROVE  GoodRead(q)'
BY RequestFields DEF SliceStep, GoodRead, TypeOK

(* Whatever a step does to its own slot, the other requests keep theirs.    *)
LEMMA OtherReadsStayGood ==
  ASSUME IInv, SliceStep, TypeOK', NEW r \in Requests,
         \A q \in Requests : q = r \/ req'[q] = req[q],
         GoodRead(req[r])'
  PROVE  ReadsStayGood'
<1> SUFFICES ASSUME NEW q \in Requests PROVE GoodRead(req[q])'
  BY DEF ReadsStayGood
<1>1. CASE q = r
  BY <1>1
<1>2. CASE req'[q] = req[q]
  <2>1. req[q] \in Request /\ GoodRead(req[q])
    BY DEF IInv, TypeOK, ReadsStayGood
  <2>2. PICK p \in Request : p = req[q]
    BY <2>1
  <2>3. GoodRead(p)'
    BY <2>1, <2>2, GoodReadsLast DEF IInv
  <2> QED BY <1>2, <2>2, <2>3 DEF GoodRead
<1> QED BY <1>1, <1>2

(* A free slot relies on nothing.                                           *)
LEMMA IdleIsGood == GoodRead(Idle) /\ GoodRead(Idle)'
BY DEF GoodRead, Idle

(* A request that only changes its own slot, to something harmless.         *)
LEMMA PendingStep ==
  ASSUME IInv, TypeOK', NEW r \in Requests, UNCHANGED rows,
         NEW q \in Request, req' = [req EXCEPT ![r] = q], GoodRead(q)
  PROVE  IInv'
<1> USE DEF rows, payVars, codVars, sliceVars, doneVars
<1>1. SliceStep
  BY DEF SliceStep
<1>2. GoodRead(req[r])'
  <2>1. req'[r] = q
    BY DEF IInv, TypeOK
  <2>2. GoodRead(q)'
    BY <1>1, GoodReadsLast DEF IInv
  <2> QED BY <2>1, <2>2 DEF GoodRead
<1>3. ReadsStayGood'
  BY <1>1, <1>2, OtherReadsStayGood DEF IInv, TypeOK
<1> QED BY <1>3 DEF IInv, AcceptedBeforeShipment, ClearedBeforeConfirmation,
        CancelledIffReleased, Clearance

(* A transaction ends and frees its slot.                                   *)
LEMMA EndKeepsReads ==
  ASSUME IInv, SliceStep, TypeOK', NEW r \in Requests, End(r)
  PROVE  ReadsStayGood'
<1>1. req'[r] = Idle /\ \A q \in Requests : q = r \/ req'[q] = req[q]
  BY DEF End, IInv, TypeOK
<1>2. GoodRead(req[r])'
  BY <1>1, IdleIsGood DEF GoodRead
<1> QED BY <1>1, <1>2, OtherReadsStayGood

(* A step outside every request leaves all their reads good.                *)
LEMMA SameReads ==
  ASSUME IInv, SliceStep, TypeOK', req' = req
  PROVE  ReadsStayGood'
<1> SUFFICES ASSUME NEW r \in Requests PROVE GoodRead(req[r])'
  BY DEF ReadsStayGood
<1>1. req[r] \in Request /\ GoodRead(req[r])
  BY DEF IInv, TypeOK, ReadsStayGood
<1>2. PICK p \in Request : p = req[r]
  BY <1>1
<1>3. GoodRead(p)'
  BY <1>1, <1>2, GoodReadsLast DEF IInv
<1> QED BY <1>2, <1>3 DEF GoodRead

(* Every action preserves IInv.                                             *)
LEMMA InductiveInvariant == IInv /\ TypeOK' /\ [Next]_vars => IInv'
<1> SUFFICES ASSUME IInv, TypeOK', [Next]_vars PROVE IInv'
  OBVIOUS
<1>0. SliceStep
  BY SlicesMoveOneWay
<1> USE DEF rows, payVars, codVars, sliceVars, doneVars
<1>1. CASE UNCHANGED vars
  <2>1. ReadsStayGood'
    BY <1>0, <1>1, SameReads DEF vars
  <2> QED BY <1>1, <2>1 DEF vars, IInv, AcceptedBeforeShipment, ClearedBeforeConfirmation,
          CancelledIffReleased, Clearance
<1>2. ASSUME NEW s \in Slices, Accept(s) \/ Reject(s) PROVE IInv'
  <2> USE <1>2 DEF Accept, Reject, Answer
  <2>1. ReadsStayGood'
    BY <1>0, SameReads
  <2>2. AcceptedBeforeShipment'
    BY <1>0 DEF IInv, TypeOK, SliceStep, AcceptedBeforeShipment
  <2>3. CancelledIffReleased'
    BY DEF IInv, TypeOK, CancelledIffReleased
  <2>4. ClearedBeforeConfirmation' /\ Clearance'
    BY DEF IInv, ClearedBeforeConfirmation, Clearance
  <2> QED BY <2>1, <2>2, <2>3, <2>4 DEF IInv
<1>3. ASSUME NEW r \in Requests, Customer(r) PROVE IInv'
  <2>1. CASE ReadCancel(r)
    <3>1. GoodRead([op |-> "cancel"])
      BY DEF GoodRead
    <3> QED BY <2>1, <3>1, PendingStep, RequestShapes DEF ReadCancel, Begin
  <2>2. CASE CommitCancel(r)
    <3> USE <2>2 DEF CommitCancel
    <3>1. ReadsStayGood'
      BY <1>0, EndKeepsReads
    <3>2. AcceptedBeforeShipment' /\ ClearedBeforeConfirmation' /\ Clearance'
      BY DEF IInv, AcceptedBeforeShipment, ClearedBeforeConfirmation, Clearance, ShipmentStages
    <3>3. CancelledIffReleased'
      BY DEF IInv, TypeOK, CancelledIffReleased, ReturnStock, ToRelease
    <3> QED BY <3>1, <3>2, <3>3 DEF IInv
  <2> QED BY <1>3, <2>1, <2>2 DEF Customer
<1>4. ASSUME NEW r \in Requests, Operator(r) PROVE IInv'
  <2>1. ASSUME NEW s \in Slices, ReadResolve(r, s) PROVE IInv'
    <3>1. GoodRead([op |-> "resolve", slice |-> s])
      BY <2>1 DEF GoodRead, ReadResolve, MayResolve
    <3> QED BY <2>1, <3>1, PendingStep, RequestShapes DEF ReadResolve, Begin
  <2>2. CASE AggregateRefunds(r)
    <3>1. req[r].slice \in Slices /\ slice[req[r].slice] \in {"REJECTED", "CANCELLED"}
      BY <2>2, RequestFields DEF AggregateRefunds, IInv, TypeOK, ReadsStayGood, GoodRead
    <3>2. GoodRead([op |-> "refund", slice |-> req[r].slice])
      BY <3>1 DEF GoodRead
    <3> QED BY <2>2, <3>1, <3>2, PendingStep, RequestShapes DEF AggregateRefunds
  <2>3. CASE CommitResolve(r)
    <3> USE <2>3 DEF CommitResolve
    <3>1. ReadsStayGood'
      BY <1>0, EndKeepsReads
    <3>2. AcceptedBeforeShipment'
      BY <1>0 DEF IInv, TypeOK, SliceStep, AcceptedBeforeShipment
    <3>3. ClearedBeforeConfirmation' /\ Clearance'
      BY DEF IInv, ClearedBeforeConfirmation, Clearance
    <3>4. CancelledIffReleased'
      <4>1. req[r].slice \in Slices
        BY RequestFields DEF IInv, TypeOK
      <4> QED BY <4>1 DEF IInv, TypeOK, CancelledIffReleased, ReturnStock
    <3> QED BY <3>1, <3>2, <3>3, <3>4 DEF IInv
  <2>4. ASSUME NEW to \in OrderStatus, ReadAdvance(r, to) PROVE IInv'
    <3> DEFINE q == [op |-> "advance", from |-> order, to |-> to, ships |-> ToFulfil # {}]
    <3>1. q \in Request
      BY RequestShapes DEF IInv, TypeOK
    <3>2. to = "CONFIRMED" => cleared
      BY <2>4 DEF ReadAdvance, ConfirmationGate, IInv, Clearance
    <3>3. to \in ShipmentStages => \A s \in Slices : slice[s] \in {"ACCEPTED", "CANCELLED"}
      BY <2>4 DEF ReadAdvance, ShipmentGate, ToFulfil, Accepted
    <3>4. ToFulfil = {} => \A s \in Slices : slice[s] = "CANCELLED"
      BY DEF ToFulfil
    <3>5. GoodRead(q)
      <4>1. q.to \in Forward[q.from]
        BY <2>4 DEF ReadAdvance
      <4> QED BY <3>2, <3>3, <3>4, <4>1 DEF GoodRead
    <3>6. req' = [req EXCEPT ![r] = q] /\ UNCHANGED rows
      BY <2>4 DEF ReadAdvance, Begin
    <3> HIDE DEF q
    <3> QED BY <3>1, <3>5, <3>6, PendingStep
  <2>5. CASE CommitAdvance(r)
    <3> USE <2>5 DEF CommitAdvance, StillAt
    <3>1. ReadsStayGood'
      BY <1>0, EndKeepsReads
    <3>2. /\ req[r] \in Request
          /\ GoodRead(req[r])
      BY DEF IInv, TypeOK, ReadsStayGood
    <3>3. AcceptedBeforeShipment'
      BY <3>2 DEF GoodRead, AcceptedBeforeShipment
    <3>4. ClearedBeforeConfirmation'
      <4>1. order' \in Forward[order] /\ (order' = "CONFIRMED" => cleared)
        BY <3>2 DEF GoodRead
      <4>2. order \in OrderStatus
        BY DEF IInv, TypeOK
      <4> QED BY <4>1, <4>2 DEF IInv, ClearedBeforeConfirmation, Forward, OrderStatus, ShipmentStages
    <3>5. CancelledIffReleased'
      BY DEF IInv, CancelledIffReleased
    <3>6. Clearance'
      BY DEF IInv, Clearance
    <3> QED BY <3>1, <3>3, <3>4, <3>5, <3>6 DEF IInv
  <2> QED BY <1>4, <2>1, <2>2, <2>3, <2>4, <2>5 DEF Operator
<1>5. ASSUME NEW r \in Requests, Otp(r) PROVE IInv'
  <2>1. CASE ReadIssueOtp(r)
    <3>1. GoodRead([op |-> "otpIssue", fresh |-> cod = "NONE"])
      BY DEF GoodRead
    <3> QED BY <2>1, <3>1, PendingStep, RequestShapes DEF ReadIssueOtp, Begin
  <2>2. CASE ReadVerifyOtp(r)
    <3>1. PICK d \in VerifyDecision : Begin(r, d)
      BY <2>2 DEF ReadVerifyOtp
    <3>2. d \in Request
      BY DecisionShape DEF IInv, TypeOK
    <3>3. GoodRead(d)
      BY DEF GoodRead, VerifyDecision
    <3> QED BY <3>1, <3>2, <3>3, PendingStep DEF Begin
  <2>3. CASE CommitIssueOtp(r) \/ CommitWrongCode(r) \/ CommitExpire(r) \/ CommitRejectCod(r)
             \/ CommitConfirmCod(r)
    <3> USE <2>3 DEF CommitIssueOtp, CommitWrongCode, CommitExpire, CommitRejectCod, CommitConfirmCod
    <3>1. ReadsStayGood'
      BY <1>0, EndKeepsReads
    <3>2. AcceptedBeforeShipment' /\ ClearedBeforeConfirmation' /\ Clearance'
      BY DEF IInv, AcceptedBeforeShipment, ClearedBeforeConfirmation, Clearance, ShipmentStages
    <3>3. CancelledIffReleased'
      BY DEF IInv, CancelledIffReleased
    <3> QED BY <3>1, <3>2, <3>3 DEF IInv
  <2> QED BY <1>5, <2>1, <2>2, <2>3 DEF Otp
<1>6. ASSUME NEW r \in Requests, Abort(r) PROVE IInv'
  BY <1>6, PendingStep, RequestShapes, IdleIsGood DEF Abort, End
<1>7. CASE PaymentCaptured \/ PaymentFailed
  <2> USE <1>7 DEF PaymentCaptured, PaymentFailed
  <2>1. ReadsStayGood'
    BY <1>0, SameReads
  <2>2. AcceptedBeforeShipment' /\ ClearedBeforeConfirmation' /\ CancelledIffReleased' /\ Clearance'
    BY DEF IInv, AcceptedBeforeShipment, ClearedBeforeConfirmation, CancelledIffReleased, Clearance
  <2> QED BY <2>1, <2>2 DEF IInv
<1> QED BY <1>1, <1>2, <1>3, <1>4, <1>5, <1>6, <1>7 DEF Next

(* What checkout leaves behind satisfies IInv.                              *)
LEMMA InitInvariant == Init /\ TypeOK => IInv
<1> SUFFICES ASSUME Init, TypeOK PROVE IInv
  OBVIOUS
<1> USE DEF Init
<1>1. AcceptedBeforeShipment /\ ClearedBeforeConfirmation /\ CancelledIffReleased /\ Clearance
  BY OrderAssumption DEF AcceptedBeforeShipment, ClearedBeforeConfirmation, CancelledIffReleased,
     Clearance, ShipmentStages
<1>2. ReadsStayGood
  BY IdleIsGood DEF ReadsStayGood
<1> QED BY <1>1, <1>2 DEF IInv

(* IInv holds in every reachable state.                                     *)
LEMMA InvariantHolds == Spec => []IInv
<1>1. Init /\ TypeOK => IInv
  BY InitInvariant
<1>2. IInv /\ TypeOK' /\ [Next]_vars => IInv'
  BY InductiveInvariant
<1> QED BY <1>1, <1>2, TypeCorrect, PTL DEF Spec

(* No order is on its way with a slice that is neither accepted nor         *)
(* dropped, for any number of sellers and of concurrent requests.           *)
THEOREM ShipmentIsAccepted == Spec => []AcceptedBeforeShipment
<1>1. IInv => AcceptedBeforeShipment
  BY DEF IInv
<1> QED BY <1>1, InvariantHolds, PTL

(* No order is confirmed before its money, or its OTP, is on record.        *)
THEOREM ConfirmationIsCleared == Spec => []ClearedBeforeConfirmation
<1>1. IInv => ClearedBeforeConfirmation
  BY DEF IInv
<1> QED BY <1>1, InvariantHolds, PTL

(* Stock comes back for exactly the slices that are cancelled.              *)
THEOREM CancellationReleases == Spec => []CancelledIffReleased
<1>1. IInv => CancelledIffReleased
  BY DEF IInv
<1> QED BY <1>1, InvariantHolds, PTL

(* What a pending transaction relies on has not changed under it.           *)
THEOREM PendingReadsAreGood == Spec => []ReadsStayGood
<1>1. IInv => ReadsStayGood
  BY DEF IInv
<1> QED BY <1>1, InvariantHolds, PTL

-----------------------------------------------------------------------------
(***************************************************************************)
(* What holds of a PREPAID order only.  A COD order is confirmed by its id *)
(* alone, whatever its status is (CommitConfirmCod); without that write an *)
(* order never goes back, its money and its payables stay consistent, and  *)
(* the handlers implement the atomic contract.                             *)
(***************************************************************************)

OtpOps == {"otpIssue", "otpWrong", "otpReject", "otpExpire", "otpConfirm"}

(* Strengthens IInv: no OTP request is ever in flight, so the order row is  *)
(* written by CommitCancel and CommitAdvance alone.                         *)
PInv ==
  /\ \A r \in Requests : req[r].op \notin OtpOps
  /\ \A s \in Slices : refunds[s] > 0 => slice[s] = "CANCELLED"
  /\ DeliveryPaysAccepted

-----------------------------------------------------------------------------
(* The one place where the status of an order is written by a guarded       *)
(* advance: it leaves the status it was read at, and never a final one.     *)
LEMMA AdvanceMoves ==
  ASSUME IInv, NEW r \in Requests, CommitAdvance(r)
  PROVE  /\ order' \in Forward[order]
         /\ order \in {"PLACED", "CONFIRMED", "PACKED", "SHIPPED", "OUT_FOR_DELIVERY"}
         /\ order' = "CONFIRMED" => cleared
         /\ order' \in ShipmentStages =>
              \A s \in Slices : slice[s] \in IF req[r].ships THEN {"ACCEPTED", "CANCELLED"}
                                                            ELSE {"CANCELLED"}
<1>1. req[r].op = "advance" /\ order = req[r].from /\ order' = req[r].to /\ GoodRead(req[r])
  BY DEF CommitAdvance, StillAt, IInv, ReadsStayGood
<1>2. order \in OrderStatus
  BY DEF IInv, TypeOK
<1>3. order' \in Forward[order]
  BY <1>1 DEF GoodRead
<1> QED BY <1>1, <1>2, <1>3 DEF GoodRead, Forward, OrderStatus

(* A resolution only ever writes a slice that was declined.                 *)
LEMMA ResolveDrops ==
  ASSUME IInv, NEW r \in Requests, CommitResolve(r)
  PROVE  req[r].slice \in Slices /\ slice[req[r].slice] \in {"REJECTED", "CANCELLED"}
<1>1. req[r] \in Request /\ GoodRead(req[r]) /\ req[r].op \in {"resolve", "refund"}
  BY DEF CommitResolve, IInv, TypeOK, ReadsStayGood
<1> QED BY <1>1, RequestFields DEF GoodRead

(* No OTP step is enabled on a PREPAID order.                               *)
LEMMA NoOtpStep ==
  ASSUME Method = "PREPAID", PInv, NEW r \in Requests
  PROVE  ~Otp(r)
BY DEF PInv, OtpOps, Otp, ReadIssueOtp, CommitIssueOtp, ReadVerifyOtp, OwnCodOrder,
   CommitWrongCode, CommitExpire, CommitRejectCod, CommitConfirmCod

(* OTP requests are never begun, so none is ever in flight.                 *)
LEMMA NoOtpRequest ==
  ASSUME Method = "PREPAID", IInv, PInv, Next
  PROVE  (\A r \in Requests : req[r].op \notin OtpOps)'
<1> USE DEF PInv, OtpOps, IInv, TypeOK, Begin, End, Idle
<1>1. ASSUME NEW s \in Slices, Accept(s) \/ Reject(s)
      PROVE  (\A r \in Requests : req[r].op \notin OtpOps)'
  BY <1>1 DEF Accept, Reject, Answer
<1>2. ASSUME NEW r \in Requests, Customer(r) \/ Operator(r) \/ Abort(r)
      PROVE  (\A q \in Requests : req[q].op \notin OtpOps)'
  BY <1>2 DEF Customer, ReadCancel, CommitCancel, Operator, ReadResolve, AggregateRefunds,
     CommitResolve, ReadAdvance, CommitAdvance, Abort
<1>3. CASE PaymentCaptured \/ PaymentFailed
  BY <1>3 DEF PaymentCaptured, PaymentFailed
<1> QED BY <1>1, <1>2, <1>3, NoOtpStep DEF Next

(* A refund is written in the transaction that cancels its slice.           *)
LEMMA RefundsStayCancelled ==
  ASSUME Method = "PREPAID", IInv, PInv, [Next]_vars
  PROVE  (\A s \in Slices : refunds[s] > 0 => slice[s] = "CANCELLED")'
<1> USE DEF PInv, rows, payVars, codVars, sliceVars, doneVars, Begin
<1>0. SliceStep
  BY SlicesMoveOneWay
<1>1. CASE refunds' = refunds
  BY <1>0, <1>1 DEF SliceStep
<1>2. ASSUME NEW r \in Requests, CommitResolve(r)
      PROVE  (\A s \in Slices : refunds[s] > 0 => slice[s] = "CANCELLED")'
  BY <1>2, ResolveDrops DEF CommitResolve, IInv, TypeOK
<1> QED BY <1>1, <1>2, NoOtpStep DEF vars, Next, Accept, Reject, Answer, Customer, ReadCancel,
        CommitCancel, Operator, ReadResolve, AggregateRefunds, ReadAdvance, CommitAdvance,
        Abort, PaymentCaptured, PaymentFailed

(* Delivery and earning happen in one transaction, and no slice can become  *)
(* or cease to be ACCEPTED once the order is delivered.                     *)
LEMMA DeliveryKeepsPaying ==
  ASSUME Method = "PREPAID", IInv, PInv, [Next]_vars
  PROVE  DeliveryPaysAccepted'
<1> USE DEF PInv, DeliveryPaysAccepted, Accepted, rows, payVars, codVars, sliceVars, doneVars, Begin
<1>1. CASE UNCHANGED <<order, slice, payables>>
  BY <1>1
<1>2. ASSUME NEW s \in Slices, Accept(s) \/ Reject(s) PROVE DeliveryPaysAccepted'
  <2>1. order # "DELIVERED"
    BY <1>2 DEF Accept, Reject, Answer, IInv, AcceptedBeforeShipment, ShipmentStages
  <2> QED BY <1>2, <2>1 DEF Accept, Reject, Answer
<1>3. ASSUME NEW r \in Requests, CommitCancel(r) PROVE DeliveryPaysAccepted'
  BY <1>3 DEF CommitCancel, Cancellable
<1>4. ASSUME NEW r \in Requests, CommitResolve(r) PROVE DeliveryPaysAccepted'
  <2>1. Accepted' = Accepted
    BY <1>4, ResolveDrops DEF CommitResolve, IInv, TypeOK
  <2> QED BY <1>4, <2>1 DEF CommitResolve
<1>5. ASSUME NEW r \in Requests, CommitAdvance(r) PROVE DeliveryPaysAccepted'
  <2>1. payables = {}
    BY <1>5, AdvanceMoves
  <2>2. order' = "DELIVERED" /\ ~req[r].ships => Accepted = {}
    BY <1>5, AdvanceMoves DEF ShipmentStages
  <2>3. slice' = slice /\ order' = req[r].to
    BY <1>5 DEF CommitAdvance
  <2>4. payables' = IF order' = "DELIVERED" /\ req[r].ships THEN payables \cup Accepted ELSE payables
    BY <1>5 DEF CommitAdvance, EarnDeliveredSlices
  <2> QED BY <2>1, <2>2, <2>3, <2>4
<1> QED BY <1>1, <1>2, <1>3, <1>4, <1>5, NoOtpStep DEF vars, Next, Customer, ReadCancel,
        Operator, ReadResolve, AggregateRefunds, ReadAdvance,
        Abort, PaymentCaptured, PaymentFailed

(* A PREPAID order starts with PInv, and no step of the order breaks it.    *)
LEMMA PrepaidInit ==
  ASSUME Method = "PREPAID", Init
  PROVE  PInv
BY DEF Init, PInv, DeliveryPaysAccepted, Accepted, OtpOps, Idle

LEMMA PrepaidStep ==
  ASSUME Method = "PREPAID", IInv, PInv, [Next]_vars
  PROVE  PInv'
<1>1. (\A r \in Requests : req[r].op \notin OtpOps)'
  BY NoOtpRequest DEF vars, PInv
<1> QED BY <1>1, RefundsStayCancelled, DeliveryKeepsPaying DEF PInv

(* PInv holds in every reachable state of a PREPAID order.                  *)
LEMMA PrepaidInvariant ==
  ASSUME Method = "PREPAID"
  PROVE  Spec => []PInv
<1>1. Init => PInv
  BY PrepaidInit
<1>2. IInv /\ PInv /\ [Next]_vars => PInv'
  BY PrepaidStep
<1> QED BY <1>1, <1>2, InvariantHolds, PTL DEF Spec

-----------------------------------------------------------------------------
(* A delivered PREPAID order owes exactly its accepted slices, and an order *)
(* that is not delivered owes nothing.                                      *)
THEOREM DeliveryPays ==
  ASSUME Method = "PREPAID"
  PROVE  Spec => []DeliveryPaysAccepted
<1>1. PInv => DeliveryPaysAccepted
  BY DEF PInv
<1> QED BY <1>1, PrepaidInvariant, PTL

(* The money of a slice never goes both to the buyer and to the seller.     *)
THEOREM RefundExcludesPayout ==
  ASSUME Method = "PREPAID"
  PROVE  Spec => []RefundedNotPaidOut
<1>1. PInv => RefundedNotPaidOut
  BY DEF PInv, RefundedNotPaidOut, DeliveryPaysAccepted, Accepted
<1> QED BY <1>1, PrepaidInvariant, PTL

(* A PREPAID order moves along the NEXT table or is cancelled in time.      *)
THEOREM OrderMovesForward ==
  ASSUME Method = "PREPAID"
  PROVE  Spec => ForwardOnly
<1> DEFINE Legal == \/ order' \in Forward[order]
                    \/ order \in {"PLACED", "CONFIRMED"} /\ order' = "CANCELLED"
<1>1. IInv /\ PInv /\ [Next]_vars => [Legal]_order
  <2> SUFFICES ASSUME IInv, PInv, Next, order' # order PROVE Legal
    BY DEF vars, rows
  <2> USE DEF rows, payVars, codVars, sliceVars, doneVars, Begin
  <2>1. PICK r \in Requests : CommitCancel(r) \/ CommitAdvance(r)
    BY NoOtpStep DEF Next, Accept, Reject, Answer, Customer, ReadCancel, Operator, ReadResolve,
       AggregateRefunds, CommitResolve, ReadAdvance, Abort, PaymentCaptured, PaymentFailed
  <2>2. CASE CommitCancel(r)
    BY <2>2 DEF CommitCancel, Cancellable
  <2>3. CASE CommitAdvance(r)
    BY <2>3, AdvanceMoves
  <2> QED BY <2>1, <2>2, <2>3
<1> QED BY <1>1, InvariantHolds, PrepaidInvariant, PTL DEF Spec, ForwardOnly

-----------------------------------------------------------------------------
(* Each step of the handlers is a step of the contract or a stutter: what a *)
(* handler read earlier is, at its commit, as good as a read made then.     *)
LEMMA AdvanceImplements ==
  ASSUME IInv, PInv, NEW r \in Requests, CommitAdvance(r)
  PROVE  Contract!Next
<1> USE DEF Contract!Move, Contract!Accepted, payVars, codVars, sliceVars, doneVars
<1>0. /\ order' \in Forward[order]
      /\ order \in {"PLACED", "CONFIRMED", "PACKED", "SHIPPED", "OUT_FOR_DELIVERY"}
      /\ order' = "CONFIRMED" => cleared
      /\ order' \in ShipmentStages => \A s \in Slices : slice[s] \in {"ACCEPTED", "CANCELLED"}
      /\ UNCHANGED <<slice, cleared>>
      /\ order' # "DELIVERED" => UNCHANGED payables
  BY AdvanceMoves DEF CommitAdvance
<1>1. CASE order' = "CONFIRMED"
  BY <1>0, <1>1 DEF Forward, Contract!Next, Contract!Confirm
<1>2. CASE order' = "PACKED"
  BY <1>0, <1>2 DEF Forward, Contract!Next, Contract!Pack
<1>3. CASE order' = "SHIPPED"
  BY <1>0, <1>3 DEF Forward, ShipmentStages, Contract!Next, Contract!Ship
<1>4. CASE order' = "OUT_FOR_DELIVERY"
  BY <1>0, <1>4 DEF Forward, Contract!Next, Contract!OutForDelivery
<1>5. CASE order' = "DELIVERED"
  <2>1. payables' = Accepted
    <3>1. payables = {}
      BY <1>0 DEF PInv, DeliveryPaysAccepted
    <3>2. ~req[r].ships => Accepted = {}
      BY <1>5, AdvanceMoves DEF ShipmentStages, Accepted
    <3>3. payables' = IF req[r].ships THEN payables \cup Accepted ELSE payables
      BY <1>5 DEF CommitAdvance, EarnDeliveredSlices
    <3> QED BY <3>1, <3>2, <3>3
  <2> QED BY <1>0, <1>5, <2>1 DEF Accepted, Forward, Contract!Next, Contract!Deliver
<1> QED BY <1>0, <1>1, <1>2, <1>3, <1>4, <1>5 DEF Forward

(* The same for every action of the specification.                          *)
LEMMA StepImplements ==
  ASSUME Method = "PREPAID", IInv, PInv, [Next]_vars
  PROVE  [Contract!Next]_(Contract!vars)
<1> USE DEF Contract!vars, rows, payVars, codVars, sliceVars, doneVars, Begin
<1>1. CASE UNCHANGED <<order, slice, cleared, payables>>
  BY <1>1
<1>2. ASSUME NEW s \in Slices, Accept(s) \/ Reject(s) PROVE Contract!Next
  BY <1>2 DEF Accept, Reject, Answer, Contract!Next, Contract!Answer
<1>3. ASSUME NEW r \in Requests, CommitCancel(r) PROVE Contract!Next
  BY <1>3 DEF CommitCancel, Cancellable, Contract!Next, Contract!Cancel
<1>4. ASSUME NEW r \in Requests, CommitResolve(r) PROVE [Contract!Next]_(Contract!vars)
  <2>1. CASE slice[req[r].slice] = "REJECTED"
    <3>1. Contract!Drop(req[r].slice)
      BY <1>4, <2>1 DEF CommitResolve, Contract!Drop
    <3> QED BY <1>4, <3>1, ResolveDrops DEF Contract!Next
  <2>2. CASE slice[req[r].slice] = "CANCELLED"
    <3>1. slice' = slice
      BY <1>4, <2>2, ResolveDrops DEF CommitResolve, IInv, TypeOK
    <3> QED BY <1>4, <3>1 DEF CommitResolve
  <2> QED BY <1>4, <2>1, <2>2, ResolveDrops
<1>5. ASSUME NEW r \in Requests, CommitAdvance(r) PROVE Contract!Next
  BY <1>5, AdvanceImplements
<1>6. CASE PaymentCaptured
  BY <1>6 DEF PaymentCaptured, Contract!Next, Contract!Clear
<1> QED BY <1>1, <1>2, <1>3, <1>4, <1>5, <1>6, NoOtpStep DEF vars, Next, Customer, ReadCancel,
        Operator, ReadResolve, AggregateRefunds, ReadAdvance, Abort, PaymentFailed

(* The handlers of a PREPAID order, each with its own stale reads, behave   *)
(* as if every operation were one atomic step whose gates are evaluated at  *)
(* the moment of the change.                                                *)
THEOREM HandlersImplementContract ==
  ASSUME Method = "PREPAID"
  PROVE  Spec => ContractSpec
<1>1. Init => Contract!Init
  BY DEF Init, Contract!Init
<1>2. IInv /\ PInv /\ [Next]_vars => [Contract!Next]_(Contract!vars)
  BY StepImplements
<1> QED BY <1>1, <1>2, InvariantHolds, PrepaidInvariant, PTL
        DEF Spec, ContractSpec, Contract!Spec

-----------------------------------------------------------------------------
(***************************************************************************)
(* The last mile of a PREPAID order, for any number of slices, assignments *)
(* and calls: the courier and the operator finalize the same order, and    *)
(* between them it is delivered whole, and to the letter of the contract.  *)
(***************************************************************************)

USE CourierAssumption

(* A slice that was handed to a courier stays accepted: its order has left  *)
(* the warehouse, and from there neither the customer nor the operator may  *)
(* cancel it.                                                               *)
OnTheWay(s) == s \in Slices /\ slice[s] = "ACCEPTED" /\ order \in ShipmentStages

Carried ==
  /\ \A t \in Tasks : task[t] # "NONE" => OnTheWay(parcel[t])
  /\ \A s \in delivered : OnTheWay(s)

(* What the calls in flight rely on.                                        *)
GoodCall(q) ==
  /\ q.op = "assign" => OnTheWay(q.slice)
  /\ q.op \in {"step", "deliver", "stamped"} => task[q.task] # "NONE"
  /\ q.op = "step" => q.to # "NONE"
  /\ (q.op = "stamped" /\ q.last) => AllStamped(parcel[q.task])

GoodCalls == \A c \in Calls : GoodCall(call[c])

CourierInv ==
  /\ IInv
  /\ PInv
  /\ CourierTypeOK
  /\ Carried
  /\ GoodCalls
  /\ DeliveredIsComplete

-----------------------------------------------------------------------------
(* The fields of a call, by its operation.                                  *)
LEMMA CallFields ==
  ASSUME NEW q \in Call
  PROVE  /\ q.op = "assign" => q.slice \in Slices
         /\ q.op \in {"step", "deliver", "stamped"} => q.task \in Tasks
         /\ q.op = "step" => q.to \in TaskStatus
         /\ q.op = "stamped" => q.last \in BOOLEAN
BY DEF Call

(* The records the steps of a call build are calls.                         *)
LEMMA CallShapes ==
  /\ Idle \in Call
  /\ [op |-> "notify"] \in Call
  /\ [op |-> "reset"] \in Call
  /\ \A s \in Slices : [op |-> "assign", slice |-> s] \in Call
  /\ \A t \in Tasks : /\ [op |-> "deliver", task |-> t] \in Call
                      /\ \A to \in TaskStatus : [op |-> "step", task |-> t, to |-> to] \in Call
                      /\ \A b \in BOOLEAN : [op |-> "stamped", task |-> t, last |-> b] \in Call
BY DEF Call, Idle

-----------------------------------------------------------------------------
(* What the last mile needs of every step: nothing is taken back.           *)
NothingTakenBack ==
  /\ \A s : OnTheWay(s) => OnTheWay(s)'
  /\ delivered \subseteq delivered'
  /\ \A s \in Slices : slice[s] = "CANCELLED" => slice'[s] = "CANCELLED"

(* The order itself takes nothing back, and stamps accepted slices only.    *)
LEMMA OrderStepEffect ==
  ASSUME Method = "PREPAID", IInv, PInv, [Next]_vars
  PROVE  /\ NothingTakenBack
         /\ delivered' # delivered => /\ order' = "DELIVERED"
                                     /\ delivered' = delivered \cup Accepted
                                     /\ slice' = slice
<1> DEFINE Stamps == delivered' # delivered => /\ order' = "DELIVERED"
                                              /\ delivered' = delivered \cup Accepted
                                              /\ slice' = slice
<1> USE DEF NothingTakenBack, OnTheWay, rows, payVars, codVars, sliceVars, doneVars, Begin
<1>1. CASE UNCHANGED <<order, slice, delivered>>
  BY <1>1
<1>2. ASSUME NEW s \in Slices, Accept(s) \/ Reject(s) PROVE NothingTakenBack /\ Stamps
  BY <1>2 DEF Accept, Reject, Answer, IInv, TypeOK
<1>3. ASSUME NEW r \in Requests, CommitCancel(r) PROVE NothingTakenBack /\ Stamps
  BY <1>3 DEF CommitCancel, Cancellable, ShipmentStages
<1>4. ASSUME NEW r \in Requests, CommitResolve(r) PROVE NothingTakenBack /\ Stamps
  BY <1>4, ResolveDrops DEF CommitResolve, IInv, TypeOK
<1>5. ASSUME NEW r \in Requests, CommitAdvance(r) PROVE NothingTakenBack /\ Stamps
  <2>1. order \in ShipmentStages => order' \in ShipmentStages
    BY <1>5, AdvanceMoves DEF Forward, ShipmentStages
  <2> QED BY <1>5, <2>1 DEF CommitAdvance
<1> QED BY <1>1, <1>2, <1>3, <1>4, <1>5, NoOtpStep DEF vars, Next, Customer, ReadCancel,
        Operator, ReadResolve, AggregateRefunds, ReadAdvance,
        Abort, PaymentCaptured, PaymentFailed

(* When the operator delivers the order, it is complete.                    *)
LEMMA OrderStepCompletes ==
  ASSUME Method = "PREPAID", IInv, PInv, DeliveredIsComplete, [Next]_vars
  PROVE  DeliveredIsComplete'
<1> USE DEF DeliveredIsComplete, rows, payVars, codVars, sliceVars, doneVars, Begin
<1>0. NothingTakenBack
  BY OrderStepEffect
<1>1. CASE order' = order
  BY <1>0, <1>1 DEF NothingTakenBack
<1>2. ASSUME NEW r \in Requests, CommitCancel(r) PROVE DeliveredIsComplete'
  BY <1>2 DEF CommitCancel
<1>3. ASSUME NEW r \in Requests, CommitAdvance(r) PROVE DeliveredIsComplete'
  <2> SUFFICES ASSUME order' = "DELIVERED", NEW s \in Slices, slice[s] # "CANCELLED"
               PROVE  s \in delivered'
    BY <1>3 DEF CommitAdvance
  <2>1. req[r].ships /\ slice[s] = "ACCEPTED"
    BY <1>3, AdvanceMoves DEF ShipmentStages
  <2>2. delivered' = delivered \cup Accepted
    BY <1>3, <2>1 DEF CommitAdvance
  <2> QED BY <2>1, <2>2 DEF Accepted
<1> QED BY <1>1, <1>2, <1>3, NoOtpStep DEF vars, Next, Accept, Reject, Answer, Customer,
        ReadCancel, Operator, ReadResolve, AggregateRefunds, CommitResolve, ReadAdvance,
        Abort, PaymentCaptured, PaymentFailed

-----------------------------------------------------------------------------
(* A call keeps what it relies on, as long as nothing is taken back.        *)
LEMMA GoodCallLasts ==
  ASSUME CourierInv, NothingTakenBack, NEW q \in Call, GoodCall(q),
         \A t \in Tasks : task[t] # "NONE" => task'[t] # "NONE" /\ parcel'[t] = parcel[t]
  PROVE  GoodCall(q)'
BY CallFields DEF GoodCall, NothingTakenBack, AllStamped

TasksStay == \A t \in Tasks : task[t] # "NONE" => task'[t] # "NONE" /\ parcel'[t] = parcel[t]

(* A step of one call (or of none, when the array of calls does not change) *)
(* leaves all calls good, if it leaves its own good.                        *)
LEMMA CallsStayGood ==
  ASSUME CourierInv, NothingTakenBack, TasksStay,
         \A c \in Calls : call'[c] = call[c] \/ GoodCall(call[c])'
  PROVE  GoodCalls'
<1> SUFFICES ASSUME NEW c \in Calls, call'[c] = call[c] PROVE GoodCall(call[c])'
  BY DEF GoodCalls
<1>1. PICK q \in Call : q = call[c]
  BY DEF CourierInv, CourierTypeOK
<1>2. GoodCall(q)
  BY <1>1 DEF CourierInv, GoodCalls
<1>3. GoodCall(q)'
  BY <1>2, GoodCallLasts DEF TasksStay
<1> QED BY <1>1, <1>3 DEF GoodCall

(* The order keeps its own invariants while a courier works beside it.      *)
LEMMA OrderUntouched ==
  ASSUME Method = "PREPAID", CourierInv, UNCHANGED vars
  PROVE  IInv' /\ PInv' /\ DeliveredIsComplete' /\ NothingTakenBack
<1>1. IInv'
  BY InductiveInvariant, TypeStep DEF CourierInv, IInv
<1>2. PInv'
  BY PrepaidStep DEF CourierInv
<1>3. DeliveredIsComplete' /\ NothingTakenBack
  BY OrderStepCompletes, OrderStepEffect DEF CourierInv
<1> QED BY <1>1, <1>2, <1>3

-----------------------------------------------------------------------------
(* A step that changes neither the order nor any assignment: only one call  *)
(* goes on.                                                                 *)
LEMMA CallStep ==
  ASSUME Method = "PREPAID", CourierInv, UNCHANGED <<vars, task, parcel, fees>>,
         NEW c \in Calls, NEW q \in Call, call' = [call EXCEPT ![c] = q], GoodCall(q),
         deliveredNow' \in BOOLEAN, notices' \subseteq OrderStatus
  PROVE  CourierInv'
<1>1. IInv' /\ PInv' /\ DeliveredIsComplete' /\ NothingTakenBack
  BY OrderUntouched
<1>2. CourierTypeOK'
  BY <1>1 DEF IInv, CourierInv, CourierTypeOK
<1>3. TasksStay
  BY DEF TasksStay
<1>4. GoodCall(q)'
  BY <1>1, <1>3, GoodCallLasts DEF TasksStay
<1>5. GoodCalls'
  <2>1. ASSUME NEW d \in Calls, call'[d] # call[d] PROVE GoodCall(call[d])'
    <3>1. call'[d] = q
      BY <2>1 DEF CourierInv, CourierTypeOK
    <3> QED BY <1>4, <3>1 DEF GoodCall
  <2> QED BY <1>1, <1>3, <2>1, CallsStayGood
<1>6. Carried'
  BY <1>1 DEF vars, rows, doneVars, CourierInv, Carried, NothingTakenBack
<1> QED BY <1>1, <1>2, <1>5, <1>6 DEF CourierInv

(* The call that made the step was good, and of the shape it must have.     *)
LEMMA CallIsGood ==
  ASSUME CourierInv, NEW c \in Calls
  PROVE  call[c] \in Call /\ GoodCall(call[c])
BY DEF CourierInv, CourierTypeOK, GoodCalls

(* What a handler checks before it writes is what its call relies on.       *)
LEMMA ReadsAreGood ==
  ASSUME Method = "PREPAID", CourierInv, NEW c \in Calls,
         \/ \E s \in Slices : ReadAssign(c, s)
         \/ \E t \in Tasks : ReadStep(c, t) \/ ReadDeliver(c, t)
  PROVE  CourierInv'
<1> USE DEF Enter, taskVars, CourierInv, CourierTypeOK
<1>1. ASSUME NEW s \in Slices, ReadAssign(c, s) PROVE CourierInv'
  <2>1. GoodCall([op |-> "assign", slice |-> s])
    BY <1>1 DEF ReadAssign, Dispatchable, GoodCall, OnTheWay, CourierStages, ShipmentStages
  <2> QED BY <1>1, <2>1, CallShapes, CallStep DEF ReadAssign
<1>2. ASSUME NEW t \in Tasks, ReadStep(c, t) PROVE CourierInv'
  <2>1. PICK to \in TaskStatus : /\ <<task[t], to>> \in TaskMoves
                                /\ Enter(c, [op |-> "step", task |-> t, to |-> to])
    BY <1>2 DEF ReadStep
  <2>2. task[t] # "NONE" /\ to # "NONE"
    BY <2>1 DEF TaskMoves, ActiveTask
  <2>3. GoodCall([op |-> "step", task |-> t, to |-> to])
    BY <2>2 DEF GoodCall
  <2> QED BY <2>1, <2>3, CallShapes, CallStep
<1>3. ASSUME NEW t \in Tasks, ReadDeliver(c, t) PROVE CourierInv'
  <2>1. GoodCall([op |-> "deliver", task |-> t])
    BY <1>3 DEF ReadDeliver, GoodCall
  <2> QED BY <1>3, <2>1, CallShapes, CallStep DEF ReadDeliver
<1> QED BY <1>1, <1>2, <1>3

(* The count of the outstanding slices is right when it is made.            *)
LEMMA CountIsGood ==
  ASSUME Method = "PREPAID", CourierInv, NEW c \in Calls, CountOutstanding(c)
  PROVE  CourierInv'
<1> DEFINE t == call[c].task
           q == [op |-> "stamped", task |-> t, last |-> AllStamped(parcel[t])]
<1>1. t \in Tasks /\ task[t] # "NONE"
  BY CallIsGood, CallFields DEF CountOutstanding, GoodCall
<1>2. AllStamped(parcel[t]) \in BOOLEAN
  BY DEF AllStamped
<1>3. q \in Call /\ GoodCall(q)
  BY <1>1, <1>2, CallShapes DEF GoodCall
<1>4. /\ call' = [call EXCEPT ![c] = q]
      /\ UNCHANGED <<vars, task, parcel, fees, notices>>
      /\ deliveredNow' \in BOOLEAN
  BY <1>2 DEF CountOutstanding, Proceed, CourierInv, CourierTypeOK
<1> HIDE DEF q
<1> QED BY <1>3, <1>4, CallStep DEF CourierInv, CourierTypeOK

(* The notice and the flag touch neither the order nor an assignment.       *)
LEMMA AfterwardsIsGood ==
  ASSUME Method = "PREPAID", CourierInv, NEW c \in Calls,
         TellBuyer(c) \/ LowerFlag(c) \/ Drop(c)
  PROVE  CourierInv'
<1> USE DEF Proceed, Leave, taskVars, CourierInv, CourierTypeOK, IInv, TypeOK
<1>1. GoodCall(Idle) /\ GoodCall([op |-> "reset"])
  BY DEF GoodCall, Idle
<1>2. CASE TellBuyer(c)
  BY <1>1, <1>2, CallShapes, CallStep DEF TellBuyer
<1>3. CASE LowerFlag(c)
  BY <1>1, <1>3, CallShapes, CallStep DEF LowerFlag
<1>4. CASE Drop(c)
  BY <1>1, <1>4, CallShapes, CallStep DEF Drop
<1> QED BY <1>2, <1>3, <1>4

(* An assignment is created, or moves on: its slice stays on its way.       *)
LEMMA TaskWriteIsGood ==
  ASSUME Method = "PREPAID", CourierInv, NEW c \in Calls,
         CommitStep(c) \/ \E t \in Tasks : CommitAssign(c, t)
  PROVE  CourierInv'
<1>0. call[c] \in Call /\ GoodCall(call[c])
  BY CallIsGood
<1>1. IInv' /\ PInv' /\ DeliveredIsComplete' /\ NothingTakenBack
  BY OrderUntouched DEF CommitAssign, CommitStep
<1>2. TasksStay
  BY <1>0 DEF CommitAssign, CommitStep, TasksStay, GoodCall, CourierInv, CourierTypeOK
<1>3. GoodCalls'
  <2>1. ASSUME NEW d \in Calls, call'[d] # call[d] PROVE GoodCall(call[d])'
    <3>1. call'[d] = Idle
      BY <2>1 DEF CommitAssign, CommitStep, Leave, Proceed, CourierInv, CourierTypeOK
    <3> QED BY <3>1 DEF GoodCall, Idle
  <2> QED BY <1>1, <1>2, <2>1, CallsStayGood
<1>4. Carried'
  BY <1>0, <1>1 DEF CommitAssign, CommitStep, Carried, NothingTakenBack, GoodCall, CourierInv,
     CourierTypeOK, vars, rows, doneVars
<1>5. CourierTypeOK'
  <2> USE DEF CourierInv, CourierTypeOK, IInv
  <2>1. task' \in [Tasks -> TaskStatus]
    BY <1>0, CallFields DEF CommitAssign, CommitStep, TaskStatus
  <2>2. parcel' \in [Tasks -> Slices \cup {NoSlice}]
    BY <1>0, CallFields DEF CommitAssign, CommitStep
  <2>3. call' \in [Calls -> Call]
    BY CallShapes DEF CommitAssign, CommitStep, Leave, Proceed
  <2> QED BY <1>1, <2>1, <2>2, <2>3 DEF CommitAssign, CommitStep
<1> QED BY <1>1, <1>3, <1>4, <1>5 DEF CourierInv
(* What a delivery commits: one more slice, and the order if it was the     *)
(* last one.  In the contract it is Deliver, or nothing.                    *)
LEMMA DeliveryCommits ==
  ASSUME Method = "PREPAID", CourierInv, NEW c \in Calls, CommitDeliver(c)
  PROVE  LET s == parcel[call[c].task] IN
         /\ call[c].task \in Tasks
         /\ OnTheWay(s)
         /\ delivered' = delivered \cup {s}
         /\ UNCHANGED <<slice, payStatus, cleared, cod, released, refunds, req, parcel>>
         /\ \/ /\ UNCHANGED <<order, payables>>
            \/ /\ order \in CourierStages
               /\ order' = "DELIVERED"
               /\ payables' = Accepted
               /\ AllStamped(s)
<1> DEFINE s == parcel[call[c].task]
<1>1. call[c] \in Call /\ GoodCall(call[c]) /\ call[c].op = "stamped"
  BY CallIsGood DEF CommitDeliver
<1>2. call[c].task \in Tasks /\ OnTheWay(s)
  BY <1>1, CallFields DEF GoodCall, CourierInv, Carried
<1>3. /\ delivered' = delivered \cup {s}
      /\ UNCHANGED <<slice, cleared, cod, released, refunds, req, parcel>>
  BY DEF CommitDeliver, codVars, sliceVars
<1>4. payStatus' = payStatus
  BY DEF CommitDeliver
<1>5. CASE call[c].last /\ order \in CourierStages
  <2>1. payables = {}
    BY <1>5 DEF CourierInv, PInv, DeliveryPaysAccepted, CourierStages
  <2>2. order' = "DELIVERED" /\ payables' = payables \cup Accepted
    BY <1>5 DEF CommitDeliver, EarnDeliveredSlices
  <2>3. AllStamped(s)
    BY <1>1, <1>5 DEF GoodCall
  <2> QED BY <1>2, <1>3, <1>4, <1>5, <2>1, <2>2, <2>3
<1>6. CASE ~(call[c].last /\ order \in CourierStages)
  BY <1>2, <1>3, <1>4, <1>6 DEF CommitDeliver
<1> QED BY <1>5, <1>6

(* The commit of a delivery keeps every part of the invariant.              *)
LEMMA DeliveryIsGood ==
  ASSUME Method = "PREPAID", CourierInv, NEW c \in Calls, CommitDeliver(c)
  PROVE  CourierInv'
<1> DEFINE s == parcel[call[c].task]
<1>0. /\ call[c].task \in Tasks
      /\ OnTheWay(s)
      /\ delivered' = delivered \cup {s}
      /\ UNCHANGED <<slice, payStatus, cleared, cod, released, refunds, req, parcel>>
      /\ \/ /\ UNCHANGED <<order, payables>>
         \/ /\ order \in CourierStages
            /\ order' = "DELIVERED"
            /\ payables' = Accepted
            /\ AllStamped(s)
  BY DeliveryCommits
<1>1. NothingTakenBack
  BY <1>0 DEF NothingTakenBack, OnTheWay, ShipmentStages
<1>2. /\ task' = [task EXCEPT ![call[c].task] = "DELIVERED"]
      /\ fees' = fees \cup {call[c].task}
      /\ call' = [call EXCEPT ![c] = [op |-> "notify"]]
      /\ UNCHANGED <<payment, attempts, deliveredNow, notices>>
  BY DEF CommitDeliver, Proceed, codVars
<1>3. CourierTypeOK'
  <2> USE <1>0, <1>2 DEF CourierInv, CourierTypeOK, TypeOK
  <2>1. /\ order' \in OrderStatus
        /\ delivered' \subseteq Slices
        /\ payables' \subseteq Slices
    BY DEF OrderStatus, OnTheWay, Accepted
  <2>2. TypeOK'
    BY <2>1
  <2>3. /\ task' \in [Tasks -> TaskStatus]
        /\ fees' \subseteq Tasks
        /\ call' \in [Calls -> Call]
    BY CallShapes DEF TaskStatus
  <2> QED BY <2>2, <2>3
<1>4. IInv'
  <2>1. ReadsStayGood'
    <3>1. SliceStep
      BY <1>0 DEF SliceStep
    <3> QED BY <1>0, <1>3, <3>1, SameReads DEF CourierInv, CourierTypeOK
  <2>2. AcceptedBeforeShipment' /\ ClearedBeforeConfirmation'
    BY <1>0 DEF CourierInv, IInv, AcceptedBeforeShipment, ClearedBeforeConfirmation,
       CourierStages, ShipmentStages
  <2>3. CancelledIffReleased' /\ Clearance'
    BY <1>0 DEF CourierInv, IInv, CancelledIffReleased, Clearance
  <2> QED BY <1>3, <2>1, <2>2, <2>3 DEF IInv, CourierTypeOK
<1>5. PInv'
  BY <1>0 DEF CourierInv, PInv, DeliveryPaysAccepted, Accepted
<1>6. TasksStay
  BY <1>0, <1>2 DEF TasksStay, CourierInv, CourierTypeOK
<1>7. GoodCalls'
  <2>1. ASSUME NEW d \in Calls, call'[d] # call[d] PROVE GoodCall(call[d])'
    <3>1. call'[d] = [op |-> "notify"]
      BY <1>2, <2>1 DEF CourierInv, CourierTypeOK
    <3> QED BY <3>1 DEF GoodCall
  <2> QED BY <1>1, <1>6, <2>1, CallsStayGood
<1>8. Carried'
  BY <1>0, <1>1, <1>2 DEF Carried, NothingTakenBack, CourierInv, CourierTypeOK
<1>9. DeliveredIsComplete'
  BY <1>0 DEF CourierInv, DeliveredIsComplete, AllStamped
<1> QED BY <1>3, <1>4, <1>5, <1>7, <1>8, <1>9 DEF CourierInv

(* A step of the order, of whatever request, seller or webhook.             *)
LEMMA OrderStepIsGood ==
  ASSUME Method = "PREPAID", CourierInv, [Next]_vars, UNCHANGED lastMile
  PROVE  CourierInv'
<1> USE DEF lastMile, taskVars
<1>1. IInv' /\ PInv' /\ DeliveredIsComplete'
  BY InductiveInvariant, TypeStep, PrepaidStep, OrderStepCompletes DEF CourierInv, IInv
<1>2. /\ NothingTakenBack
      /\ delivered' # delivered => /\ order' = "DELIVERED"
                                  /\ delivered' = delivered \cup Accepted
                                  /\ slice' = slice
  BY OrderStepEffect DEF CourierInv
<1>3. CourierTypeOK'
  BY <1>1 DEF IInv, CourierInv, CourierTypeOK
<1>4. GoodCalls'
  BY <1>2, CallsStayGood DEF TasksStay
<1>5. Carried'
  BY <1>2 DEF CourierInv, Carried, NothingTakenBack, OnTheWay, Accepted, ShipmentStages
<1> QED BY <1>1, <1>3, <1>4, <1>5 DEF CourierInv

-----------------------------------------------------------------------------
(* CourierInv holds in every reachable state of a PREPAID order.            *)
LEMMA CourierInvariant ==
  ASSUME Method = "PREPAID"
  PROVE  CourierSpec => []CourierInv
<1>1. Init /\ TaskInit => CourierInv
  <2> SUFFICES ASSUME Init, TaskInit PROVE CourierInv
    OBVIOUS
  <2>1. IInv /\ PInv
    BY TypeInit, InitInvariant, PrepaidInit
  <2>2. CourierTypeOK
    BY <2>1, CallShapes DEF TaskInit, CourierTypeOK, TaskStatus, IInv
  <2>3. Carried /\ DeliveredIsComplete
    BY DEF Init, TaskInit, Carried, DeliveredIsComplete
  <2>4. GoodCalls
    BY DEF TaskInit, GoodCalls, GoodCall, Idle
  <2> QED BY <2>1, <2>2, <2>3, <2>4 DEF CourierInv
<1>2. CourierInv /\ [CourierNext]_allVars => CourierInv'
  <2> SUFFICES ASSUME CourierInv, [CourierNext]_allVars PROVE CourierInv'
    OBVIOUS
  <2>1. CASE OrderStep \/ UNCHANGED allVars
    BY <2>1, OrderStepIsGood DEF OrderStep, allVars
  <2>2. ASSUME NEW c \in Calls, CourierCall(c) PROVE CourierInv'
    BY <2>2, ReadsAreGood, CountIsGood, AfterwardsIsGood, TaskWriteIsGood, DeliveryIsGood
       DEF CourierCall
  <2> QED BY <2>1, <2>2 DEF CourierNext
<1> QED BY <1>1, <1>2, PTL DEF CourierSpec

(* No call of a courier or of the operator writes an ill-typed row.         *)
THEOREM CourierTypes ==
  ASSUME Method = "PREPAID"
  PROVE  CourierSpec => []CourierTypeOK
<1>1. CourierInv => CourierTypeOK
  BY DEF CourierInv
<1> QED BY <1>1, CourierInvariant, PTL

(* A delivery by couriers owes the sellers the same as one by the operator. *)
THEOREM CouriersPayAccepted ==
  ASSUME Method = "PREPAID"
  PROVE  CourierSpec => []DeliveryPaysAccepted
<1>1. CourierInv => DeliveryPaysAccepted
  BY DEF CourierInv, PInv
<1> QED BY <1>1, CourierInvariant, PTL

(* A delivered order is complete, whoever delivered it: for any number of   *)
(* couriers, assignments per slice, and operators beside them.              *)
THEOREM DeliveryIsComplete ==
  ASSUME Method = "PREPAID"
  PROVE  CourierSpec => []DeliveredIsComplete
<1>1. CourierInv => DeliveredIsComplete
  BY DEF CourierInv
<1> QED BY <1>1, CourierInvariant, PTL

(* Only accepted, uncancelled goods are ever handed over.                   *)
THEOREM DeliveredGoodsWereAccepted ==
  ASSUME Method = "PREPAID"
  PROVE  CourierSpec => []DeliveredWasAccepted
<1>1. CourierInv => DeliveredWasAccepted
  BY DEF CourierInv, Carried, OnTheWay, DeliveredWasAccepted
<1> QED BY <1>1, CourierInvariant, PTL

(* The delivery by the courier is a Deliver step of the contract.           *)
LEMMA DeliveryImplements ==
  ASSUME Method = "PREPAID", CourierInv, NEW c \in Calls, CommitDeliver(c)
  PROVE  [Contract!Next]_(Contract!vars)
<1>1. CASE UNCHANGED <<order, payables>>
  BY <1>1, DeliveryCommits DEF Contract!vars
<1>2. CASE order \in CourierStages /\ order' = "DELIVERED" /\ payables' = Accepted
  BY <1>2, DeliveryCommits DEF CourierStages, Accepted, Contract!Accepted, Contract!Move,
     Contract!Deliver, Contract!Next
<1> QED BY <1>1, <1>2, DeliveryCommits

(* The couriers, too, implement the contract of the order: an order with    *)
(* couriers at work behaves as one whose every operation is atomic.         *)
THEOREM CouriersImplementContract ==
  ASSUME Method = "PREPAID"
  PROVE  CourierSpec => ContractSpec
<1>1. Init => Contract!Init
  BY DEF Init, Contract!Init
<1>2. CourierInv /\ [CourierNext]_allVars => [Contract!Next]_(Contract!vars)
  <2> SUFFICES ASSUME CourierInv, [CourierNext]_allVars PROVE [Contract!Next]_(Contract!vars)
    OBVIOUS
  <2>1. CASE OrderStep \/ UNCHANGED allVars
    BY <2>1, StepImplements DEF OrderStep, allVars, CourierInv
  <2>2. ASSUME NEW c \in Calls, CommitDeliver(c) PROVE [Contract!Next]_(Contract!vars)
    BY <2>2, DeliveryImplements
  <2>3. CASE UNCHANGED vars
    BY <2>3 DEF vars, rows, payVars, sliceVars, doneVars, Contract!vars
  <2> QED BY <2>1, <2>2, <2>3 DEF CourierNext, CourierCall, ReadAssign, CommitAssign, ReadStep,
          CommitStep, ReadDeliver, CountOutstanding, TellBuyer, LowerFlag, Drop, Enter
<1> QED BY <1>1, <1>2, CourierInvariant, PTL DEF CourierSpec, ContractSpec, Contract!Spec
=============================================================================
