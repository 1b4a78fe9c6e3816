------------------------- MODULE ReplacementCourier -------------------------
(***************************************************************************)
(* The way of one issued replacement to the buyer: the operator's leg in   *)
(* ReturnsService (dispatch, complete, cancel), the courier's leg in       *)
(* ReplacementCourierService, and the delivery fee that CourierPayout-     *)
(* Service accrues and pays out.                                           *)
(*                                                                         *)
(* The three services write the same rows by id after a check of what they *)
(* read.  A call in flight is a slot of req; stale remembers that a call   *)
(* wrote although what it had read was no longer so.                       *)
(*                                                                         *)
(* The assignments are those of one courier, who stays ACTIVE; fees are    *)
(* counted, as each leg earns the same COURIER_FEE_REPLACEMENT.            *)
(***************************************************************************)
EXTENDS Naturals, FiniteSets

CONSTANTS
  Assignments,   \* replacement_assignments
  Requests,      \* calls in flight at the same time
  MaxPaid        \* bound on the fees that were reported as paid out

VARIABLES
  repl,       \* replacements.status
  task,       \* replacement_assignments.status ("NONE": no row yet)
  waybill,    \* assignments with a trackingNumber
  shipments,  \* shipments of an assignment at the courier provider
  fee,        \* courier_payouts.status of an assignment ("NONE": no row)
  paid,       \* fees that settlePartnerEarned has reported as paid out
  req,        \* the calls in flight
  stale       \* some call has written although what it read had changed

rows == <<repl, task, waybill, shipments, fee, paid>>
vars == <<rows, req, stale>>

ReplacementStatus == {"PENDING_DISPATCH", "DISPATCHED", "COMPLETED", "CANCELLED"}
TaskStatus == {"NONE", "ASSIGNED", "ACCEPTED", "REJECTED", "PICKED_UP", "OUT_FOR_DELIVERY",
               "DELIVERED", "FAILED", "CANCELLED"}
FeeStatus  == {"NONE", "EARNED", "SETTLED"}

PartnerActive == {"ACCEPTED", "PICKED_UP", "OUT_FOR_DELIVERY"}
Active        == {"ASSIGNED"} \cup PartnerActive

Idle == [op |-> "idle"]

Request ==
       {Idle}
  \cup [op : {"operator"}, from : ReplacementStatus, to : ReplacementStatus,
        occupied : BOOLEAN, loaded : BOOLEAN]
  \cup [op : {"assign"}, occupied : BOOLEAN]
  \cup [op : {"task"}, id : Assignments, from : TaskStatus, to : TaskStatus]
  \cup [op : {"book"}, id : Assignments]
  \cup [op : {"waybill"}, id : Assignments]
  \cup [op : {"deliver"}, id : Assignments, from : ReplacementStatus]
  \cup [op : {"payout"}, ids : SUBSET Assignments]

Init ==
  /\ repl = "PENDING_DISPATCH"
  /\ task = [a \in Assignments |-> "NONE"]
  /\ waybill = {}
  /\ shipments = [a \in Assignments |-> 0]
  /\ fee = [a \in Assignments |-> "NONE"]
  /\ paid = 0
  /\ req = [r \in Requests |-> Idle]
  /\ stale = FALSE

Begin(r, snapshot) ==
  /\ req[r] = Idle
  /\ req' = [req EXCEPT ![r] = snapshot]
  /\ UNCHANGED <<rows, stale>>

End(r) == req' = [req EXCEPT ![r] = Idle]
Unchanged(whatWasRead) == stale' = (stale \/ ~whatWasRead)

(* A later check that refuses, a database or provider error, a crash.       *)
Drop(r) == req[r] # Idle /\ End(r) /\ UNCHANGED <<rows, stale>>

-----------------------------------------------------------------------------
(* dispatchReplacement, completeReplacement, cancelReplacement: complete and *)
(* cancel look at the replacement, and replacementTransition once more.      *)

Occupied == \E a \in Assignments : task[a] \in Active
NoCourier(to) == to = "COMPLETED" => ~Occupied

OperatorSteps == {<<"PENDING_DISPATCH", "DISPATCHED">>, <<"DISPATCHED", "COMPLETED">>,
                  <<"PENDING_DISPATCH", "CANCELLED">>, <<"DISPATCHED", "CANCELLED">>}

ReadOperator(r, to) ==
  /\ <<repl, to>> \in OperatorSteps
  /\ NoCourier(to)
  /\ Begin(r, [op |-> "operator", from |-> repl, to |-> to, occupied |-> Occupied,
               loaded |-> to = "DISPATCHED"])

LoadAgain(r) ==
  /\ req[r].op = "operator" /\ ~req[r].loaded
  /\ repl = req[r].from
  /\ req' = [req EXCEPT ![r].loaded = TRUE]
  /\ UNCHANGED <<rows, stale>>

CommitOperator(r) ==
  /\ req[r].op = "operator" /\ req[r].loaded
  /\ repl' = req[r].to
  /\ Unchanged(repl = req[r].from /\ (req[r].to = "COMPLETED" => Occupied = req[r].occupied))
  /\ End(r)
  /\ UNCHANGED <<task, waybill, shipments, fee, paid>>

-----------------------------------------------------------------------------
(* assignCourier *)

AlwaysFree == TRUE   \* mutation: an active assignment does not block another
Free == ~Occupied

ReadAssign(r) == repl = "DISPATCHED" /\ Free /\ Begin(r, [op |-> "assign", occupied |-> Occupied])

CommitAssign(r, a) ==
  /\ req[r].op = "assign"
  /\ task[a] = "NONE"
  /\ task' = [task EXCEPT ![a] = "ASSIGNED"]
  /\ Unchanged(repl = "DISPATCHED" /\ Occupied = req[r].occupied)
  /\ End(r)
  /\ UNCHANGED <<repl, waybill, shipments, fee, paid>>

-----------------------------------------------------------------------------
(* cancelAssignment, accept, reject, pickup, outForDelivery, fail *)

TaskSteps ==
       Active \X {"CANCELLED"}
  \cup PartnerActive \X {"FAILED"}
  \cup {<<"ASSIGNED", "ACCEPTED">>, <<"ASSIGNED", "REJECTED">>,
        <<"ACCEPTED", "PICKED_UP">>, <<"PICKED_UP", "OUT_FOR_DELIVERY">>}

ReadTask(r, a, to) ==
  /\ <<task[a], to>> \in TaskSteps
  /\ Begin(r, [op |-> "task", id |-> a, from |-> task[a], to |-> to])

CommitTask(r) ==
  /\ req[r].op = "task"
  /\ task' = [task EXCEPT ![req[r].id] = req[r].to]
  /\ Unchanged(task[req[r].id] = req[r].from)
  /\ req' = [req EXCEPT ![r] = IF req[r].to = "PICKED_UP" THEN [op |-> "book", id |-> req[r].id] ELSE Idle]
  /\ UNCHANGED <<repl, waybill, shipments, fee, paid>>

(* bookShipment, after the pickup: the shipment exists at the provider       *)
(* before the assignment has its waybill.                                    *)
BookShipment(r) ==
  /\ req[r].op = "book"
  /\ req[r].id \notin waybill
  /\ shipments' = [shipments EXCEPT ![req[r].id] = @ + 1]
  /\ req' = [req EXCEPT ![r].op = "waybill"]
  /\ UNCHANGED <<repl, task, waybill, fee, paid, stale>>

StoreWaybill(r) ==
  /\ req[r].op = "waybill"
  /\ waybill' = waybill \cup {req[r].id}
  /\ End(r)
  /\ UNCHANGED <<repl, task, shipments, fee, paid, stale>>

-----------------------------------------------------------------------------
(* deliver, with earnCourierDelivery in its transaction *)

Deliverable == repl = "DISPATCHED"

ReadDeliver(r, a) ==
  /\ task[a] = "OUT_FOR_DELIVERY"
  /\ Deliverable
  /\ Begin(r, [op |-> "deliver", id |-> a, from |-> repl])

Earn(a) == IF fee[a] = "NONE" THEN "EARNED" ELSE fee[a]

CommitDeliver(r) ==
  /\ req[r].op = "deliver"
  /\ task' = [task EXCEPT ![req[r].id] = "DELIVERED"]
  /\ repl' = "COMPLETED"
  /\ fee' = [fee EXCEPT ![req[r].id] = Earn(req[r].id)]
  /\ Unchanged(task[req[r].id] = "OUT_FOR_DELIVERY" /\ repl = req[r].from)
  /\ End(r)
  /\ UNCHANGED <<waybill, shipments, paid>>

-----------------------------------------------------------------------------
(* settlePartnerEarned: adds up the fees it has read, then settles whatever  *)
(* is EARNED.                                                                *)

Earned == {a \in Assignments : fee[a] = "EARNED"}

ReadPayout(r) ==
  /\ Earned # {}
  /\ paid < MaxPaid
  /\ Begin(r, [op |-> "payout", ids |-> Earned])

Settled == Earned

CommitPayout(r) ==
  /\ req[r].op = "payout"
  /\ fee' = [a \in Assignments |-> IF a \in Settled THEN "SETTLED" ELSE fee[a]]
  /\ paid' = paid + Cardinality(req[r].ids)
  /\ Unchanged(Earned = req[r].ids)
  /\ End(r)
  /\ UNCHANGED <<repl, task, waybill, shipments>>

-----------------------------------------------------------------------------
Call(r) ==
  \/ \E to \in ReplacementStatus : ReadOperator(r, to)
  \/ \E a \in Assignments :
       \/ CommitAssign(r, a) \/ ReadDeliver(r, a)
       \/ \E to \in TaskStatus : ReadTask(r, a, to)
  \/ LoadAgain(r) \/ CommitOperator(r) \/ ReadAssign(r) \/ CommitTask(r)
  \/ BookShipment(r) \/ StoreWaybill(r) \/ CommitDeliver(r)
  \/ ReadPayout(r) \/ CommitPayout(r) \/ Drop(r)

Next == \E r \in Requests : Call(r)
Spec == Init /\ [][Next]_vars

-----------------------------------------------------------------------------
(* The rows and the calls in flight are well formed. *)
TypeOK ==
  /\ repl \in ReplacementStatus
  /\ task \in [Assignments -> TaskStatus]
  /\ waybill \subseteq Assignments
  /\ shipments \in [Assignments -> Nat]
  /\ fee \in [Assignments -> FeeStatus]
  /\ paid \in Nat
  /\ req \in [Requests -> Request]
  /\ stale \in BOOLEAN

(* Until a call writes over what another has changed, calls may overlap and  *)
(* die anywhere: the replacement has one courier at a time, who is the only  *)
(* one to hand it over, and none once it was.                                *)
OneCourier ==
  ~stale =>
    /\ Cardinality({a \in Assignments : task[a] \in Active \cup {"DELIVERED"}}) <= 1
    /\ repl = "COMPLETED" => ~Occupied
    /\ repl = "PENDING_DISPATCH" => \A a \in Assignments : task[a] = "NONE"
    /\ \A a \in Assignments : task[a] = "DELIVERED" => repl = "COMPLETED"

(* Until then the platform owes a fee for exactly the leg that was delivered *)
(* and what it reports as paid out is what it has settled.                   *)
FeeForDelivery ==
  ~stale =>
    /\ \A a \in Assignments : fee[a] # "NONE" <=> task[a] = "DELIVERED"
    /\ paid = Cardinality({a \in Assignments : fee[a] = "SETTLED"})

(* Whatever overlaps: a fee that was paid out is not owed again, and a       *)
(* shipment is only known by a waybill that the provider has issued.         *)
PaidFeeStands == \A a \in Assignments : fee[a] = "SETTLED" => fee'[a] = "SETTLED"

(* Until a call writes over another's change, a replacement that was         *)
(* cancelled is not delivered any more, although its courier is not told,    *)
(* and one that was delivered is not cancelled.                              *)
ReplacementStands ==
  ~stale' /\ repl \in {"COMPLETED", "CANCELLED"} => repl' = repl

(* Until a call writes over another's change, one shipment is booked for an  *)
(* assignment, even if its waybill was lost with the call that booked it.    *)
OneShipment ==
  \A a \in Assignments :
    /\ a \in waybill => shipments[a] > 0
    /\ ~stale => shipments[a] <= 1
    /\ ~stale /\ shipments[a] > 0 => task[a] \notin {"NONE", "ASSIGNED", "ACCEPTED", "REJECTED"}

-----------------------------------------------------------------------------
(* Stated by the code, and not kept by it. *)

(* "a payout is never owed for a leg that is not actually delivered".        *)
OwedIfDelivered == \A a \in Assignments : fee[a] # "NONE" => task[a] = "DELIVERED"
=============================================================================
