---------------------------- MODULE OrderContract ----------------------------
(***************************************************************************)
(* What the marketplace promises about one order, with every operation     *)
(* atomic and every gate evaluated at the moment of the change: no request *)
(* is ever in flight here.  OrderLifecycle, whose handlers read first and  *)
(* write later, implements this for a PREPAID order.                       *)
(***************************************************************************)

CONSTANT Slices     \* the seller slices (sub-orders) of the order

VARIABLES
  order,     \* status of the order
  slice,     \* status of each seller slice
  cleared,   \* the buyer's money (or COD verification) is on record
  payables   \* the slices whose seller is owed a payable

vars == <<order, slice, cleared, payables>>

Accepted == {s \in Slices : slice[s] = "ACCEPTED"}

Init ==
  /\ order = "PLACED"
  /\ slice = [s \in Slices |-> "PLACED"]
  /\ cleared = FALSE
  /\ payables = {}

(* A seller answers for its slice, once. *)
Answer(s, answer) ==
  /\ slice[s] = "PLACED"
  /\ slice' = [slice EXCEPT ![s] = answer]
  /\ UNCHANGED <<order, cleared, payables>>

(* The operator drops a slice its seller declined. *)
Drop(s) ==
  /\ slice[s] = "REJECTED"
  /\ slice' = [slice EXCEPT ![s] = "CANCELLED"]
  /\ UNCHANGED <<order, cleared, payables>>

(* The customer withdraws the whole order, before it is packed. *)
Cancel ==
  /\ order \in {"PLACED", "CONFIRMED"}
  /\ order' = "CANCELLED"
  /\ slice' = [s \in Slices |-> "CANCELLED"]
  /\ UNCHANGED <<cleared, payables>>

Clear ==
  /\ cleared' = TRUE
  /\ UNCHANGED <<order, slice, payables>>

Move(from, to) ==
  /\ order \in from
  /\ order' = to
  /\ UNCHANGED <<slice, cleared>>

Confirm == cleared /\ Move({"PLACED"}, "CONFIRMED") /\ UNCHANGED payables
Pack    == Move({"CONFIRMED"}, "PACKED") /\ UNCHANGED payables

(* Nothing leaves the warehouse while a seller's answer is missing. *)
Ship ==
  /\ \A s \in Slices : slice[s] \in {"ACCEPTED", "CANCELLED"}
  /\ Move({"PACKED"}, "SHIPPED")
  /\ UNCHANGED payables

OutForDelivery == Move({"SHIPPED"}, "OUT_FOR_DELIVERY") /\ UNCHANGED payables

(* Delivery and earning are one step: exactly the accepted slices earn. *)
Deliver ==
  /\ Move({"SHIPPED", "OUT_FOR_DELIVERY"}, "DELIVERED")
  /\ payables' = Accepted

Next ==
  \/ \E s \in Slices : Answer(s, "ACCEPTED") \/ Answer(s, "REJECTED") \/ Drop(s)
  \/ Cancel \/ Clear
  \/ Confirm \/ Pack \/ Ship \/ OutForDelivery \/ Deliver

Spec == Init /\ [][Next]_vars
=============================================================================
