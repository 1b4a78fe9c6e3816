--------------------------- MODULE RefundContract ---------------------------
(***************************************************************************)
(* What the marketplace promises about the money of returned goods: it     *)
(* moves only once the goods have been inspected, and the books, which     *)
(* debit the seller and close the return, only follow money that moved.    *)
(* ReturnCases, whose handlers read first and write by id later, and whose *)
(* gateway answers when it likes, implements this.                         *)
(***************************************************************************)
CONSTANT Cases   \* return requests of one order

VARIABLES
  inspected,    \* cases whose goods have all been inspected
  paid,         \* cases whose buyer has been paid
  closed,       \* cases that were completed, with the sellers debited
  orderClosed   \* the whole order counts as refunded

vars == <<inspected, paid, closed, orderClosed>>

Init == inspected = {} /\ paid = {} /\ closed = {} /\ orderClosed = FALSE

Inspect(c) ==
  /\ inspected' = inspected \cup {c}
  /\ UNCHANGED <<paid, closed, orderClosed>>

Pay(c) ==
  /\ c \in inspected
  /\ paid' = paid \cup {c}
  /\ UNCHANGED <<inspected, closed, orderClosed>>

(* Cash is handed back by the call that books it.                          *)
Close(c) ==
  /\ c \in inspected
  /\ paid' \in {paid, paid \cup {c}} /\ c \in paid'
  /\ closed' = closed \cup {c}
  /\ orderClosed' \in {orderClosed, TRUE}
  /\ UNCHANGED inspected

Next == \E c \in Cases : Inspect(c) \/ Pay(c) \/ Close(c)

Spec == Init /\ [][Next]_vars
=============================================================================
