-------------------------- MODULE MCPaymentWebhook --------------------------
(* The two events of one capture, and the failure of an earlier attempt.     *)
EXTENDS PaymentWebhook

CONSTANTS captured, orderPaid, failed, c1, c2

TwoCaptures == {captured, orderPaid}
OneFailure  == {failed}

(* One event overlaps with itself, the others only with each other.          *)
TwoOfOne == [e \in Events |-> IF e = captured THEN {c1, c2} ELSE {c1}]
=============================================================================
