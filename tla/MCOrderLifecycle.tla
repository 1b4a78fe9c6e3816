-------------------------- MODULE MCOrderLifecycle --------------------------
(* Two sellers whose slices differ in price, so that the refund cap can      *)
(* refuse one slice and still admit the other.                               *)
EXTENDS OrderLifecycle

CONSTANTS s1, s2

TwoSlices  == {s1, s2}
Unequal    == [s \in TwoSlices |-> IF s = s1 THEN 2 ELSE 1]
Equal      == [s \in TwoSlices |-> 1]
=============================================================================
