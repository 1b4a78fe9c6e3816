------------------------- MODULE MCCourierDelivery -------------------------
(* Two slices carried by two couriers at once, with one request on the       *)
(* order beside them.                                                        *)
EXTENDS CourierDelivery, TLC

CONSTANTS s1, s2, t1, t2, c1, c2

TwoSlices == {s1, s2}
TwoTasks  == {t1, t2}
TwoCalls  == {c1, c2}
Prices    == [s \in TwoSlices |-> 1]
(* Assignments and calls are only told apart by their ids, and no property   *)
(* names one of them.                                                        *)
Renaming  == Permutations(TwoTasks) \cup Permutations(TwoCalls)
=============================================================================
