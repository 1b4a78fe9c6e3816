---------------------------- MODULE MCSettlement ----------------------------
(* Two payables whose goods come back in halves, two settlements, two calls. *)
EXTENDS Settlement, TLC

CONSTANTS p1, p2, s1, s2, r1, r2

TwoPayables == {p1, p2}
Fourteen    == [p \in TwoPayables |-> 14]
Half        == {7}
Down        == {0 - 10}
TwoBatches  == {s1, s2}
TwoCalls    == {r1, r2}
(* Payables, which are worth the same, settlements and calls are told apart  *)
(* by their ids only.                                                        *)
Renaming == Permutations(TwoPayables) \cup Permutations(TwoBatches) \cup Permutations(TwoCalls)
=============================================================================
