--------------------------- MODULE MCReturnCases ---------------------------
(* An order of two units of one item, with two return requests and two calls *)
(* at once.                                                                  *)
EXTENDS ReturnCases, TLC

CONSTANTS item, c1, c2, g1, g2, r1, r2

OneItem  == {item}
TwoUnits == [i \in OneItem |-> 2]
TwoCases == {c1, c2}
TwoRefunds == {g1, g2}
TwoCalls == {r1, r2}
(* Cases, refunds at the gateway and calls are told apart by their ids       *)
(* only, and no property names one of them.                                  *)
Renaming == Permutations(TwoCases) \cup Permutations(TwoRefunds) \cup Permutations(TwoCalls)
=============================================================================
