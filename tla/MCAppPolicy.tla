---------------------------- MODULE MCAppPolicy ----------------------------
(* One application, with two processes that have a stream each. *)
EXTENDS AppPolicy, TLC

CONSTANTS n1, n2, p1, p2

OfPlayer  == [i \in {p1, p2} |-> "player"]
TwoNodes  == (n1 :> p1) @@ (n2 :> p2)
(* Two of the three numbers are out of range; all four sums differ. *)
WideFile  ==
  {[k \in Keys |-> IF k = "Default" THEN -1 ELSE IF k = "Active" THEN 300 ELSE 20000]}
=============================================================================
