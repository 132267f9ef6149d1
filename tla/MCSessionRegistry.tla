------------------------- MODULE MCSessionRegistry -------------------------
(* Instances of SessionRegistry for TLC. *)
EXTENDS SessionRegistry, TLC

CONSTANTS c1, c2, t1, t2, t3

OneCaller  == {c1}
TwoCallers == {c1, c2}
ThreeTurns == {t1, t2, t3}
=============================================================================
