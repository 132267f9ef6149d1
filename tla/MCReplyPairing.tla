--------------------------- MODULE MCReplyPairing ---------------------------
(* An instance of ReplyPairing for TLC.  Turns may be enqueued in any order  *)
(* and nothing else tells them apart, so that they are interchangeable.      *)
EXTENDS ReplyPairing, TLC

CONSTANTS t1, t2, k1

TwoTurns  == {t1, t2}
OneTask   == {k1}
Failing   == {"lost_terminal", "cli_exit", "db_error"}
SameTurns == Permutations(TwoTurns)
=============================================================================
