----------------------------- MODULE MCChatDesk -----------------------------
(* Instances of ChatDesk for TLC. *)
EXTENDS ChatDesk, TLC

CONSTANTS c1, c2, t1

OneChat  == {c1}
TwoChats == {c1, c2}
OneTab   == {t1}
Alike    == Permutations(TwoChats)
=============================================================================
