----------------------------- MODULE MCAuthKeeper -----------------------------
(* Instances of AuthKeeper for TLC. *)
EXTENDS AuthKeeper, TLC
=============================================================================
