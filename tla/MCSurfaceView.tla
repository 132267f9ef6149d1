---------------------------- MODULE MCSurfaceView ----------------------------
(* Instances of SurfaceView for TLC. *)
EXTENDS SurfaceView, TLC

CONSTANTS c1, c2, m1, m2

NoTab    == {}
OneTab   == {c1}
TwoTabs  == {c1, c2}
NoText   == {}
OneText  == {m1}
TwoTexts == {m1, m2}
TabsAlike == Permutations(TwoTabs)
=============================================================================
