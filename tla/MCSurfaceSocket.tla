--------------------------- MODULE MCSurfaceSocket ---------------------------
(* Instances of SurfaceSocket for TLC. *)
EXTENDS SurfaceSocket, TLC
=============================================================================
