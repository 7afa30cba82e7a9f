------------------------- MODULE MCCollectiveService -------------------------
(***************************************************************************)
(* Three clients of the CollectiveOS service for TLC: one executes, two     *)
(* wait in an order that can be lost, and any of them may ask for /health.  *)
(***************************************************************************)
EXTENDS CollectiveService
=============================================================================
