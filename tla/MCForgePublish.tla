--------------------------- MODULE MCForgePublish ---------------------------
(***************************************************************************)
(* Two processes that simulate one plan of two steps from two sources, and  *)
(* one that verifies the result, for TLC.                                   *)
(***************************************************************************)
EXTENDS ForgePublish, TLC

CONSTANTS w1, w2, v1, s1, s2

MCSourceOf == (w1 :> s1) @@ (w2 :> s2) @@ (v1 :> s1)
=============================================================================
