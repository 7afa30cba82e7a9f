--------------------------- MODULE MCForgeLauncher ---------------------------
(***************************************************************************)
(* One read-only path and the output for TLC, and three places of which two  *)
(* overlap, so that the two objects can be apart or one inside the other,    *)
(* and become either by the one move; the paths can also lead to the same    *)
(* object.                                                                  *)
(***************************************************************************)
EXTENDS ForgeLauncher

CONSTANTS apart, outer, inner

MCOverlapping == {<<outer, inner>>}
=============================================================================
