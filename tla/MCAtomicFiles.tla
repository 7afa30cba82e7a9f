---------------------------- MODULE MCAtomicFiles ----------------------------
(***************************************************************************)
(* Two writers of one record and three probes of one plan for TLC: a third  *)
(* probe finds what two others have left of each other's receipts.          *)
(***************************************************************************)
EXTENDS AtomicFiles
=============================================================================
