---------------------------- MODULE MCChatServer -----------------------------
(***************************************************************************)
(* Clients of the Quest service for TLC: two at once are enough for every   *)
(* interleaving around the slot, a third is turned away while it changes    *)
(* hands.                                                                   *)
(***************************************************************************)
EXTENDS ChatServer
=============================================================================
