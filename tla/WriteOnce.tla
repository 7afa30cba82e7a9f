------------------------------ MODULE WriteOnce ------------------------------
(***************************************************************************)
(* What MODEL_FORGE.md promises of a run directory: it appears in one step, *)
(* complete, whoever else is trying to create it, and from then on nobody   *)
(* but the operator of the machine takes it away.                           *)
(***************************************************************************)
CONSTANTS
    Owners,     \* those who create the directory
    Nothing     \* there is no directory

VARIABLE value      \* whose directory is in place

Init == value = Nothing

Create(o) == value = Nothing /\ value' = o

Remove == value # Nothing /\ value' = Nothing

Next == (\E o \in Owners : Create(o)) \/ Remove

Spec == Init /\ [][Next]_value
=============================================================================
