--------------------------- MODULE MCForgeContainer ---------------------------
(***************************************************************************)
(* nvidia-smi and three libraries, two of them of the same name, for TLC:   *)
(* room for any three of them, but not for all four, nor for three when one *)
(* grows while it is read.  One library is also known by another name.      *)
(***************************************************************************)
EXTENDS ForgeContainer

MCNameOf == <<"nvidia-smi", "libcuda", "libnvidia", "libcuda">>

MCDefaultOf == [n \in Names |-> IF n = "libnvidia.so.1" THEN {3}
                                ELSE {f \in Files : MCNameOf[f] = n}]
=============================================================================
