--------------------------- MODULE MCFamilyRuntime ---------------------------
(***************************************************************************)
(* A family of two tiers, one of two weight files (a split GGUF) and one of *)
(* one, for TLC.                                                            *)
(***************************************************************************)
EXTENDS FamilyRuntime, TLC

CONSTANTS t1, t2, f1, f2, g1

MCFilesOf == (t1 :> {f1, f2}) @@ (t2 :> {g1})
MCTierOrder == <<t1, t2>>

\* The two files of t1 are interchangeable, and so are the commits.
MCSymmetry == Permutations({f1, f2}) \cup Permutations(Commits)
=============================================================================
