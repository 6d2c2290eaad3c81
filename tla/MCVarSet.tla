------------------------------ MODULE MCVarSet ------------------------------
(***************************************************************************)
(* Three addresses, two names (so that names repeat), ids at both ends of  *)
(* 0 .. 255, the range that fits var_id, and one beyond, and a count that  *)
(* wraps when all addresses are in use.                                    *)
(***************************************************************************)
EXTENDS VarSet, TLC

CONSTANTS a1, a2, a3, header, null

MCIds == {0, 255, 256}
MCSlots == {a1, a2, a3}
MCSymmetry == Permutations(MCSlots)
=============================================================================
