--------------------------- MODULE MCGlobalStore ---------------------------
(***************************************************************************)
(* GlobalStore with inputs that give every constant an address or a value  *)
(* from 1 to 3.                                                            *)
(***************************************************************************)
EXTENDS GlobalStore

CONSTANTS T1, T2

MCInputs == [1 .. MaxConsts -> 1 .. 3]
MCTypes == {T1, T2}
OneType == {T1}
TypeSymmetry == Permutations(MCTypes)
=============================================================================
