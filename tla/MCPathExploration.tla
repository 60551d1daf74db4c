------------------------- MODULE MCPathExploration -------------------------
(* PathExploration with three inputs and three states.                     *)
EXTENDS PathExploration, TLC

CONSTANTS i1, i2, i3

MCInputs == {i1, i2, i3}
InputSymmetry == Permutations(MCInputs)
=============================================================================
