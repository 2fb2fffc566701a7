--------------------------- MODULE MC_ScriptBuffer ---------------------------
(* Instances of ScriptBuffer for TLC: two script objects.                  *)
EXTENDS ScriptBuffer

MC_Symmetry == Permutations(Objs)
=============================================================================
