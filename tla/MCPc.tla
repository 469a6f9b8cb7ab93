--------------------------------- MODULE MCPc ---------------------------------
(* Pc on small instances. *)
EXTENDS Pc, TLC

ChildSymmetry == Permutations(Child)
================================================================================
