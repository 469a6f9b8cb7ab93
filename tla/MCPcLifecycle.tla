----------------------------- MODULE MCPcLifecycle -----------------------------
(* PcLifecycle on small instances. *)
EXTENDS PcLifecycle, TLC

ChildSymmetry == Permutations(Child)
================================================================================
