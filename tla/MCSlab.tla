--------------------------------- MODULE MCSlab ---------------------------------
(* Slab on small instances. *)
EXTENDS Slab, TLC

PageSymmetry == Permutations(Page) \cup Permutations(Cache)
================================================================================
