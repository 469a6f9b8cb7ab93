--------------------------------- MODULE MCMm ---------------------------------
(* Mm with tables of two entries, and areas of two pages of two bytes. *)
EXTENDS Mm, TLC

MCAddresses == {2, 5}
MCLengths == {3}
VmaSymmetry == Permutations(Vma)
================================================================================
