------------------------------ MODULE MCKmalloc --------------------------------
(****************************************************************************)
(* Kmalloc for TLC: the sizes are given by the configurations.              *)
(****************************************************************************)
EXTENDS Kmalloc
================================================================================
