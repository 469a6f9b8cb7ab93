-------------------------------- MODULE MCBuddy --------------------------------
(* Buddy on small instances. *)
EXTENDS Buddy, TLC

CallerSymmetry == Permutations(Caller)
================================================================================
