--------------------------------- MODULE MCFat ---------------------------------
(* Fat on a small volume. *)
EXTENDS Fat

MCData == {<<1, 2, 1>>}
================================================================================
