------------------------------ MODULE MCExt2Delete ------------------------------
(* Ext2Delete with three files in two pages.  Blocks have 4096 bytes, so that    *)
(* i_blocks, which counts sectors, is eight for each block.  File a has a hole;  *)
(* b has a block more, of attributes, so that the loop may go beyond the direct  *)
(* blocks; c has none.                                                          *)
EXTENDS Ext2Delete

CONSTANTS a, b, c

MCPage == {1, 2}
MCDirectory == <<<<c>>, <<a, b>>>>
MCBlock == [f \in {a, b, c} |-> CASE f = a -> <<0, 20>> [] f = b -> <<21>> [] f = c -> <<>>]
MCBlocks == [f \in {a, b, c} |-> CASE f = a -> 8 [] f = b -> 16 [] f = c -> 0]
================================================================================
