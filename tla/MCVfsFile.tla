------------------------------- MODULE MCVfsFile -------------------------------
(* VfsFile on small disks: a FAT32 file and an ext2 file. *)
EXTENDS VfsFile

CONSTANTS file32, file2, b1, b2, b3, b4

MCFat == {file32}
MCExt == {file2}
\* The FAT32 file has one cluster, the ext2 file two blocks.
OneCluster == (file32 :> <<b1>>) @@ (file2 :> <<b3, b4>>)
\* Both have two.
TwoClusters == (file32 :> <<b1, b2>>) @@ (file2 :> <<b3, b4>>)
MCData == {<<1, 0>>, <<1, 0, 1, 1>>, <<0, 1, 0, 0, 1, 1>>}
Ones == {b2, b4}
MCInitByte == [l \in Block |-> IF l \in Ones THEN 1 ELSE 0]
MCInitSize == (file32 :> 1) @@ (file2 :> 4)
LongInitSize == (file32 :> 4) @@ (file2 :> 4)
================================================================================
