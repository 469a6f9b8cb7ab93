------------------------------- MODULE MCPathWalk -------------------------------
(* PathWalk on two small volumes: a directory and a file on the first, two     *)
(* files on the second.                                                       *)
EXTENDS PathWalk

MCTree == { [dir |-> "fat",  name |-> "d", inode |-> "d"],
            [dir |-> "fat",  name |-> "f", inode |-> "f"],
            [dir |-> "d",    name |-> "h", inode |-> "h"],
            [dir |-> "ext2", name |-> "g", inode |-> "g"],
            [dir |-> "ext2", name |-> "k", inode |-> "k"] }
MCDir == {"fat", "ext2", "d"}
MCExt2Dir == {"ext2"}

Call(op, absolute, names, dir) == [op |-> op, absolute |-> absolute, names |-> names, dir |-> dir]

\* No directory but the roots becomes the current one.
MCCalls ==
    { Call("open", FALSE, <<"f">>, FALSE),
      Call("open", TRUE,  <<"d", "h">>, FALSE),
      Call("open", TRUE,  <<"ext2", "g">>, FALSE),
      Call("open", TRUE,  <<"ext2", "k">>, FALSE),
      Call("open", TRUE,  <<"m">>, FALSE),
      Call("open", TRUE,  <<"ext2", "m">>, FALSE),
      Call("open", TRUE,  <<"f", "h">>, FALSE),
      Call("open", TRUE,  <<"d", "..", "f">>, TRUE),
      Call("rm",   TRUE,  <<"d", "h">>, FALSE),
      Call("cd",   TRUE,  <<"ext2">>, TRUE),
      Call("cd",   FALSE, <<"..">>, TRUE),
      Call("cd",   TRUE,  <<>>, TRUE) }

\* A directory becomes the current one.
MCCdCalls ==
    { Call("cd",   TRUE, <<"d">>, TRUE),
      Call("open", TRUE, <<"f">>, FALSE),
      Call("open", TRUE, <<"ext2", "g">>, FALSE) }
================================================================================
