--------------------------- MODULE MCDirectoryTree ----------------------------
(* Two mounts move the two directories of the root into one another.          *)
EXTENDS DirectoryTree

Moves(dir, newdir) == {[op |-> "rename", dir |-> Root, name |-> dir, newdir |-> newdir, newname |-> "x"]}

Crossing ==
    {[rows |-> {Entry("dir", 1, 1, Root, "d"), Entry("dir", 2, 2, Root, "e")}, faults |-> 0,
      calls |-> [m1 |-> Moves("d", 2), m2 |-> Moves("e", 1)]]}
=============================================================================
