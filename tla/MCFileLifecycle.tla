--------------------------- MODULE MCFileLifecycle ---------------------------
(* Two mounts and the names of one directory; the mounts are exchangeable   *)
(* when none of them has a part of its own.                                 *)
EXTENDS FileLifecycle, TLC

Symmetry ==
  IF Survivors = Mounts /\ Keepers = {} THEN Permutations(Names) \cup Permutations(Mounts)
  ELSE Permutations(Names)
=============================================================================
