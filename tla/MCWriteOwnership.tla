-------------------------- MODULE MCWriteOwnership --------------------------
(* Two mounts on one file; the cfg files bound the handles and the lease time. *)
EXTENDS WriteOwnership, TLC

Symmetry == Permutations(Mounts)
=============================================================================
