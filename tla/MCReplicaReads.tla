----------------------------- MODULE MCReplicaReads -----------------------------
(***************************************************************************)
(* Two threads of a mount and one replica, without a fault: what happens   *)
(* to the barrier when both have asked for the position of the primary.    *)
(***************************************************************************)
EXTENDS ReplicaReads

TwoThreads ==
    {[workers |-> 2, replicas |-> 1, faults |-> 0, remote |-> FALSE, lsn |-> 2, gens |-> 2]}
=============================================================================
