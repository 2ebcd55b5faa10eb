---------------------------- MODULE MCWriteBuffer ----------------------------
(* Deployments of the write buffer that lose acknowledged bytes or fail a    *)
(* read, one per cause; those in which nothing is lost are in MCComponents.  *)
(* One file of at most three bytes in blocks of two.                         *)
EXTENDS WriteBuffer

CONSTANTS h1, h2

FewWrites == {<<0, <<1>>>>, <<1, <<1>>>>, <<2, <<1>>>>}
\* A read inside one block and one across blocks.
MCReads == {<<0, 2>>, <<1, 2>>}

MCCopies == {<<0, 2, 1>>, <<0, 1, 1>>, <<1, 0, 1>>}

\* One handle and whatever is asked for: the base of the deployments.
Plain ==
    [flushBytes |-> 0, recent |-> 4, staging |-> TRUE, handles |-> {h1},
     writes |-> FewWrites, sizes |-> {}, pathSizes |-> {}, truncates |-> FALSE,
     holes |-> {}, copies |-> {}, faults |-> {}, maxFails |-> 0]

\* Deployments that lose acknowledged bytes or fail a read, one per cause.
Remounted == {Plain}
TwoThreads == {[Plain EXCEPT !.handles = {h1, h2}]}
ShortBlock == {[Plain EXCEPT !.sizes = {1}]}
PathTruncated == {[Plain EXCEPT !.pathSizes = {0}]}
UnknownCommit == {[Plain EXCEPT !.faults = {"unknown"}, !.maxFails = 1]}
DirectTransport == {[Plain EXCEPT !.staging = FALSE]}
CleanState == {[Plain EXCEPT !.handles = {h1, h2}, !.copies = MCCopies]}
FailedLoad == {[Plain EXCEPT !.handles = {h1, h2}, !.faults = {"load"}, !.maxFails = 1]}

Symmetry == Permutations(Threads) \cup Permutations(Mounts)
=============================================================================
