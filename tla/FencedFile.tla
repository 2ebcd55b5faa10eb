----------------------------- MODULE FencedFile -----------------------------
(***************************************************************************)
(* What the write-ownership protocol promises about the content of a file, *)
(* without sessions, leases, handles or transactions.                      *)
(*                                                                         *)
(* Each file has an epoch, raised by every grant of exclusive ownership;   *)
(* `held' is the set of files whose ownership is in force, and writer[f]   *)
(* the epoch under which the content of f was last replaced (0 for content *)
(* written without a fence).                                               *)
(***************************************************************************)
EXTENDS Naturals

CONSTANT Files

VARIABLES epoch, held, writer

absVars == <<epoch, held, writer>>

Init == /\ epoch = [f \in Files |-> 0]
        /\ held = {}
        /\ writer = [f \in Files |-> 0]

\* Ownership is granted only when nobody holds it, always under a new, higher
\* epoch; it may be withdrawn at once.
Grant(f) == /\ f \notin held
            /\ epoch'[f] > epoch[f]
            /\ epoch' = [epoch EXCEPT ![f] = epoch'[f]]
            /\ held' \in {held, held \cup {f}}
            /\ UNCHANGED writer

\* Ownership ends, for any number of files at once.
Lapse == /\ held' \subseteq held
         /\ held' # held
         /\ UNCHANGED <<epoch, writer>>

\* Only the latest grantee writes.  It may do so after its ownership lapsed,
\* never after a later grant.
OwnerWrite(f) == /\ epoch[f] > 0
                 /\ writer' = [writer EXCEPT ![f] = epoch[f]]
                 /\ UNCHANGED <<epoch, held>>

\* Unfenced callers write only while nobody owns the file.
LegacyWrite(f) == /\ f \notin held
                  /\ writer' = [writer EXCEPT ![f] = 0]
                  /\ UNCHANGED <<epoch, held>>

Next == \/ Lapse
        \/ \E f \in Files : Grant(f) \/ OwnerWrite(f) \/ LegacyWrite(f)

Spec == Init /\ [][Next]_absVars
=============================================================================
