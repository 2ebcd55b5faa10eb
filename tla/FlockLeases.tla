----------------------------- MODULE FlockLeases ------------------------------
(***************************************************************************)
(* Whole-file leases (lock_leases, lease kind flock).  An acquisition is   *)
(* one transaction under a try-lock of the resource: it prunes expired     *)
(* rows, looks at the first row of another owner and either writes the     *)
(* caller's row or refuses; the outcome is stored under the request token, *)
(* which a replay after a lost COMMIT answer reads back.                   *)
(***************************************************************************)
EXTENDS Integers, FiniteSets

CONSTANTS
    Owners,   \* numbers: the order (session_id, owner_key) of the conflict query
    FlockTtl  \* half lease periods a row lives without being renewed

VARIABLES
    flocks,      \* lock_leases: [owner, typ, age]
    flockCall,   \* the acquisition an owner is in: pc, type, stored outcome
    flockHeld,   \* what each owner was last told it holds
    flockFaults  \* COMMIT answers still to be lost

flockVars == <<flocks, flockCall, flockHeld, flockFaults>>

\* What the results below assume of the constants: a rank per owner, a whole number of
\* half periods.
FlockConstants == Owners \subseteq Nat /\ FlockTtl \in Nat \ {0}

NoFlock == [pc |-> "idle", typ |-> "none", token |-> "none"]

FlockTypeOK ==
    /\ flocks \subseteq [owner : Owners, typ : {"R", "W"}, age : 0..FlockTtl]
    /\ flockCall \in [Owners -> [pc : {"idle", "try", "committed", "replay"}, typ : {"none", "R", "W"},
                                 token : {"none", "granted", "refused"}]]
    /\ flockHeld \in [Owners -> {"none", "R", "W"}]

FlockInit ==
    /\ flocks = {}
    /\ flockCall = [o \in Owners |-> NoFlock]
    /\ flockHeld = [o \in Owners |-> "none"]
    /\ flockFaults = 1

-----------------------------------------------------------------------------
LiveFlocks == {r \in flocks : r.age < FlockTtl}
Foreign(o) == {r \in LiveFlocks : r.owner # o}
First(R) == CHOOSE r \in R : \A x \in R : r.owner <= x.owner

\* Mutant: only an exclusive row is looked for, whatever is asked for.
BlockedByWriter(o, typ) == Foreign(o) # {} /\ First(Foreign(o)).typ = "W"

Blocked(o, typ) ==
    /\ Foreign(o) # {}
    /\ LET other == First(Foreign(o)).typ IN typ = "W" \/ other = "W"

\* An owner that asks for a shared lease in place of its exclusive one gives the
\* exclusive one up.
FlockAcquire(o) ==
    /\ flockCall[o].pc = "idle"
    /\ \E typ \in {"R", "W"} :
          /\ flockCall' = [flockCall EXCEPT ![o] = [pc |-> "try", typ |-> typ, token |-> "none"]]
          /\ flockHeld' = [flockHeld EXCEPT ![o] = IF @ = "W" /\ typ = "R" THEN "R" ELSE @]
    /\ UNCHANGED <<flocks, flockFaults>>

Commit(o, granted) ==
    /\ flockCall' = [flockCall EXCEPT ![o].pc = "committed",
                                      ![o].token = IF granted THEN "granted" ELSE "refused"]
    /\ flocks' = IF granted
                 THEN {r \in LiveFlocks : r.owner # o}
                          \cup {[owner |-> o, typ |-> flockCall[o].typ, age |-> 0]}
                 ELSE LiveFlocks

\* The transaction; somebody else's try-lock on the resource refuses it at once.
acquire_flock_lease(o) ==
    /\ flockCall[o].pc = "try"
    /\ \/ Commit(o, ~Blocked(o, flockCall[o].typ))
       \/ /\ flockCall' = [flockCall EXCEPT ![o].pc = "committed", ![o].token = "refused"]
          /\ UNCHANGED flocks
    /\ UNCHANGED <<flockHeld, flockFaults>>

FlockAnswer(o) ==
    /\ flockCall[o].pc = "committed"
    /\ flockHeld' = [flockHeld EXCEPT ![o] = IF flockCall[o].token = "granted" THEN flockCall[o].typ ELSE @]
    /\ flockCall' = [flockCall EXCEPT ![o] = NoFlock]
    /\ UNCHANGED <<flocks, flockFaults>>

\* The connection breaks around COMMIT: before it the transaction is gone, after it
\* only the answer.
LoseConnection(o) ==
    /\ flockFaults > 0
    /\ flockCall[o].pc \in {"try", "committed"}
    /\ flockFaults' = flockFaults - 1
    /\ flockCall' = [flockCall EXCEPT ![o].pc = "replay"]
    /\ UNCHANGED <<flocks, flockHeld>>

\* The replay probes the token and runs the transaction only when there is none.
Probe(o) ==
    /\ flockCall[o].pc = "replay"
    /\ flockCall' = [flockCall EXCEPT ![o].pc = IF flockCall[o].token = "none" THEN "try" ELSE "committed"]
    /\ UNCHANGED <<flocks, flockHeld, flockFaults>>

release_flock_lease(o) ==
    /\ flockCall[o].pc = "idle" /\ flockHeld[o] # "none"
    /\ flocks' = {r \in flocks : r.owner # o}
    /\ flockHeld' = [flockHeld EXCEPT ![o] = "none"]
    /\ UNCHANGED <<flockCall, flockFaults>>

\* The UPDATE does not ask whether the row is still live.
heartbeat_lock_lease(o) ==
    /\ flockHeld[o] # "none"
    /\ flocks' = {IF r.owner = o THEN [r EXCEPT !.age = 0] ELSE r : r \in flocks}
    /\ UNCHANGED <<flockCall, flockHeld, flockFaults>>

prune_lock_leases ==
    /\ flocks # LiveFlocks
    /\ flocks' = LiveFlocks
    /\ UNCHANGED <<flockCall, flockHeld, flockFaults>>

\* The client goes away without releasing; its row stays until it expires.
Abandon(o) ==
    /\ flockHeld' = [flockHeld EXCEPT ![o] = "none"]
    /\ flockCall' = [flockCall EXCEPT ![o] = NoFlock]
    /\ UNCHANGED <<flocks, flockFaults>>

\* Half a lease period passes: owners that hold a lease renew it before it expires,
\* and an answer arrives before the lease it grants does.
FlockTick ==
    /\ \A r \in flocks :
          flockHeld[r.owner] # "none" \/ flockCall[r.owner].token = "granted" => r.age + 1 < FlockTtl
    /\ flocks' = {[r EXCEPT !.age = IF @ < FlockTtl THEN @ + 1 ELSE @] : r \in flocks}
    /\ UNCHANGED <<flockCall, flockHeld, flockFaults>>

FlockNext ==
    \/ \E o \in Owners : \/ FlockAcquire(o) \/ acquire_flock_lease(o) \/ FlockAnswer(o) \/ LoseConnection(o)
                         \/ Probe(o) \/ release_flock_lease(o) \/ heartbeat_lock_lease(o)
                         \/ Abandon(o)
    \/ prune_lock_leases
    \/ FlockTick

FlockSpec == FlockInit /\ [][FlockNext]_flockVars

-----------------------------------------------------------------------------
\* An owner that was told it has a lease, and renews it in time, shares it with
\* nobody it conflicts with, although the conflict query looks at one row only and
\* an expired row may still be there.
FlockExclusive ==
    \A o, p \in Owners : o # p /\ "W" \in {flockHeld[o], flockHeld[p]} => "none" \in {flockHeld[o], flockHeld[p]}
=============================================================================
