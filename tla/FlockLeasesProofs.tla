--------------------------- MODULE FlockLeasesProofs ---------------------------
(***************************************************************************)
(* Proof, for every number of owners and every lease period, that whole-   *)
(* file leases exclude each other.  The rows decide: an owner has at most  *)
(* one, live rows of different owners never conflict, and behind whatever  *)
(* an owner was told, or is about to be told, is a live row at least as    *)
(* strong.                                                                 *)
(***************************************************************************)
EXTENDS FlockLeases, WellFoundedInduction, TLAPS

(* The inductive invariant. *)

\* An owner has one row at most (the primary key of lock_leases).
OneRow == \A r, s \in flocks : r.owner = s.owner => r = s

\* Live rows of different owners are all shared.
RowsAgree == \A r, s \in LiveFlocks : r.owner # s.owner => r.typ = "R"

\* What an owner holds, or has been granted without having heard of it, is backed by
\* a live row; the row of an exclusive lease is exclusive.
Backed ==
    \A o \in Owners :
        /\ flockHeld[o] # "none" => \E r \in LiveFlocks : r.owner = o /\ (flockHeld[o] = "W" => r.typ = "W")
        /\ flockCall[o].token = "granted" => \E r \in LiveFlocks : r.owner = o /\ r.typ = flockCall[o].typ

\* While an acquisition runs, its type is known, and the owner no longer counts on an
\* exclusive lease it is exchanging for a shared one.
CallSound ==
    \A o \in Owners :
        /\ flockCall[o].pc # "idle" => flockCall[o].typ # "none" /\ (flockCall[o].typ = "R" => flockHeld[o] # "W")
        /\ flockCall[o].pc = "idle" => flockCall[o].token = "none"

FlockInv == FlockTypeOK /\ OneRow /\ RowsAgree /\ Backed /\ CallSound

-----------------------------------------------------------------------------
\* Every nonempty set of ranks has a least one.
LEMMA LeastRank ==
    ASSUME NEW T, T \subseteq Nat, T # {}
    PROVE  \E n \in T : \A m \in T : n <= m
<1> DEFINE Less == {mn \in Nat \X Nat : mn[1] < mn[2]}
<1>1. OpToRel(<, Nat) = Less
  BY ZenonT(60) DEF OpToRel
<1>2. IsWellFoundedOn(Less, Nat)
  BY ZenonT(60), <1>1, NatLessThanWellFounded
<1>3. PICK n \in T : \A m \in T : ~(<<m, n>> \in Less)
  <2> HIDE DEF Less
  <2> QED BY ZenonT(60), <1>2, WFMin
<1>4. ASSUME NEW m \in T PROVE n <= m
  <2>1. m \in Nat /\ n \in Nat /\ <<m, n>> \notin Less
    BY ZenonT(60), <1>3
  <2>2. ~(m < n)
    BY ZenonT(60), <2>1
  <2> QED BY <2>1, <2>2
<1> QED BY ZenonT(60), <1>4

\* The conflict query (ORDER BY session_id, owner_key LIMIT 1) finds a row whenever
\* there is one: among rows of owners with a rank there is a first.
LEMMA FirstExists ==
    ASSUME NEW R, \A r \in R : r.owner \in Nat, R # {}
    PROVE  First(R) \in R
<1>1. {r.owner : r \in R} \subseteq Nat /\ {r.owner : r \in R} # {}
  OBVIOUS
<1>2. \E n \in {r.owner : r \in R} : \A m \in {r.owner : r \in R} : n <= m
  BY ZenonT(60), <1>1, LeastRank
<1>3. \E r \in R : \A x \in R : r.owner <= x.owner
  BY ZenonT(60), <1>2
<1> QED
  BY ZenonT(60), <1>3 DEF First

-----------------------------------------------------------------------------
\* A transaction that is not blocked meets no live row it conflicts with: the first
\* foreign row speaks for all of them, because live rows agree.
LEMMA NotBlocked ==
    ASSUME FlockConstants, FlockInv, NEW o \in Owners, NEW typ \in {"R", "W"}, ~Blocked(o, typ)
    PROVE  \A r \in Foreign(o) : typ = "R" /\ r.typ = "R"
<1> SUFFICES ASSUME NEW r \in Foreign(o) PROVE typ = "R" /\ r.typ = "R"
  OBVIOUS
<1>1. \A x \in Foreign(o) : x \in LiveFlocks /\ x \in flocks /\ x.owner \in Nat
  BY ZenonT(60) DEF Foreign, LiveFlocks, FlockInv, FlockTypeOK, FlockConstants
<1>2. First(Foreign(o)) \in Foreign(o)
  BY ZenonT(60), <1>1, FirstExists
<1>3. typ # "W" /\ First(Foreign(o)).typ # "W"
  BY ZenonT(60) DEF Blocked
<1>4. \A x \in Foreign(o) : x.typ \in {"R", "W"}
  BY ZenonT(60), <1>1 DEF FlockInv, FlockTypeOK
<1>5. CASE r.owner = First(Foreign(o)).owner
  BY ZenonT(60), <1>1, <1>2, <1>3, <1>4, <1>5 DEF FlockInv, OneRow
<1>6. CASE r.owner # First(Foreign(o)).owner
  BY ZenonT(60), <1>1, <1>2, <1>3, <1>6 DEF FlockInv, RowsAgree
<1> QED BY ZenonT(60), <1>5, <1>6

LEMMA InitInv == ASSUME FlockConstants PROVE FlockInit => FlockInv
  BY DEF FlockInit, FlockInv, FlockTypeOK, OneRow, RowsAgree, Backed, CallSound, LiveFlocks, NoFlock,
         FlockConstants

LEMMA AcquireInv ==
    ASSUME FlockInv, NEW o \in Owners, FlockAcquire(o) PROVE FlockInv'
<1> USE DEF FlockInv
<1>1. PICK typ \in {"R", "W"} :
        /\ flockCall' = [flockCall EXCEPT ![o] = [pc |-> "try", typ |-> typ, token |-> "none"]]
        /\ flockHeld' = [flockHeld EXCEPT ![o] = IF @ = "W" /\ typ = "R" THEN "R" ELSE @]
  BY ZenonT(60) DEF FlockAcquire
<1>2. flocks' = flocks /\ LiveFlocks' = LiveFlocks
  BY ZenonT(60) DEF FlockAcquire, LiveFlocks
<1>3. FlockTypeOK'
  BY ZenonT(60), <1>1, <1>2 DEF FlockTypeOK
<1>4. OneRow' /\ RowsAgree'
  BY ZenonT(60), <1>2 DEF OneRow, RowsAgree
<1>5. Backed'
  BY <1>1, <1>2 DEF Backed, FlockTypeOK
<1>6. CallSound'
  BY ZenonT(60), <1>1, <1>2 DEF CallSound, FlockTypeOK
<1> QED BY ZenonT(60), <1>3, <1>4, <1>5, <1>6

FlockCalls == [pc : {"idle", "try", "committed", "replay"}, typ : {"none", "R", "W"},
               token : {"none", "granted", "refused"}]

LEMMA CommittedType ==
    ASSUME NEW f \in [Owners -> FlockCalls], NEW o \in Owners, NEW token \in {"none", "granted", "refused"}
    PROVE  [f EXCEPT ![o].pc = "committed", ![o].token = token] \in [Owners -> FlockCalls]
<1>1. PICK c : c = f[o] OBVIOUS
<1>2. PICK d : d = [c EXCEPT !.pc = "committed"] OBVIOUS
<1>3. c \in FlockCalls BY ZenonT(60), <1>1
<1>4. d \in FlockCalls BY <1>2, <1>3, Zenon DEF FlockCalls
<1>5. PICK e : e = [d EXCEPT !.token = token] OBVIOUS
<1>6. e \in FlockCalls BY <1>4, <1>5, Zenon DEF FlockCalls
<1>7. [f EXCEPT ![o].pc = "committed", ![o].token = token] = [f EXCEPT ![o] = e] BY ZenonT(60), <1>1, <1>2, <1>5
<1> QED BY ZenonT(60), <1>6, <1>7

\* The transaction leaves the live rows of the others alone.
LEMMA CommitInv ==
    ASSUME FlockConstants, FlockInv, NEW o \in Owners, acquire_flock_lease(o) PROVE FlockInv'
<1> USE DEF FlockInv
<1> DEFINE row == [owner |-> o, typ |-> flockCall[o].typ, age |-> 0]
<1>1. flockCall[o].pc = "try" /\ flockCall[o].typ \in {"R", "W"} /\ flockHeld' = flockHeld
  BY ZenonT(60) DEF acquire_flock_lease, CallSound, FlockTypeOK
<1>2. LiveFlocks \subseteq flocks
  BY ZenonT(60) DEF LiveFlocks
<1>3. CASE Commit(o, TRUE) /\ ~Blocked(o, flockCall[o].typ)
  <2>1. flocks' = Foreign(o) \cup {row}
    BY ZenonT(60), <1>3 DEF Commit, Foreign
  <2>2. flockCall' = [flockCall EXCEPT ![o].pc = "committed", ![o].token = "granted"]
    BY ZenonT(60), <1>3 DEF Commit
  <2>3. \A r \in Foreign(o) : flockCall[o].typ = "R" /\ r.typ = "R"
    BY ZenonT(60), <1>1, <1>3, NotBlocked
  <2>4. row \in [owner : Owners, typ : {"R", "W"}, age : 0..FlockTtl]
    BY <1>1 DEF FlockConstants
  <2>5. FlockTypeOK'
    <3>1. flockCall' \in [Owners -> FlockCalls] BY ZenonT(60), <2>2, CommittedType DEF FlockTypeOK, FlockCalls
    <3>2. flocks' \subseteq [owner : Owners, typ : {"R", "W"}, age : 0..FlockTtl]
      BY ZenonT(60), <1>2, <2>1, <2>4 DEF FlockTypeOK, Foreign
    <3> QED BY ZenonT(60), <1>1, <3>1, <3>2 DEF FlockTypeOK, FlockCalls
  <2>6. OneRow'
    BY <1>2, <2>1 DEF OneRow, Foreign
  <2>7. LiveFlocks' = Foreign(o) \cup {row}
    BY <2>1 DEF LiveFlocks, Foreign, FlockConstants
  <2>8. RowsAgree'
    BY <1>1, <2>3, <2>7 DEF RowsAgree, Foreign
  <2>9. Backed'
    <3> SUFFICES ASSUME NEW p \in Owners
                 PROVE /\ flockHeld[p] # "none" => \E r \in LiveFlocks' : r.owner = p /\ (flockHeld[p] = "W" => r.typ = "W")
                       /\ flockCall'[p].token = "granted" => \E r \in LiveFlocks' : r.owner = p /\ r.typ = flockCall'[p].typ
      BY ZenonT(60), <1>1 DEF Backed
    <3>1. CASE p = o
      <4>1. row \in LiveFlocks' /\ row.owner = o /\ row.typ = flockCall[o].typ
        BY ZenonT(60), <2>7
      <4>2. flockHeld[o] = "W" => flockCall[o].typ = "W"
        BY ZenonT(60), <1>1 DEF CallSound
      <4>3. flockCall'[o].typ = flockCall[o].typ
        BY ZenonT(60), <2>2 DEF FlockTypeOK
      <4> HIDE DEF row
      <4> QED BY ZenonT(60), <3>1, <4>1, <4>2, <4>3
    <3>2. CASE p # o
      <4>1. flockCall'[p] = flockCall[p]
        BY ZenonT(60), <2>2, <3>2 DEF FlockTypeOK
      <4>2. \A r \in LiveFlocks : r.owner = p => r \in LiveFlocks'
        BY ZenonT(60), <2>7, <3>2 DEF Foreign
      <4> QED BY <4>1, <4>2 DEF Backed
    <3> QED BY ZenonT(60), <3>1, <3>2
  <2>10. CallSound'
    BY ZenonT(60), <1>1, <2>2 DEF CallSound, FlockTypeOK
  <2> QED BY ZenonT(60), <2>5, <2>6, <2>8, <2>9, <2>10
<1>4. CASE /\ flocks' \in {LiveFlocks, flocks}
           /\ flockCall' = [flockCall EXCEPT ![o].pc = "committed", ![o].token = "refused"]
  <2>1. LiveFlocks' = LiveFlocks
    BY ZenonT(60), <1>4 DEF LiveFlocks
  <2>2. FlockTypeOK'
    <3>1. flockCall' \in [Owners -> FlockCalls] BY ZenonT(60), <1>4, CommittedType DEF FlockTypeOK, FlockCalls
    <3>2. flocks' \subseteq [owner : Owners, typ : {"R", "W"}, age : 0..FlockTtl]
      BY ZenonT(60), <1>2, <1>4 DEF FlockTypeOK
    <3> QED BY ZenonT(60), <1>1, <3>1, <3>2 DEF FlockTypeOK, FlockCalls
  <2>3. OneRow' /\ RowsAgree'
    BY ZenonT(60), <1>2, <1>4, <2>1 DEF OneRow, RowsAgree
  <2>4. Backed'
    BY <1>1, <1>4, <2>1 DEF Backed, FlockTypeOK
  <2>5. CallSound'
    BY ZenonT(60), <1>1, <1>4 DEF CallSound, FlockTypeOK
  <2> QED BY ZenonT(60), <2>2, <2>3, <2>4, <2>5
<1> QED BY ZenonT(60), <1>3, <1>4 DEF acquire_flock_lease, Commit

\* The answer tells the owner what its row says.
LEMMA AnswerInv ==
    ASSUME FlockInv, NEW o \in Owners, FlockAnswer(o) PROVE FlockInv'
<1> USE DEF FlockInv
<1>1. flocks' = flocks /\ LiveFlocks' = LiveFlocks
  BY ZenonT(60) DEF FlockAnswer, LiveFlocks
<1>2. FlockTypeOK'
  BY ZenonT(60), <1>1 DEF FlockTypeOK, FlockAnswer, NoFlock
<1>3. OneRow' /\ RowsAgree'
  BY ZenonT(60), <1>1 DEF OneRow, RowsAgree
<1>4. Backed'
  BY <1>1 DEF Backed, FlockTypeOK, FlockAnswer, NoFlock
<1>5. CallSound'
  BY ZenonT(60), <1>1 DEF CallSound, FlockTypeOK, FlockAnswer, NoFlock
<1> QED BY ZenonT(60), <1>2, <1>3, <1>4, <1>5

\* A lost connection and the probe of the token change where the call stands, not
\* what was decided.
LEMMA ReplayInv ==
    ASSUME FlockInv, NEW o \in Owners, LoseConnection(o) \/ Probe(o) PROVE FlockInv'
<1> USE DEF FlockInv
<1>1. flocks' = flocks /\ LiveFlocks' = LiveFlocks /\ flockHeld' = flockHeld
  BY ZenonT(60) DEF LoseConnection, Probe, LiveFlocks
<1>2. PICK pc \in {"try", "committed", "replay"} : flockCall' = [flockCall EXCEPT ![o].pc = pc]
  BY ZenonT(60) DEF LoseConnection, Probe
<1>3. flockCall[o].pc # "idle"
  BY ZenonT(60) DEF LoseConnection, Probe
<1>4. FlockTypeOK'
  BY ZenonT(60), <1>1, <1>2 DEF FlockTypeOK
<1>5. OneRow' /\ RowsAgree'
  BY ZenonT(60), <1>1 DEF OneRow, RowsAgree
<1>6. Backed'
  BY <1>1, <1>2 DEF Backed, FlockTypeOK
<1>7. CallSound'
  BY ZenonT(60), <1>1, <1>2, <1>3 DEF CallSound, FlockTypeOK
<1> QED BY ZenonT(60), <1>4, <1>5, <1>6, <1>7

LEMMA ReleaseInv ==
    ASSUME FlockInv, NEW o \in Owners, release_flock_lease(o) PROVE FlockInv'
<1> USE DEF FlockInv
<1>1. flocks' \subseteq flocks /\ LiveFlocks' = {r \in LiveFlocks : r.owner # o}
  BY ZenonT(60) DEF release_flock_lease, LiveFlocks
<1>2. FlockTypeOK'
  BY ZenonT(60), <1>1 DEF FlockTypeOK, release_flock_lease
<1>3. OneRow' /\ RowsAgree'
  BY ZenonT(60), <1>1 DEF OneRow, RowsAgree
<1>4. Backed'
  BY <1>1 DEF Backed, CallSound, FlockTypeOK, release_flock_lease
<1>5. CallSound'
  BY ZenonT(60), <1>1 DEF CallSound, FlockTypeOK, release_flock_lease
<1> QED BY ZenonT(60), <1>2, <1>3, <1>4, <1>5

\* The renewal does not look at the expiry, but the one row it can reach is live as
\* long as the owner holds the lease: no expired row comes back to life.
LEMMA HeartbeatInv ==
    ASSUME FlockConstants, FlockInv, NEW o \in Owners, heartbeat_lock_lease(o) PROVE FlockInv'
<1> USE DEF FlockInv
<1> DEFINE renew(r) == IF r.owner = o THEN [r EXCEPT !.age = 0] ELSE r
<1>1. flocks' = {renew(r) : r \in flocks} /\ flockCall' = flockCall /\ flockHeld' = flockHeld
  BY ZenonT(60) DEF heartbeat_lock_lease
<1>2. \A r \in flocks : /\ renew(r) \in [owner : Owners, typ : {"R", "W"}, age : 0..FlockTtl]
                        /\ renew(r).owner = r.owner /\ renew(r).typ = r.typ
  BY DEF FlockTypeOK, FlockConstants
<1>3. \A r \in flocks : r.owner = o => r \in LiveFlocks
  BY DEF heartbeat_lock_lease, Backed, OneRow, LiveFlocks
<1>4. \A r \in flocks : renew(r) \in LiveFlocks' <=> r \in LiveFlocks
  BY SMTT(60), <1>1, <1>3 DEF LiveFlocks, FlockConstants, FlockTypeOK
<1>5. \A x \in LiveFlocks' : \E r \in LiveFlocks : x = renew(r)
  BY ZenonT(60), <1>1, <1>4 DEF LiveFlocks
<1>6. LiveFlocks \subseteq flocks
  BY ZenonT(60) DEF LiveFlocks
<1> HIDE DEF renew
<1>7. FlockTypeOK'
  BY ZenonT(60), <1>1, <1>2 DEF FlockTypeOK
<1>8. OneRow'
  BY <1>1, <1>2 DEF OneRow
<1>9. RowsAgree'
  BY <1>2, <1>5, <1>6 DEF RowsAgree
<1>10. Backed'
  <2> SUFFICES ASSUME NEW p \in Owners
               PROVE /\ flockHeld[p] # "none" => \E r \in LiveFlocks' : r.owner = p /\ (flockHeld[p] = "W" => r.typ = "W")
                     /\ flockCall[p].token = "granted" => \E r \in LiveFlocks' : r.owner = p /\ r.typ = flockCall[p].typ
    BY <1>1 DEF Backed
  <2> QED BY <1>2, <1>4, <1>6 DEF Backed
<1>11. CallSound'
  BY ZenonT(60), <1>1 DEF CallSound
<1> QED BY ZenonT(60), <1>7, <1>8, <1>9, <1>10, <1>11

LEMMA PruneInv ==
    ASSUME FlockInv, prune_lock_leases PROVE FlockInv'
<1> USE DEF FlockInv
<1>1. flocks' \subseteq flocks /\ LiveFlocks' = LiveFlocks /\ flockCall' = flockCall /\ flockHeld' = flockHeld
  BY ZenonT(60) DEF prune_lock_leases, LiveFlocks
<1> QED BY <1>1 DEF FlockTypeOK, OneRow, RowsAgree, Backed, CallSound

\* A client that is gone holds nothing; its row keeps the others out until it expires.
LEMMA AbandonInv ==
    ASSUME FlockInv, NEW o \in Owners, Abandon(o) PROVE FlockInv'
<1> USE DEF FlockInv
<1>1. flocks' = flocks /\ LiveFlocks' = LiveFlocks
  BY ZenonT(60) DEF Abandon, LiveFlocks
<1>2. FlockTypeOK'
  BY ZenonT(60), <1>1 DEF FlockTypeOK, Abandon, NoFlock
<1>3. OneRow' /\ RowsAgree'
  BY ZenonT(60), <1>1 DEF OneRow, RowsAgree
<1>4. Backed' /\ CallSound'
  BY <1>1 DEF Backed, CallSound, FlockTypeOK, Abandon, NoFlock
<1> QED BY ZenonT(60), <1>2, <1>3, <1>4

\* Time only takes rows out of the live ones, and none somebody counts on.
LEMMA TickInv ==
    ASSUME FlockConstants, FlockInv, FlockTick PROVE FlockInv'
<1> USE DEF FlockInv
<1> DEFINE older(r) == [r EXCEPT !.age = IF @ < FlockTtl THEN @ + 1 ELSE @]
<1>1. flocks' = {older(r) : r \in flocks} /\ flockCall' = flockCall /\ flockHeld' = flockHeld
  BY ZenonT(60) DEF FlockTick
<1>2. \A r \in flocks : /\ older(r) \in [owner : Owners, typ : {"R", "W"}, age : 0..FlockTtl]
                        /\ older(r).owner = r.owner /\ older(r).typ = r.typ
  BY DEF FlockTypeOK, FlockConstants
<1>3. \A r \in flocks : older(r) \in LiveFlocks' => r \in LiveFlocks
  BY ZenonT(60), <1>1 DEF LiveFlocks, FlockConstants, FlockTypeOK
<1>4. \A r \in flocks : r.age + 1 < FlockTtl => older(r) \in LiveFlocks'
  <2> SUFFICES ASSUME NEW r \in flocks, r.age + 1 < FlockTtl PROVE older(r) \in LiveFlocks'
    OBVIOUS
  <2>1. r.age \in Nat /\ older(r).age = r.age + 1
    BY DEF FlockTypeOK, FlockConstants
  <2> QED BY ZenonT(60), <1>1, <2>1 DEF LiveFlocks
<1>5. \A r \in flocks : flockHeld[r.owner] # "none" \/ flockCall[r.owner].token = "granted" => older(r) \in LiveFlocks'
  BY ZenonT(60), <1>4 DEF FlockTick
<1>6. \A x \in LiveFlocks' : \E r \in LiveFlocks : x = older(r)
  BY ZenonT(60), <1>1, <1>3 DEF LiveFlocks
<1>7. LiveFlocks \subseteq flocks
  BY ZenonT(60) DEF LiveFlocks
<1> HIDE DEF older
<1>8. FlockTypeOK'
  BY ZenonT(60), <1>1, <1>2 DEF FlockTypeOK
<1>9. OneRow'
  BY <1>1, <1>2 DEF OneRow
<1>10. RowsAgree'
  BY <1>2, <1>6, <1>7 DEF RowsAgree
<1>11. Backed'
  <2> SUFFICES ASSUME NEW p \in Owners
               PROVE /\ flockHeld[p] # "none" => \E r \in LiveFlocks' : r.owner = p /\ (flockHeld[p] = "W" => r.typ = "W")
                     /\ flockCall[p].token = "granted" => \E r \in LiveFlocks' : r.owner = p /\ r.typ = flockCall[p].typ
    BY ZenonT(60), <1>1 DEF Backed
  <2> QED BY <1>2, <1>5, <1>7 DEF Backed
<1>12. CallSound'
  BY ZenonT(60), <1>1 DEF CallSound
<1> QED BY ZenonT(60), <1>8, <1>9, <1>10, <1>11, <1>12

-----------------------------------------------------------------------------
\* The invariant holds in every state, for any set of ranked owners and any lease
\* period: every handler of lock_leases keeps it.
THEOREM FlockInvariant == ASSUME FlockConstants PROVE FlockSpec => []FlockInv
<1>1. FlockInit => FlockInv
  BY ZenonT(60), InitInv
<1>2. FlockInv /\ [FlockNext]_flockVars => FlockInv'
  <2> SUFFICES ASSUME FlockInv, [FlockNext]_flockVars PROVE FlockInv'
    OBVIOUS
  <2>1. CASE UNCHANGED flockVars
    BY <2>1 DEF flockVars, FlockInv, FlockTypeOK, OneRow, RowsAgree, Backed, CallSound, LiveFlocks
  <2>2. ASSUME NEW o \in Owners,
               FlockAcquire(o) \/ acquire_flock_lease(o) \/ FlockAnswer(o) \/ LoseConnection(o) \/ Probe(o)
                 \/ release_flock_lease(o) \/ heartbeat_lock_lease(o) \/ Abandon(o)
        PROVE  FlockInv'
    BY ZenonT(60), <2>2, AcquireInv, CommitInv, AnswerInv, ReplayInv, ReleaseInv, HeartbeatInv, AbandonInv
  <2>3. CASE prune_lock_leases \/ FlockTick
    BY ZenonT(60), <2>3, PruneInv, TickInv
  <2> QED BY ZenonT(60), <2>1, <2>2, <2>3 DEF FlockNext
<1> QED BY <1>1, <1>2, PTL DEF FlockSpec

\* Two owners that were both told they hold a lease on a file, and renew it in time,
\* both share it: acquire_flock_lease grants no exclusive lease beside another, whatever
\* is lost, replayed, abandoned or left to expire.
THEOREM FlockExclusion == ASSUME FlockConstants PROVE FlockSpec => []FlockExclusive
<1>1. FlockInv => FlockExclusive
  <2> SUFFICES ASSUME FlockInv, NEW o \in Owners, NEW p \in Owners, o # p,
                      "W" \in {flockHeld[o], flockHeld[p]}, flockHeld[o] # "none", flockHeld[p] # "none"
               PROVE  FALSE
    BY ZenonT(60) DEF FlockExclusive
  <2>1. PICK r \in LiveFlocks : r.owner = o /\ (flockHeld[o] = "W" => r.typ = "W")
    BY ZenonT(60) DEF FlockInv, Backed
  <2>2. PICK s \in LiveFlocks : s.owner = p /\ (flockHeld[p] = "W" => s.typ = "W")
    BY ZenonT(60) DEF FlockInv, Backed
  <2> QED BY ZenonT(60), <2>1, <2>2 DEF FlockInv, RowsAgree
<1> QED BY <1>1, FlockInvariant, PTL
=============================================================================
