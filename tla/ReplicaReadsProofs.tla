--------------------------- MODULE ReplicaReadsProofs ---------------------------
(***************************************************************************)
(* Proof, for any number of replicas, commits, faults and threads, that    *)
(* the connections of a generation lead to one replica, and that a read    *)
(* from a replica sees what the barrier it was held against stands for.    *)
(***************************************************************************)
EXTENDS ReplicaReads, WellFoundedInduction, TLAPS

(* The inductive invariant. *)

Metrics == [Replicas -> [failures : Nat, open : BOOLEAN]]
Targets == [active : Replicas, gen : Nat, metric : Metrics]
Conns == [t : Replicas, gen : Nat]

ReadPcs == {"primary", "prepare", "acquire", "connect", "check", "require", "compare", "query"}
WriteJobs == [pc : {"capture", "record"}, wrote : Nat, lsn : Nat, base : Nat]
ReadJobs == [pc : ReadPcs, floor : Nat, owed : Nat, required : Nat, slipped : BOOLEAN,
             tries : Nat, attempts : Nat, gen : Nat, conn : [t : Nat, gen : Nat]]
Answers == [pc : {"answered"}, lsn : Nat, floor : Nat, owed : Nat, slipped : BOOLEAN]

\* What a thread does, and that a thread past the checkout has a connection.
JobOK(j) ==
    \/ j = Free
    \/ j \in WriteJobs
    \/ j \in ReadJobs /\ (j.pc \in InUse => j.conn \in Conns)
    \/ j \in Answers

RouteTypes ==
    /\ route \in Routes
    /\ wal \in Nat /\ done \in Nat /\ owed \in Nat /\ failures \in Nat
    /\ replayed \in [Replicas -> Nat]
    /\ barrier \in [lsn : Nat, force : BOOLEAN]
    /\ rt \in Targets
    /\ idle \in Seq(Conns)
    /\ DOMAIN job = Workers
    /\ \A w \in Workers : JobOK(job[w])

\* A connection belongs to a generation that has begun, and one of the current
\* generation leads to the active replica; two of one generation to the same.
OneReplica ==
    \A c \in OpenConns :
        /\ c.gen <= rt.gen
        /\ c.gen = rt.gen => c.t = rt.active
        /\ \A d \in OpenConns : d.gen = c.gen => d.t = c.t

GenInv == RouteTypes /\ OneReplica

-----------------------------------------------------------------------------
\* Every nonempty set of numbers has a least one.
LEMMA LeastNumber ==
    ASSUME NEW T, T \subseteq Nat, T # {}
    PROVE  \E n \in T : \A m \in T : n <= m
<1> DEFINE Less == {mn \in Nat \X Nat : mn[1] < mn[2]}
<1>1. OpToRel(<, Nat) = Less
  BY ZenonT(60) DEF OpToRel
<1>2. IsWellFoundedOn(Less, Nat)
  BY Zenon, <1>1, NatLessThanWellFounded
<1>3. PICK n \in T : \A m \in T : ~(<<m, n>> \in Less)
  <2> HIDE DEF Less
  <2> QED BY Zenon, <1>2, WFMin
<1>4. ASSUME NEW m \in T PROVE n <= m
  <2>1. m \in Nat /\ n \in Nat /\ <<m, n>> \notin Less
    BY ZenonT(60), <1>3
  <2>2. ~(m < n)
    BY ZenonT(60), <2>1
  <2> QED BY <2>1, <2>2
<1> QED BY ZenonT(60), <1>4

\* The checkout takes the last cached connection that fits (take_cached pops from the
\* end): there is one whenever one fits.
LEMMA LastIndex ==
    ASSUME NEW n \in Nat, NEW fit, fit \subseteq 1..n, fit # {}
    PROVE  (CHOOSE i \in fit : \A j \in fit : j <= i) \in fit
<1>1. {n - j : j \in fit} \subseteq Nat /\ {n - j : j \in fit} # {}
  <2>1. \A j \in fit : n - j \in Nat
    OBVIOUS
  <2> QED BY Zenon, <2>1
<1>2. PICK m \in {n - j : j \in fit} : \A k \in {n - j : j \in fit} : m <= k
  BY Zenon, <1>1, LeastNumber
<1>3. PICK i \in fit : m = n - i
  BY ZenonT(60), <1>2
<1>4. \A j \in fit : n - i <= n - j
  BY Zenon, <1>2, <1>3
<1>5. \A j \in fit : j <= i
  BY <1>4
<1> QED BY ZenonT(60), <1>5

\* The mount stays with a replica, or a new generation begins.
Moves(r, x) == x.gen > r.gen \/ (x.gen = r.gen /\ x.active = r.active)

\* select_scored_replica_locked keeps the choice or begins a new generation.
LEMMA SelectionStep ==
    ASSUME NEW r \in Targets, NEW e \in BOOLEAN, NEW f \in BOOLEAN, NEW x \in Selections(r, e, f)
    PROVE  x \in Targets /\ x.gen \in Nat /\ Moves(r, x)
<1> DEFINE best == {t \in Replicas : Usable(r, t) /\ (e => t # r.active)}
           moved == {[r EXCEPT !.active = t, !.gen = @ + 1] : t \in best \ {r.active}}
<1>1. x = r \/ x \in moved
  <2>1. Selections(r, e, f) = CASE (f \/ ~Usable(r, r.active)) /\ best # {} -> moved
                                [] ~f /\ Usable(r, r.active) /\ r.gen < route.gens -> moved \cup {r}
                                [] OTHER -> {r}
    BY Zenon DEF Selections
  <2> HIDE DEF best, moved
  <2>2. CASE (f \/ ~Usable(r, r.active)) /\ best # {}
    BY ZenonT(60), <2>1, <2>2
  <2>3. CASE ~f /\ Usable(r, r.active) /\ r.gen < route.gens
    BY ZenonT(60), <2>1, <2>3
  <2> QED BY ZenonT(60), <2>1, <2>2, <2>3
<1>2. \A y \in moved : y \in Targets /\ y.gen = r.gen + 1 /\ y.metric = r.metric
  <2> SUFFICES ASSUME NEW t \in Replicas, NEW y, y = [r EXCEPT !.active = t, !.gen = @ + 1]
               PROVE  y \in Targets /\ y.gen = r.gen + 1 /\ y.metric = r.metric
    BY Zenon
  <2> HIDE DEF best, moved
  <2>1. r = [active |-> r.active, gen |-> r.gen, metric |-> r.metric] /\ r.gen \in Nat /\ r.metric \in Metrics
    BY ZenonT(60) DEF Targets
  <2>2. y = [active |-> t, gen |-> r.gen + 1, metric |-> r.metric]
    BY Zenon, <2>1
  <2> QED BY SMTT(60), <2>1, <2>2 DEF Targets
<1> HIDE DEF best, moved
<1> QED BY <1>1, <1>2 DEF Targets, Moves

\* record_success: the replica is healthy again.
LEMMA Recovered ==
    ASSUME NEW r \in Targets, NEW x, x = [r EXCEPT !.metric[r.active] = Healthy]
    PROVE  x \in Targets /\ x.gen = r.gen /\ x.active = r.active
  BY Zenon DEF Targets, Metrics, Healthy

\* record_failure
LEMMA FailedType ==
    ASSUME RouteConstants, NEW m \in [failures : Nat, open : BOOLEAN]
    PROVE  Failed(m) \in [failures : Nat, open : BOOLEAN]
  BY DEF Failed, RouteConstants

\* advance_after_failure: nothing, or a new generation.
LEMMA AdvanceStep ==
    ASSUME RouteConstants, NEW r \in Targets, NEW g \in Nat, NEW x \in AdvanceReplica(r, g)
    PROVE  x \in Targets /\ x.gen \in Nat /\ Moves(r, x)
<1>1. CASE r.gen # g
  BY ZenonT(60), <1>1 DEF AdvanceReplica, Targets, Moves
<1>2. CASE r.gen = g
  <2> DEFINE s == [r EXCEPT !.metric[r.active] = Failed(@)]
  <2>1. s \in Targets /\ s.gen = r.gen
    BY ZenonT(60), FailedType DEF Targets, Metrics
  <2>2. PICK y \in Selections(s, TRUE, TRUE) : x = [y EXCEPT !.gen = g + 1]
    BY Zenon, <1>2 DEF AdvanceReplica
  <2> HIDE DEF s
  <2>3. y \in Targets
    BY Zenon, <2>1, <2>2, SelectionStep
  <2> QED BY <1>2, <2>2, <2>3 DEF Targets, Moves
<1> QED BY ZenonT(60), <1>1, <1>2

-----------------------------------------------------------------------------
\* A step in which the target moves only with a new generation, and which opens no
\* connection but one of the generation it leaves behind, keeps the connections apart.
LEMMA ConnsStep ==
    ASSUME GenInv, rt' \in [active : Replicas', gen : Nat, metric : Metrics'],
           Moves(rt, rt'),
           \A c \in OpenConns' : c.gen \in Nat /\ (c \in OpenConns \/ (c.t = rt'.active /\ c.gen = rt'.gen))
    PROVE  OneReplica'
<1>1. rt.gen \in Nat /\ rt'.gen \in Nat
  BY ZenonT(60) DEF GenInv, RouteTypes, Targets
<1>2. \A c \in OpenConns' : c.gen <= rt'.gen /\ (c.gen = rt'.gen => c.t = rt'.active)
  BY <1>1 DEF GenInv, OneReplica, Moves
<1>3. \A c, d \in OpenConns' : d.gen = c.gen => d.t = c.t
  BY ZenonT(60), <1>2 DEF GenInv, OneReplica
<1> QED BY ZenonT(60), <1>2, <1>3 DEF OneReplica

\* The place of a thread tells what it carries.
LEMMA JobShape ==
    ASSUME NEW j, JobOK(j)
    PROVE  /\ j.pc \in {"capture", "record"} => j \in WriteJobs
           /\ j.pc \in ReadPcs => j \in ReadJobs
           /\ j.pc \in InUse => j \in ReadJobs /\ j.conn \in Conns
           /\ j.pc = "answered" => j \in Answers
<1>1. CASE j = Free
  BY ZenonT(60), <1>1 DEF Free, ReadPcs, InUse
<1>2. CASE j \in WriteJobs
  BY ZenonT(60), <1>2 DEF WriteJobs, ReadPcs, InUse
<1>3. CASE j \in ReadJobs /\ (j.pc \in InUse => j.conn \in Conns)
  BY ZenonT(60), <1>3 DEF ReadJobs, ReadPcs, InUse
<1>4. CASE j \in Answers
  BY ZenonT(60), <1>4 DEF Answers, ReadPcs, InUse
<1> QED BY ZenonT(60), <1>1, <1>2, <1>3, <1>4 DEF JobOK

\* What a step of thread w has to show.
LEMMA WorkerStep ==
    ASSUME GenInv, NEW w \in Workers, NEW j, job' = [job EXCEPT ![w] = j], JobOK(j),
           route' = route, replayed' = replayed, wal' \in Nat, done' \in Nat, owed' \in Nat, failures' \in Nat,
           barrier' \in [lsn : Nat, force : BOOLEAN], rt' \in Targets, idle' \in Seq(Conns),
           Moves(rt, rt'),
           \A i \in 1..Len(idle') : idle'[i] \in OpenConns,
           j.pc \in InUse => j.conn \in OpenConns \/ (j.conn.t = rt'.active /\ j.conn.gen = rt'.gen)
    PROVE  GenInv'
<1>1. Replicas' = Replicas /\ Metrics' = Metrics /\ Conns' = Conns /\ Targets' = Targets
  BY ZenonT(60) DEF Replicas, Metrics, Conns, Targets
<1>2. DOMAIN job = Workers
  BY ZenonT(60) DEF GenInv, RouteTypes
<1>3. job'[w] = j /\ \A x \in Workers : x # w => job'[x] = job[x]
  BY ZenonT(60), <1>2
<1>4. DOMAIN job' = Workers /\ \A x \in Workers : JobOK(job[x])
  BY ZenonT(60), <1>2 DEF GenInv, RouteTypes
<1>5. \A x \in Workers : JobOK(job'[x])
  BY ZenonT(60), <1>3, <1>4
<1>6. \A k : JobOK(k)' <=> JobOK(k)
  BY ZenonT(60), <1>1 DEF JobOK, Free
<1>7. RouteTypes'
  BY ZenonT(60), <1>1, <1>4, <1>5, <1>6 DEF GenInv, RouteTypes, JobOK, Free
<1>8. ASSUME NEW c \in OpenConns'
      PROVE  c.gen \in Nat /\ (c \in OpenConns \/ (c.t = rt'.active /\ c.gen = rt'.gen))
  <2>1. CASE c \in {idle'[i] : i \in 1..Len(idle')}
    <3>1. PICK i \in 1..Len(idle') : c = idle'[i]
      BY ZenonT(60), <2>1
    <3>2. c \in Conns /\ c \in OpenConns
      BY <3>1
    <3> QED BY ZenonT(60), <3>2 DEF Conns
  <2>2. CASE \E x \in Workers : job'[x].pc \in InUse /\ c = job'[x].conn
    <3>1. PICK x \in Workers : job'[x].pc \in InUse /\ c = job'[x].conn
      BY ZenonT(60), <2>2
    <3>2. c.gen \in Nat
      BY ZenonT(60), <1>5, <3>1, JobShape DEF Conns
    <3>3. CASE x = w
      BY ZenonT(60), <1>3, <3>1, <3>2, <3>3
    <3>4. CASE x # w
      BY ZenonT(60), <1>3, <3>1, <3>2, <3>4 DEF OpenConns
    <3> QED BY ZenonT(60), <3>3, <3>4
  <2> QED BY ZenonT(60), <1>8, <2>1, <2>2 DEF OpenConns
<1>9. OneReplica'
  BY ZenonT(60), <1>1, <1>8, ConnsStep DEF Targets
<1> QED BY ZenonT(60), <1>7, <1>9 DEF GenInv

LEMMA Facts ==
    ASSUME GenInv
    PROVE  /\ route \in Routes /\ wal \in Nat /\ done \in Nat /\ owed \in Nat /\ failures \in Nat /\ idle \in Seq(Conns)
           /\ barrier \in [lsn : Nat, force : BOOLEAN] /\ barrier.lsn \in Nat
           /\ rt \in Targets /\ rt.gen \in Nat /\ rt.active \in Replicas
           /\ \A i \in 1..Len(idle) : idle[i] \in OpenConns
           /\ \A w \in Workers : /\ JobOK(job[w])
                                 /\ job[w].pc \in InUse => job[w].conn \in OpenConns
           /\ DOMAIN job = Workers
           /\ Moves(rt, rt)
  BY ZenonT(60) DEF GenInv, RouteTypes, OpenConns, Targets, Moves

\* What an assignment to the record of a thread leaves of it.
LEMMA WriteEdit ==
    ASSUME NEW j \in WriteJobs, NEW l \in Nat, NEW b \in Nat,
           NEW k, k = [j EXCEPT !.pc = "record", !.lsn = l, !.base = b]
    PROVE  k \in WriteJobs /\ k.pc = "record" /\ k.lsn = l /\ k.base = b /\ k.wrote = j.wrote
  BY Zenon DEF WriteJobs

\* A statement whose position is about to be asked for.
LEMMA AskingOK ==
    ASSUME NEW n \in Nat
    PROVE  /\ Asking(n) \in WriteJobs /\ JobOK(Asking(n))
           /\ Asking(n).pc = "capture" /\ Asking(n).wrote = n
  BY DEF JobOK, WriteJobs, Asking

\* How a capture ends: with a position and what it covers, or without.
LEMMA Captured ==
    ASSUME GenInv, NEW w \in Workers, CaptureLsn(w)
    PROVE  \E l \in Nat, b \in Nat :
             /\ job' = [job EXCEPT ![w] = [job[w] EXCEPT !.pc = "record", !.lsn = l, !.base = b]]
             /\ l = 0 \/ (l = wal /\ b = Acknowledged(w))
<1> USE Facts
<1>1. job[w] \in WriteJobs /\ job[w].wrote \in Nat /\ job[w].base \in Nat
  <2>1. job[w] \in WriteJobs
    BY ZenonT(60), JobShape DEF CaptureLsn, In
  <2> QED BY ZenonT(60), <2>1 DEF WriteJobs
<1>2. Acknowledged(w) \in Nat /\ wal \in Nat /\ 0 \in Nat
  BY <1>1 DEF Acknowledged
<1>3. CASE job' = [job EXCEPT ![w].pc = "record", ![w].lsn = wal, ![w].base = Acknowledged(w)]
  <2>1. job' = [job EXCEPT ![w] = [job[w] EXCEPT !.pc = "record", !.lsn = wal, !.base = Acknowledged(w)]]
    BY Zenon, <1>3
  <2> QED BY Zenon, <1>2, <2>1
<1>4. CASE job' = [job EXCEPT ![w].pc = "record", ![w].lsn = 0]
  <2>1. job' = [job EXCEPT ![w] = [job[w] EXCEPT !.pc = "record", !.lsn = 0]]
    BY Zenon, <1>4
  <2>2. [job[w] EXCEPT !.pc = "record", !.lsn = 0] = [job[w] EXCEPT !.pc = "record", !.lsn = 0, !.base = job[w].base]
    BY Zenon, <1>1 DEF WriteJobs
  <2> QED BY Zenon, <1>1, <1>2, <2>1, <2>2
<1> QED BY Zenon, <1>3, <1>4 DEF CaptureLsn

LEMMA WriteGen ==
    ASSUME RouteConstants, GenInv, NEW w \in Workers,
           StartWrite(w) \/ StartStatement(w) \/ CaptureLsn(w) \/ RecordLsn(w)
    PROVE  GenInv'
<1> USE Facts
<1>1. CASE StartWrite(w)
  <2>1. wal + 1 \in Nat
    OBVIOUS
  <2>2. JobOK(Asking(wal + 1)) /\ Asking(wal + 1).pc = "capture"
    BY Zenon, <2>1, AskingOK
  <2>3. job' = [job EXCEPT ![w] = Asking(wal + 1)] /\ wal' \in Nat /\ UNCHANGED <<route, replayed, barrier, rt, idle, done, owed, failures>>
    BY Zenon, <1>1, <2>1 DEF StartWrite
  <2> QED BY Zenon, <2>2, <2>3, WorkerStep DEF InUse
<1>2. CASE StartStatement(w)
  <2>1. JobOK(Asking(0)) /\ Asking(0).pc = "capture"
    BY AskingOK
  <2>2. job' = [job EXCEPT ![w] = Asking(0)] /\ UNCHANGED <<route, wal, replayed, barrier, rt, idle, done, owed, failures>>
    BY Zenon, <1>2 DEF StartStatement
  <2> QED BY Zenon, <2>1, <2>2, WorkerStep DEF InUse
<1>3. CASE CaptureLsn(w)
  <2>1. job[w] \in WriteJobs
    BY ZenonT(60), <1>3, JobShape DEF CaptureLsn, In
  <2>2. PICK l \in Nat, b \in Nat : job' = [job EXCEPT ![w] = [job[w] EXCEPT !.pc = "record", !.lsn = l, !.base = b]]
    BY Zenon, <1>3, Captured
  <2>0. PICK j : j = [job[w] EXCEPT !.pc = "record", !.lsn = l, !.base = b]
    BY Zenon
  <2>3. j \in WriteJobs /\ j.pc = "record"
    <3>1. l \in Nat /\ b \in Nat
      BY <2>2
    <3> QED BY ONLY <2>0, <2>1, <3>1, Zenon DEF WriteJobs
  <2>4. JobOK(j)
    BY ZenonT(60), <2>3 DEF JobOK
  <2>5. failures' \in Nat
    BY <1>3 DEF CaptureLsn, Fails
  <2>6. job' = [job EXCEPT ![w] = j] /\ UNCHANGED <<route, wal, replayed, barrier, rt, idle, done, owed>>
    BY ZenonT(60), <1>3, <2>0, <2>2 DEF CaptureLsn
  <2> QED BY Zenon, <2>3, <2>4, <2>5, <2>6, WorkerStep DEF InUse
<1>4. CASE RecordLsn(w)
  <2>1. job[w] \in WriteJobs
    BY ZenonT(60), <1>4, JobShape DEF RecordLsn, In
  <2>2. JobOK(Free) /\ Free.pc = "free"
    BY ZenonT(60) DEF JobOK, Free
  <2>3. barrier' \in [lsn : Nat, force : BOOLEAN] /\ done' \in Nat /\ owed' \in Nat
    BY Zenon, <1>4, <2>1 DEF RecordLsn, WriteJobs, Acknowledged
  <2> QED BY Zenon, <1>4, <2>2, <2>3, WorkerStep DEF RecordLsn, InUse
<1> QED BY ZenonT(60), <1>1, <1>2, <1>3, <1>4

LEMMA ConnsNumbered ==
    ASSUME RouteConstants, route \in Routes, NEW c \in Conns
    PROVE  c \in [t : Nat, gen : Nat]
<1>1. route.replicas \in Nat
  BY ZenonT(60) DEF RouteConstants
<1> QED BY <1>1 DEF Conns, Replicas

\* The record a thread goes on with after a step of a read.
LEMMA ReadOK ==
    ASSUME NEW k \in ReadJobs, k.pc \in InUse => k.conn \in Conns
    PROVE  JobOK(k)
  BY ZenonT(60) DEF JobOK

\* The record a read starts with.
Routed(least) ==
    [pc |-> IF barrier.force THEN "primary" ELSE "prepare",
     floor |-> done, owed |-> least, required |-> 0, slipped |-> FALSE,
     tries |-> 0, attempts |-> 0, gen |-> 0, conn |-> [t |-> 0, gen |-> 0]]

LEMMA PositionsNumbers ==
    ASSUME GenInv, NEW p \in Positions
    PROVE  p \in Nat
<1>1. CASE p = owed
  BY ZenonT(60), <1>1, Facts
<1>2. ASSUME NEW v \in Workers, In(v, "record"), p = job[v].base PROVE p \in Nat
  <2>1. JobOK(job[v]) /\ job[v].pc = "record"
    BY Zenon, <1>2, Facts DEF In
  <2>2. job[v] \in WriteJobs
    BY Zenon, <2>1, JobShape
  <2> QED BY Zenon, <1>2, <2>2 DEF WriteJobs
<1> QED BY ZenonT(60), <1>1, <1>2 DEF Positions

LEMMA StartReadGen ==
    ASSUME GenInv, NEW w \in Workers, StartRouted(w) \/ PreferPrimary(w) \/ QueryPrimary(w) \/ EndRouted(w)
    PROVE  GenInv'
<1> USE Facts
<1>1. CASE StartRouted(w)
  <2>1. PICK least \in Positions : job' = [job EXCEPT ![w] = Routed(least)]
    BY ZenonT(60), <1>1 DEF StartRouted, Routed
  <2>2. least \in Nat
    BY ZenonT(60), PositionsNumbers
  <2>3. Routed(least) \in ReadJobs /\ Routed(least).pc \notin InUse
    BY ZenonT(60), <2>2 DEF ReadJobs, ReadPcs, InUse, Routed
  <2>4. UNCHANGED <<route, wal, replayed, barrier, rt, idle, done, owed, failures>>
    BY ZenonT(60), <1>1 DEF StartRouted
  <2> QED BY Zenon, <2>1, <2>3, <2>4, ReadOK, WorkerStep
<1>2. CASE PreferPrimary(w)
  <2> DEFINE j == [job[w] EXCEPT !.pc = "primary"]
  <2>1. job[w] \in ReadJobs
    BY ZenonT(60), <1>2, JobShape DEF PreferPrimary, In, ReadPcs
  <2>2. j \in ReadJobs /\ j.pc = "primary"
    BY Zenon, <2>1 DEF ReadJobs, ReadPcs
  <2>3. job' = [job EXCEPT ![w] = j] /\ UNCHANGED <<route, wal, replayed, barrier, rt, idle, done, owed, failures>>
    BY ZenonT(60), <1>2 DEF PreferPrimary, Become
  <2> HIDE DEF j
  <2> QED BY Zenon, <2>2, <2>3, ReadOK, WorkerStep DEF InUse
<1>3. CASE QueryPrimary(w)
  <2>1. JobOK(Asking(0)) /\ Asking(0).pc = "capture"
    BY AskingOK
  <2>2. job' = [job EXCEPT ![w] = Asking(0)] /\ UNCHANGED <<route, wal, replayed, barrier, rt, idle, done, owed, failures>>
    BY ZenonT(60), <1>3 DEF QueryPrimary
  <2> QED BY Zenon, <2>1, <2>2, WorkerStep DEF InUse
<1>4. CASE EndRouted(w)
  <2>1. JobOK(Free) /\ Free.pc = "free"
    BY ZenonT(60) DEF JobOK, Free
  <2>2. job' = [job EXCEPT ![w] = Free] /\ UNCHANGED <<route, wal, replayed, barrier, rt, idle, done, owed, failures>>
    BY ZenonT(60), <1>4 DEF EndRouted
  <2> QED BY Zenon, <2>1, <2>2, WorkerStep DEF InUse
<1> QED BY ZenonT(60), <1>1, <1>2, <1>3, <1>4

LEMMA PrepareGen ==
    ASSUME GenInv, NEW w \in Workers, Prepare(w)
    PROVE  GenInv'
<1> USE Facts
<1>1. job[w] \in ReadJobs
  BY ZenonT(60), JobShape DEF Prepare, In, ReadPcs
<1>2. UNCHANGED <<route, wal, replayed, barrier, idle, done, owed, failures>>
  BY ZenonT(60) DEF Prepare
<1>3. CASE job[w].tries = route.replicas
  <2> DEFINE j == [job[w] EXCEPT !.pc = "primary"]
  <2>1. j \in ReadJobs /\ j.pc = "primary"
    BY Zenon, <1>1 DEF ReadJobs, ReadPcs
  <2>2. job' = [job EXCEPT ![w] = j] /\ UNCHANGED rt
    BY ZenonT(60), <1>3 DEF Prepare, Become
  <2> HIDE DEF j
  <2> QED BY Zenon, <1>2, <2>1, <2>2, ReadOK, WorkerStep DEF InUse
<1>4. CASE job[w].tries # route.replicas
  <2>1. rt' \in Selections(rt, FALSE, FALSE)
    BY Zenon, <1>4 DEF Prepare
  <2>2. rt' \in Targets /\ rt'.gen \in Nat /\ Moves(rt, rt')
    BY Zenon, <2>1, SelectionStep
  <2>3. PICK pc \in {"acquire", "primary"} :
          job' = [job EXCEPT ![w] = [job[w] EXCEPT !.pc = pc, !.gen = rt'.gen, !.tries = @ + 1]]
    BY Zenon, <1>4 DEF Prepare
  <2> DEFINE j == [job[w] EXCEPT !.pc = pc, !.gen = rt'.gen, !.tries = @ + 1]
  <2>4. j \in ReadJobs /\ j.pc = pc
    <3>1. job[w].tries + 1 \in Nat
      BY SMTT(60), <1>1 DEF ReadJobs
    <3> QED BY Zenon, <1>1, <2>2, <3>1 DEF ReadJobs, ReadPcs
  <2>5. job' = [job EXCEPT ![w] = j]
    BY ZenonT(60), <2>3
  <2> HIDE DEF j
  <2> QED BY Zenon, <1>2, <2>2, <2>4, <2>5, ReadOK, WorkerStep DEF InUse
<1> QED BY ZenonT(60), <1>3, <1>4

\* take_cached: a connection of the wanted generation, or none is left.
LEMMA AcquireGen ==
    ASSUME RouteConstants, GenInv, NEW w \in Workers, AcquireReplica(w)
    PROVE  GenInv'
<1> USE Facts
<1> DEFINE fit == {i \in 1..Len(idle) : idle[i].gen = job[w].gen}
           n == CHOOSE i \in fit : \A j \in fit : j <= i
<1>1. job[w] \in ReadJobs
  BY ZenonT(60), JobShape DEF AcquireReplica, In, ReadPcs
<1>2. UNCHANGED <<route, wal, replayed, barrier, rt, done, owed, failures>>
  BY ZenonT(60) DEF AcquireReplica
<1>3. CASE fit = {}
  <2> DEFINE j == [job[w] EXCEPT !.pc = "connect", !.gen = 0]
  <2>1. j \in ReadJobs /\ j.pc = "connect"
    BY Zenon, <1>1 DEF ReadJobs, ReadPcs
  <2>2. idle' = <<>> /\ job' = [job EXCEPT ![w] = j]
    BY Zenon, <1>3 DEF AcquireReplica
  <2>3. idle' \in Seq(Conns) /\ \A i \in 1..Len(idle') : idle'[i] \in OpenConns
    BY <2>2
  <2> HIDE DEF j
  <2> QED BY Zenon, <1>2, <2>1, <2>2, <2>3, ReadOK, WorkerStep DEF InUse
<1>4. CASE fit # {}
  <2>1. idle' = SubSeq(idle, 1, n - 1) /\ job' = [job EXCEPT ![w] = [job[w] EXCEPT !.pc = "check", !.gen = 0, !.conn = idle[n]]]
    BY Zenon, <1>4 DEF AcquireReplica
  <2>2. n \in fit
    <3>1. fit \subseteq 1..Len(idle) /\ Len(idle) \in Nat
      OBVIOUS
    <3> HIDE DEF fit
    <3> QED BY Zenon, <1>4, <3>1, LastIndex
  <2>3. n \in 1..Len(idle)
    BY ZenonT(60), <2>2
  <2> HIDE DEF n, fit
  <2>4. idle[n] \in Conns /\ idle[n] \in OpenConns /\ idle[n] \in [t : Nat, gen : Nat]
    <3>1. idle[n] \in Conns /\ idle[n] \in OpenConns
      BY <2>3
    <3> QED BY ZenonT(60), <3>1, ConnsNumbered
  <2> DEFINE j == [job[w] EXCEPT !.pc = "check", !.gen = 0, !.conn = idle[n]]
  <2>5. j \in ReadJobs /\ j.pc = "check" /\ j.conn = idle[n]
    BY Zenon, <1>1, <2>4 DEF ReadJobs, ReadPcs
  <2>6. idle' \in Seq(Conns) /\ \A i \in 1..Len(idle') : idle'[i] \in OpenConns
    BY SMTT(60), <2>1, <2>3
  <2>7. job' = [job EXCEPT ![w] = j]
    BY ZenonT(60), <2>1
  <2> HIDE DEF j
  <2> QED BY Zenon, <1>2, <2>4, <2>5, <2>6, <2>7, ReadOK, WorkerStep
<1> QED BY ZenonT(60), <1>3, <1>4

\* connect_new: the connection belongs to the generation that was chosen for it.
LEMMA ConnectGen ==
    ASSUME RouteConstants, GenInv, NEW w \in Workers, ConnectReplica(w)
    PROVE  GenInv'
<1> USE Facts
<1>1. job[w] \in ReadJobs
  BY ZenonT(60), JobShape DEF ConnectReplica, In, ReadPcs
<1>2. UNCHANGED <<route, wal, replayed, barrier, idle, done, owed>>
  BY ZenonT(60) DEF ConnectReplica
<1>3. PICK r \in Selections(rt, FALSE, FALSE) :
        \/ /\ rt' = [r EXCEPT !.metric[r.active] = Healthy]
           /\ job' = [job EXCEPT ![w].pc = "check", ![w].attempts = 0, ![w].conn = [t |-> r.active, gen |-> r.gen]]
           /\ UNCHANGED failures
        \/ /\ Fails
           /\ rt' \in AdvanceReplica(r, r.gen)
           /\ IF job[w].attempts + 1 = route.replicas THEN Become(w, "primary")
              ELSE job' = [job EXCEPT ![w].attempts = @ + 1]
        \/ rt' = r /\ Become(w, "primary") /\ UNCHANGED failures
  BY Zenon DEF ConnectReplica
<1>4. r \in Targets /\ r.gen \in Nat /\ Moves(rt, r)
  BY Zenon, SelectionStep
<1>5. CASE /\ rt' = [r EXCEPT !.metric[r.active] = Healthy]
           /\ job' = [job EXCEPT ![w].pc = "check", ![w].attempts = 0, ![w].conn = [t |-> r.active, gen |-> r.gen]]
           /\ UNCHANGED failures
  <2> DEFINE j == [job[w] EXCEPT !.pc = "check", !.attempts = 0, !.conn = [t |-> r.active, gen |-> r.gen]]
  <2>1. rt' \in Targets /\ rt'.gen = r.gen /\ rt'.active = r.active
    BY ZenonT(60), <1>4, <1>5, Recovered
  <2>2. [t |-> r.active, gen |-> r.gen] \in Conns /\ [t |-> r.active, gen |-> r.gen] \in [t : Nat, gen : Nat]
    <3>1. [t |-> r.active, gen |-> r.gen] \in Conns
      BY ZenonT(60), <1>4 DEF Targets, Conns
    <3> QED BY ZenonT(60), <3>1, ConnsNumbered
  <2>3. j \in ReadJobs /\ j.pc = "check" /\ j.conn = [t |-> r.active, gen |-> r.gen]
    BY Zenon, <1>1, <2>2 DEF ReadJobs, ReadPcs
  <2>4. job' = [job EXCEPT ![w] = j] /\ UNCHANGED failures
    BY Zenon, <1>5
  <2> HIDE DEF j
  <2>5. JobOK(j) /\ j.conn.t = rt'.active /\ j.conn.gen = rt'.gen
    BY <2>1, <2>2, <2>3, ReadOK
  <2>6. Moves(rt, rt')
    BY ZenonT(60), <1>4, <2>1 DEF Moves
  <2> QED BY Zenon, <1>2, <2>1, <2>4, <2>5, <2>6, WorkerStep
<1>6. CASE /\ Fails
           /\ rt' \in AdvanceReplica(r, r.gen)
           /\ IF job[w].attempts + 1 = route.replicas THEN Become(w, "primary")
              ELSE job' = [job EXCEPT ![w].attempts = @ + 1]
  <2>1. rt' \in Targets /\ rt'.gen \in Nat /\ Moves(r, rt')
    BY ZenonT(60), <1>4, <1>6, AdvanceStep
  <2>2. Moves(rt, rt') /\ failures' \in Nat
    BY SMTT(60), <1>4, <1>6, <2>1 DEF Moves, Fails
  <2>3. PICK j \in ReadJobs : j.pc \notin InUse /\ job' = [job EXCEPT ![w] = j]
    <3>1. job[w].pc = "connect" /\ job[w].attempts + 1 \in Nat
      BY SMTT(60), <1>1 DEF ConnectReplica, In, ReadJobs
    <3>2. [job[w] EXCEPT !.pc = "primary"] \in ReadJobs /\ [job[w] EXCEPT !.pc = "primary"].pc = "primary"
      BY Zenon, <1>1 DEF ReadJobs, ReadPcs
    <3>3. [job[w] EXCEPT !.attempts = @ + 1] \in ReadJobs /\ [job[w] EXCEPT !.attempts = @ + 1].pc = "connect"
      BY Zenon, <1>1, <3>1 DEF ReadJobs, ReadPcs
    <3>4. \/ job' = [job EXCEPT ![w] = [job[w] EXCEPT !.pc = "primary"]]
          \/ job' = [job EXCEPT ![w] = [job[w] EXCEPT !.attempts = @ + 1]]
      BY ZenonT(60), <1>6 DEF Become
    <3> QED BY Zenon, <3>2, <3>3, <3>4 DEF InUse
  <2> QED BY Zenon, <1>2, <2>1, <2>2, <2>3, ReadOK, WorkerStep
<1>7. CASE rt' = r /\ Become(w, "primary") /\ UNCHANGED failures
  <2> DEFINE j == [job[w] EXCEPT !.pc = "primary"]
  <2>1. j \in ReadJobs /\ j.pc = "primary"
    BY Zenon, <1>1 DEF ReadJobs, ReadPcs
  <2>2. job' = [job EXCEPT ![w] = j]
    BY ZenonT(60), <1>7 DEF Become
  <2> HIDE DEF j
  <2> QED BY Zenon, <1>2, <1>4, <1>7, <2>1, <2>2, ReadOK, WorkerStep DEF InUse
<1> QED BY ZenonT(60), <1>3, <1>5, <1>6, <1>7

\* A connection that is given back.
LEMMA GiveBack ==
    ASSUME GenInv, NEW c \in Conns, c \in OpenConns, NEW q, q = Append(idle, c) \/ q = idle
    PROVE  q \in Seq(Conns) /\ \A i \in 1..Len(q) : q[i] \in OpenConns
<1>1. idle \in Seq(Conns) /\ \A i \in 1..Len(idle) : idle[i] \in OpenConns
  BY ZenonT(60), Facts
<1>2. CASE q = Append(idle, c)
  <2>1. q \in Seq(Conns) /\ Len(q) = Len(idle) + 1
    BY <1>1, <1>2
  <2>2. \A i \in 1..Len(q) : q[i] = IF i <= Len(idle) THEN idle[i] ELSE c
    BY <1>1, <1>2, <2>1
  <2> QED BY <1>1, <2>1, <2>2
<1> QED BY ZenonT(60), <1>1, <1>2

\* record_replica_replay: a lagging connection of the current generation is kept; the
\* mount leaves its replica only with a new generation.
LEMMA LagGen ==
    ASSUME RouteConstants, GenInv, NEW w \in Workers, job[w].pc \in InUse, Lagging(w),
           UNCHANGED <<route, wal, replayed, barrier, done, owed, failures>>
    PROVE  GenInv'
<1> USE Facts
<1> DEFINE c == job[w].conn
<1>1. job[w] \in ReadJobs /\ c \in Conns /\ c \in OpenConns
  BY ZenonT(60), JobShape
<1>2. rt' \in Targets /\ rt'.gen \in Nat /\ Moves(rt, rt')
  <2>1. rt' \in Selections(rt, TRUE, TRUE) \/ rt' = rt
    BY Zenon DEF Lagging
  <2> QED BY Zenon, <2>1, SelectionStep
<1>3. idle' = Append(idle, c) \/ idle' = idle
  BY ZenonT(60) DEF Lagging
<1>4. PICK pc \in {"prepare", "primary"} :
        job' = [job EXCEPT ![w] = [job[w] EXCEPT !.conn = [t |-> 0, gen |-> 0], !.pc = pc]]
  BY Zenon DEF Lagging
<1> DEFINE j == [job[w] EXCEPT !.conn = [t |-> 0, gen |-> 0], !.pc = pc]
<1>5. j \in ReadJobs /\ j.pc = pc /\ pc \notin InUse
  BY Zenon, <1>1 DEF ReadJobs, ReadPcs, InUse
<1>6. job' = [job EXCEPT ![w] = j]
  BY ZenonT(60), <1>4
<1> HIDE DEF j, c
<1>7. idle' \in Seq(Conns) /\ \A i \in 1..Len(idle') : idle'[i] \in OpenConns
  BY ZenonT(60), <1>1, <1>3, GiveBack
<1> QED BY Zenon, <1>2, <1>5, <1>6, <1>7, ReadOK, WorkerStep

\* replica_is_caught_up: a thread that goes on keeps its connection.
LEMMA KeepGen ==
    ASSUME GenInv, NEW w \in Workers, job[w].pc \in InUse, NEW j \in ReadJobs,
           j.conn = job[w].conn, job' = [job EXCEPT ![w] = j],
           UNCHANGED <<route, wal, replayed, barrier, rt, idle, done, owed, failures>>
    PROVE  GenInv'
<1> USE Facts
<1>1. j.conn \in Conns /\ j.conn \in OpenConns
  BY ZenonT(60), JobShape
<1> QED BY Zenon, <1>1, ReadOK, WorkerStep

LEMMA CheckGen ==
    ASSUME RouteConstants, GenInv, NEW w \in Workers, LookForced(w) \/ LookRequired(w) \/ CompareReplay(w)
    PROVE  GenInv'
<1> USE Facts
<1>1. job[w].pc \in InUse /\ job[w] \in ReadJobs
  <2>1. job[w].pc \in InUse
    BY ZenonT(60) DEF LookForced, LookRequired, CompareReplay, In, InUse
  <2> QED BY ZenonT(60), <2>1, JobShape
<1>2. UNCHANGED <<route, wal, replayed, barrier, done, owed, failures>>
  BY ZenonT(60) DEF LookForced, LookRequired, CompareReplay
<1>3. ASSUME NEW pc \in ReadPcs, Become(w, pc), UNCHANGED <<rt, idle>> PROVE GenInv'
  <2>1. PICK j : j = [job[w] EXCEPT !.pc = pc]
    BY Zenon
  <2>2. j \in ReadJobs /\ j.conn = job[w].conn
    BY Zenon, <1>1, <2>1 DEF ReadJobs
  <2>3. job' = [job EXCEPT ![w] = j]
    BY Zenon, <1>3, <2>1 DEF Become
  <2> QED BY Zenon, <1>1, <1>2, <1>3, <2>2, <2>3, KeepGen
<1>4. CASE LookForced(w)
  <2>1. CASE barrier.force
    BY Zenon, <1>1, <1>2, <1>4, <2>1, LagGen DEF LookForced
  <2>2. CASE ~barrier.force
    BY Zenon, <1>3, <1>4, <2>2 DEF LookForced, ReadPcs
  <2> QED BY Zenon, <2>1, <2>2
<1>5. CASE LookRequired(w)
  <2>1. Required \in Nat /\ barrier.force \in BOOLEAN
    BY ZenonT(60) DEF Required
  <2>2. PICK pc \in {"query", "compare"} :
          job' = [job EXCEPT ![w] = [job[w] EXCEPT !.pc = pc, !.required = Required, !.slipped = barrier.force]]
    BY Zenon, <1>5 DEF LookRequired
  <2>3. PICK j : j = [job[w] EXCEPT !.pc = pc, !.required = Required, !.slipped = barrier.force]
    BY Zenon
  <2>4. j \in ReadJobs /\ j.conn = job[w].conn
    BY Zenon, <1>1, <2>1, <2>3 DEF ReadJobs, ReadPcs
  <2> QED BY Zenon, <1>1, <1>5, <2>2, <2>3, <2>4, KeepGen DEF LookRequired
<1>6. CASE CompareReplay(w)
  <2>1. CASE replayed[job[w].conn.t] >= job[w].required
    BY Zenon, <1>3, <1>6, <2>1 DEF CompareReplay, ReadPcs
  <2>2. CASE ~(replayed[job[w].conn.t] >= job[w].required)
    BY Zenon, <1>1, <1>2, <1>6, <2>2, LagGen DEF CompareReplay
  <2> QED BY Zenon, <2>1, <2>2
<1> QED BY Zenon, <1>4, <1>5, <1>6

LEMMA QueryGen ==
    ASSUME RouteConstants, GenInv, NEW w \in Workers, QueryReplica(w)
    PROVE  GenInv'
<1> USE Facts
<1> DEFINE c == job[w].conn
           j == [pc |-> "answered", lsn |-> replayed[c.t], floor |-> job[w].floor,
                 owed |-> job[w].owed, slipped |-> job[w].slipped]
<1>1. job[w] \in ReadJobs /\ c \in Conns /\ c \in OpenConns
  BY ZenonT(60), JobShape DEF QueryReplica, In, ReadPcs, InUse
<1>2. UNCHANGED <<route, wal, replayed, barrier, done, owed, failures>> /\ job' = [job EXCEPT ![w] = j]
  BY ZenonT(60) DEF QueryReplica
<1>3. JobOK(j) /\ j.pc = "answered"
  <2>1. replayed[c.t] \in Nat /\ job[w].floor \in Nat /\ job[w].owed \in Nat /\ job[w].slipped \in BOOLEAN
    BY ZenonT(60), <1>1 DEF Conns, ReadJobs, GenInv, RouteTypes
  <2> QED BY ZenonT(60), <2>1 DEF JobOK, Answers
<1>4. rt' \in Targets /\ Moves(rt, rt')
  <2>1. rt' = rt \/ rt' = [rt EXCEPT !.metric[rt.active] = Healthy]
    BY ZenonT(60) DEF QueryReplica
  <2> QED BY ZenonT(60), <2>1, Recovered DEF Moves
<1>5. idle' = Append(idle, c) \/ idle' = idle
  BY ZenonT(60) DEF QueryReplica
<1> HIDE DEF c, j
<1>6. idle' \in Seq(Conns) /\ \A i \in 1..Len(idle') : idle'[i] \in OpenConns
  BY ZenonT(60), <1>1, <1>5, GiveBack
<1> QED BY Zenon, <1>2, <1>3, <1>4, <1>6, WorkerStep DEF InUse

LEMMA FailGen ==
    ASSUME RouteConstants, GenInv, NEW w \in Workers, ReplicaFails(w)
    PROVE  GenInv'
<1> USE Facts
<1> DEFINE j == [job[w] EXCEPT !.pc = "prepare", !.conn = [t |-> 0, gen |-> 0]]
<1>1. job[w] \in ReadJobs /\ job[w].conn.gen \in Nat
  BY ZenonT(60), JobShape DEF ReplicaFails, Conns, InUse
<1>2. UNCHANGED <<route, wal, replayed, barrier, idle, done, owed>> /\ job' = [job EXCEPT ![w] = j] /\ failures' \in Nat
  <2>1. UNCHANGED <<route, wal, replayed, barrier, idle, done, owed>> /\ failures' \in Nat
    BY DEF ReplicaFails, Fails
  <2>2. job' = [job EXCEPT ![w] = j]
    BY Zenon DEF ReplicaFails
  <2> QED BY ZenonT(60), <2>1, <2>2
<1>3. j \in ReadJobs /\ j.pc = "prepare"
  BY Zenon, <1>1 DEF ReadJobs, ReadPcs
<1>4. rt' \in Targets /\ Moves(rt, rt')
  BY ZenonT(60), <1>1, AdvanceStep DEF ReplicaFails
<1> HIDE DEF j
<1> QED BY Zenon, <1>2, <1>3, <1>4, ReadOK, WorkerStep DEF InUse

\* Commits of others, replay and the end of a cooldown open no connection.
LEMMA OutsideGen ==
    ASSUME GenInv, OtherCommit \/ \E t \in Replicas : ReplicaReplays(t) \/ CoolDown(t)
    PROVE  GenInv'
<1> USE Facts
<1>1. UNCHANGED <<route, idle, job, done, owed, failures, barrier>>
  BY ZenonT(60) DEF OtherCommit, ReplicaReplays, CoolDown
<1>2. Replicas' = Replicas /\ Metrics' = Metrics /\ Conns' = Conns /\ Targets' = Targets /\ OpenConns' = OpenConns
  BY <1>1 DEF Replicas, Metrics, Conns, Targets, OpenConns
<1>3. \A w \in Workers : JobOK(job[w])'
  BY ZenonT(60), <1>1, <1>2 DEF JobOK, Free
<1>4. CASE OtherCommit
  BY SMTT(60), <1>1, <1>2, <1>3, <1>4 DEF OtherCommit, GenInv, RouteTypes, OneReplica
<1>5. ASSUME NEW t \in Replicas, ReplicaReplays(t) PROVE GenInv'
  <2>1. replayed' \in [Replicas -> Nat] /\ UNCHANGED <<wal, rt>>
    BY <1>5 DEF ReplicaReplays, GenInv, RouteTypes
  <2> QED BY ZenonT(60), <1>1, <1>2, <1>3, <2>1 DEF GenInv, RouteTypes, OneReplica
<1>6. ASSUME NEW t \in Replicas, CoolDown(t) PROVE GenInv'
  <2>1. rt' = [rt EXCEPT !.metric[t].open = FALSE] /\ UNCHANGED <<wal, replayed>>
    BY ZenonT(60), <1>6 DEF CoolDown
  <2>2. rt' \in Targets /\ rt'.gen = rt.gen /\ rt'.active = rt.active
    BY ZenonT(60), <2>1 DEF Targets, Metrics
  <2> QED BY ZenonT(60), <1>1, <1>2, <1>3, <2>1, <2>2 DEF GenInv, RouteTypes, OneReplica
<1> QED BY ZenonT(60), <1>4, <1>5, <1>6

\* The connections of one generation lead to one replica, the active one while the
\* generation lasts, for any number of threads, replicas and faults.
THEOREM GenerationInvariant == ASSUME RouteConstants PROVE RouteSpec => []GenInv
<1>1. RouteInit => GenInv
  <2> SUFFICES ASSUME RouteInit PROVE GenInv
    OBVIOUS
  <2>1. 1 \in Replicas
    BY DEF RouteInit, RouteConstants, Replicas
  <2>2. rt \in Targets /\ replayed \in [Replicas -> Nat]
    BY ZenonT(60), <2>1 DEF RouteInit, Targets, Metrics, Healthy
  <2>3. OpenConns = {}
    BY DEF RouteInit, OpenConns, Free, InUse
  <2>4. \A w \in Workers : JobOK(job[w])
    BY ZenonT(60) DEF RouteInit, JobOK
  <2>5. RouteTypes
    BY <2>2, <2>4 DEF RouteInit, RouteTypes
  <2> QED BY ZenonT(60), <2>3, <2>5 DEF GenInv, OneReplica
<1>2. GenInv /\ [RouteNext]_routeVars => GenInv'
  <2> SUFFICES ASSUME GenInv, [RouteNext]_routeVars PROVE GenInv'
    OBVIOUS
  <2>1. CASE UNCHANGED routeVars
    BY <2>1 DEF routeVars, GenInv, RouteTypes, OneReplica, OpenConns, Targets, Metrics, Conns, Replicas, JobOK, Free
  <2>2. ASSUME NEW w \in Workers,
               \/ StartWrite(w) \/ StartStatement(w) \/ CaptureLsn(w) \/ RecordLsn(w)
               \/ StartRouted(w) \/ PreferPrimary(w) \/ Prepare(w) \/ AcquireReplica(w)
               \/ ConnectReplica(w) \/ LookForced(w) \/ LookRequired(w) \/ CompareReplay(w) \/ QueryReplica(w) \/ ReplicaFails(w)
               \/ QueryPrimary(w) \/ EndRouted(w)
        PROVE  GenInv'
    BY ZenonT(60), <2>2, WriteGen, StartReadGen, PrepareGen, AcquireGen, ConnectGen, CheckGen, QueryGen, FailGen
  <2>3. CASE OtherCommit \/ \E t \in Replicas : ReplicaReplays(t) \/ CoolDown(t)
    BY ZenonT(60), <2>3, OutsideGen
  <2> QED BY ZenonT(60), <2>1, <2>2, <2>3 DEF RouteNext
<1> QED BY <1>1, <1>2, PTL DEF RouteSpec

-----------------------------------------------------------------------------
(* Reads from replicas with any number of threads. *)

\* What a thread relies on: the position it captured covers its base, which is its own
\* write or was acknowledged; a read is owed no more than the barrier stands for; and
\* the replica it was held against has replayed that, unless it slipped through.
Sound(j) ==
    /\ j.pc \in {"capture", "record"} => j.wrote <= wal
    /\ j.pc = "record" /\ j.lsn > 0 => j.base <= j.lsn /\ (j.base <= done \/ j.base <= j.wrote)
    /\ j.pc \in ReadPcs => j.owed <= owed /\ j.owed <= done
    /\ j.pc = "compare" => j.owed <= j.required
    /\ j.pc = "query" /\ ~j.slipped => j.owed <= replayed[j.conn.t]
    /\ j.pc = "answered" /\ ~j.slipped => j.owed <= j.lsn

\* A position on its way to the barrier.
UnderWay(j) == j.pc = "record" /\ j.lsn > 0

\* The barrier covers what it stands for, or only the primary is asked; and whatever
\* position is recorded next, it covers what the reads on their way are owed.
BarrierInv ==
    /\ done <= wal /\ owed <= done
    /\ barrier.force \/ owed <= barrier.lsn
    /\ \A w \in Workers : Sound(job[w])
    /\ \A w, v \in Workers : job[w].pc \in ReadPcs /\ UnderWay(job[v]) => job[w].owed <= job[v].base

\* What a thread on its way carries.
LEMMA Carried ==
    ASSUME GenInv, NEW x \in Workers
    PROVE  /\ job[x].pc \in {"capture", "record"} => job[x] \in WriteJobs /\ job[x].wrote \in Nat /\ job[x].lsn \in Nat /\ job[x].base \in Nat
           /\ job[x].pc \in ReadPcs => job[x] \in ReadJobs /\ job[x].owed \in Nat /\ job[x].required \in Nat
           /\ job[x].pc \in InUse => job[x].conn.t \in Replicas
           /\ job[x].pc = "answered" => job[x].owed \in Nat /\ job[x].lsn \in Nat
<1>1. JobOK(job[x])
  BY Zenon, Facts
<1>2. /\ job[x].pc \in {"capture", "record"} => job[x] \in WriteJobs
      /\ job[x].pc \in ReadPcs => job[x] \in ReadJobs
      /\ job[x].pc \in InUse => job[x].conn \in Conns
      /\ job[x].pc = "answered" => job[x] \in Answers
  BY Zenon, <1>1, JobShape
<1> QED BY Zenon, <1>2 DEF WriteJobs, ReadJobs, Conns, Answers

LEMMA FreeAside == Free.pc = "free" /\ Free.pc \notin ReadPcs /\ ~UnderWay(Free)
  BY Zenon DEF Free, ReadPcs, UnderWay

\* A step that moves no position: what the other threads rely on stays.
LEMMA StillStep ==
    ASSUME GenInv, BarrierInv, NEW w \in Workers, NEW j, job' = [job EXCEPT ![w] = j],
           UNCHANGED <<wal, done, owed, barrier, replayed>>, Sound(j),
           \A v \in Workers : v # w => /\ j.pc \in ReadPcs /\ UnderWay(job[v]) => j.owed <= job[v].base
                                       /\ job[v].pc \in ReadPcs /\ UnderWay(j) => job[v].owed <= j.base,
           ~(j.pc \in ReadPcs /\ UnderWay(j))
    PROVE  BarrierInv'
<1>1. DOMAIN job = Workers
  BY ZenonT(60), Facts
<1>2. job'[w] = j /\ \A x \in Workers : x # w => job'[x] = job[x]
  BY ZenonT(60), <1>1
<1>3. \A x \in Workers : Sound(job'[x])
  BY Zenon, <1>2 DEF BarrierInv
<1>4. \A x \in Workers : Sound(job[x])'
  BY Zenon, <1>3 DEF Sound
<1>5. ASSUME NEW x \in Workers, NEW v \in Workers, job'[x].pc \in ReadPcs, UnderWay(job'[v])
      PROVE  job'[x].owed <= job'[v].base
  <2>1. CASE x = w /\ v = w
    BY Zenon, <1>2, <1>5, <2>1
  <2>2. CASE x = w /\ v # w
    BY Zenon, <1>2, <1>5, <2>2
  <2>3. CASE x # w /\ v = w
    BY Zenon, <1>2, <1>5, <2>3
  <2>4. CASE x # w /\ v # w
    BY Zenon, <1>2, <1>5, <2>4 DEF BarrierInv
  <2> QED BY Zenon, <2>1, <2>2, <2>3, <2>4
<1>6. \A x, v \in Workers : (job[x].pc \in ReadPcs /\ UnderWay(job[v]) => job[x].owed <= job[v].base)'
  BY Zenon, <1>5 DEF UnderWay
<1> QED BY Zenon, <1>4, <1>6 DEF BarrierInv

\* A thread on its way through a read keeps what it is owed.
LEMMA OnTheWay ==
    ASSUME GenInv, BarrierInv, NEW w \in Workers, job[w].pc \in ReadPcs, NEW j, job' = [job EXCEPT ![w] = j],
           j.pc \in ReadPcs, j.owed = job[w].owed, UNCHANGED <<wal, done, owed, barrier, replayed>>,
           j.pc = "compare" => j.owed <= j.required,
           j.pc = "query" /\ ~j.slipped => j.owed <= replayed[j.conn.t]
    PROVE  BarrierInv'
<1>1. Sound(job[w])
  BY Zenon DEF BarrierInv
<1>2. Sound(j) /\ ~UnderWay(j)
  BY Zenon, <1>1 DEF Sound, ReadPcs, UnderWay
<1>3. \A v \in Workers : UnderWay(job[v]) => j.owed <= job[v].base
  BY Zenon DEF BarrierInv
<1> QED BY Zenon, <1>2, <1>3, StillStep

\* A thread that is free, has been answered or asks for a position takes part in no bound.
LEMMA Aside ==
    ASSUME GenInv, BarrierInv, NEW w \in Workers, NEW j, job' = [job EXCEPT ![w] = j],
           UNCHANGED <<wal, done, owed, barrier, replayed>>, Sound(j), j.pc \in {"free", "answered", "capture"}
    PROVE  BarrierInv'
<1>1. j.pc \notin ReadPcs /\ ~UnderWay(j)
  BY Zenon DEF ReadPcs, UnderWay
<1> QED BY Zenon, <1>1, StillStep

LEMMA StatementBarrier ==
    ASSUME GenInv, BarrierInv, NEW w \in Workers, StartStatement(w) \/ QueryPrimary(w) \/ EndRouted(w)
    PROVE  BarrierInv'
<1>1. UNCHANGED <<wal, done, owed, barrier, replayed>> /\ (job' = [job EXCEPT ![w] = Asking(0)] \/ job' = [job EXCEPT ![w] = Free])
  BY Zenon DEF StartStatement, QueryPrimary, EndRouted
<1>2. Sound(Asking(0)) /\ Asking(0).pc = "capture"
  <2>1. Asking(0).pc = "capture" /\ Asking(0).wrote = 0 /\ 0 <= wal
    BY Facts DEF Asking
  <2> QED BY Zenon, <2>1 DEF Sound, ReadPcs
<1>3. Sound(Free) /\ Free.pc = "free"
  BY Zenon DEF Sound, Free, ReadPcs
<1> QED BY Zenon, <1>1, <1>2, <1>3, Aside

LEMMA StartWriteBarrier ==
    ASSUME GenInv, BarrierInv, NEW w \in Workers, StartWrite(w)
    PROVE  BarrierInv'
<1> USE Facts
<1>1. wal' = wal + 1 /\ wal \in Nat /\ UNCHANGED <<done, owed, barrier, replayed>> /\ job' = [job EXCEPT ![w] = Asking(wal + 1)]
  BY Zenon DEF StartWrite
<1>2. job'[w] = Asking(wal + 1) /\ \A x \in Workers : x # w => job'[x] = job[x]
  BY ZenonT(60), <1>1
<1>3. Asking(wal + 1).pc = "capture" /\ Asking(wal + 1).wrote = wal + 1
  BY Zenon DEF Asking
<1>4. ASSUME NEW x \in Workers PROVE Sound(job[x])'
  <2>1. CASE x = w
    <3>1. job'[x].pc = "capture" /\ job'[x].wrote <= wal'
      BY <1>1, <1>2, <1>3, <2>1
    <3> QED BY Zenon, <3>1 DEF Sound, ReadPcs
  <2>2. CASE x # w
    <3>1. Sound(job[x]) /\ job'[x] = job[x]
      BY Zenon, <1>2, <2>2 DEF BarrierInv
    <3>2. job[x].pc \in {"capture", "record"} => job[x].wrote <= wal'
      <4>1. job[x].pc \in {"capture", "record"} => job[x].wrote \in Nat /\ job[x].wrote <= wal
        BY Zenon, <3>1, Carried DEF Sound
      <4> QED BY ONLY <1>1, <4>1, SMT
    <3> QED BY Zenon, <1>1, <3>1, <3>2 DEF Sound
  <2> QED BY Zenon, <2>1, <2>2
<1>5. \A x, v \in Workers : (job[x].pc \in ReadPcs /\ UnderWay(job[v]) => job[x].owed <= job[v].base)'
  <2> SUFFICES ASSUME NEW x \in Workers, NEW v \in Workers, job'[x].pc \in ReadPcs, UnderWay(job'[v])
               PROVE  job'[x].owed <= job'[v].base
    BY Zenon DEF UnderWay
  <2>1. x # w /\ v # w
    BY Zenon, <1>2, <1>3 DEF ReadPcs, UnderWay
  <2> QED BY Zenon, <1>2, <2>1 DEF BarrierInv
<1>6. done' <= wal'
  BY <1>1 DEF BarrierInv
<1> QED BY Zenon, <1>1, <1>4, <1>5, <1>6 DEF BarrierInv

LEMMA AcknowledgedBounds ==
    ASSUME GenInv, NEW w \in Workers, job[w] \in WriteJobs
    PROVE  /\ Acknowledged(w) \in Nat /\ done <= Acknowledged(w) /\ job[w].wrote <= Acknowledged(w)
           /\ Acknowledged(w) = done \/ Acknowledged(w) = job[w].wrote
<1>1. job[w].wrote \in Nat /\ done \in Nat
  BY Zenon, Facts DEF WriteJobs
<1> QED BY <1>1 DEF Acknowledged

\* refresh_primary_wal_lsn: what was acknowledged before the position was asked for is
\* covered by it, and so is what any read on its way is owed.
LEMMA CaptureBarrier ==
    ASSUME GenInv, BarrierInv, NEW w \in Workers, CaptureLsn(w)
    PROVE  BarrierInv'
<1> USE Facts
<1>1. job[w] \in WriteJobs /\ job[w].pc = "capture" /\ job[w].wrote \in Nat
  <2>1. job[w].pc = "capture"
    BY Zenon DEF CaptureLsn, In
  <2>2. job[w] \in WriteJobs
    BY Zenon, <2>1, JobShape
  <2> QED BY Zenon, <2>1, <2>2 DEF WriteJobs
<1>2. UNCHANGED <<wal, done, owed, barrier, replayed>>
  BY Zenon DEF CaptureLsn
<1>3. PICK l \in Nat, b \in Nat :
        /\ job' = [job EXCEPT ![w] = [job[w] EXCEPT !.pc = "record", !.lsn = l, !.base = b]]
        /\ l = 0 \/ (l = wal /\ b = Acknowledged(w))
  BY Zenon, Captured
<1>4. PICK j : j = [job[w] EXCEPT !.pc = "record", !.lsn = l, !.base = b]
  BY Zenon
<1>5. j.pc = "record" /\ j.lsn = l /\ j.base = b /\ j.wrote = job[w].wrote /\ l \in Nat /\ b \in Nat
  <2>1. l \in Nat /\ b \in Nat
    BY <1>3
  <2> QED BY ONLY <1>1, <1>4, <2>1, Zenon DEF WriteJobs
<1>6. /\ done \in Nat /\ wal \in Nat /\ done <= wal /\ job[w].wrote <= wal
      /\ Acknowledged(w) \in Nat /\ done <= Acknowledged(w)
      /\ Acknowledged(w) = done \/ Acknowledged(w) = job[w].wrote
  BY Zenon, <1>1, AcknowledgedBounds DEF BarrierInv, Sound
<1>7. Sound(j)
  <2>1. j.lsn > 0 => j.base <= j.lsn /\ (j.base <= done \/ j.base <= j.wrote)
    BY <1>1, <1>3, <1>5, <1>6
  <2>2. j.wrote <= wal
    BY Zenon, <1>5, <1>6
  <2> QED BY Zenon, <1>5, <2>1, <2>2 DEF Sound, ReadPcs
<1>8. ASSUME NEW v \in Workers, job[v].pc \in ReadPcs, UnderWay(j) PROVE job[v].owed <= j.base
  <2>1. job[v].owed \in Nat /\ job[v].owed <= done
    BY Zenon, <1>8, Carried DEF BarrierInv, Sound
  <2>2. b = Acknowledged(w)
    BY <1>3, <1>5, <1>8 DEF UnderWay
  <2> QED BY ONLY <1>5, <1>6, <2>1, <2>2, SMT
<1>9. j.pc \notin ReadPcs /\ job' = [job EXCEPT ![w] = j]
  BY Zenon, <1>3, <1>4, <1>5 DEF ReadPcs
<1> QED BY Zenon, <1>2, <1>7, <1>8, <1>9, StillStep

\* record_primary_wal_lsn: the barrier may fall, but not below what reads are owed.
LEMMA RecordBarrier ==
    ASSUME GenInv, BarrierInv, NEW w \in Workers, RecordLsn(w)
    PROVE  BarrierInv'
<1> USE Facts
<1>1. job[w] \in WriteJobs /\ job[w].pc = "record" /\ job[w].wrote \in Nat /\ job[w].lsn \in Nat /\ job[w].base \in Nat
  <2>1. job[w].pc = "record"
    BY Zenon DEF RecordLsn, In
  <2>2. job[w] \in WriteJobs
    BY Zenon, <2>1, JobShape
  <2> QED BY Zenon, <2>1, <2>2 DEF WriteJobs
<1>2. /\ job' = [job EXCEPT ![w] = Free] /\ UNCHANGED <<wal, replayed>>
      /\ done' = Acknowledged(w)
      /\ owed' = IF job[w].lsn > 0 THEN job[w].base ELSE Acknowledged(w)
      /\ barrier' = IF job[w].lsn > 0 THEN [lsn |-> job[w].lsn, force |-> FALSE] ELSE [barrier EXCEPT !.force = TRUE]
  BY Zenon DEF RecordLsn
<1>3. /\ Acknowledged(w) \in Nat /\ done <= Acknowledged(w) /\ job[w].wrote <= Acknowledged(w)
      /\ Acknowledged(w) = done \/ Acknowledged(w) = job[w].wrote
  BY Zenon, <1>1, AcknowledgedBounds
<1>4. /\ done <= wal /\ job[w].wrote <= wal /\ wal \in Nat /\ done \in Nat
      /\ job[w].lsn > 0 => job[w].base <= job[w].lsn /\ (job[w].base <= done \/ job[w].base <= job[w].wrote)
  BY Zenon, <1>1 DEF BarrierInv, Sound
<1>5. done' \in Nat /\ owed' \in Nat /\ done <= done' /\ done' <= wal' /\ owed' <= done'
  BY <1>1, <1>2, <1>3, <1>4
<1>6. barrier'.force \/ owed' <= barrier'.lsn
  <2>1. CASE job[w].lsn > 0
    <3>1. barrier'.lsn = job[w].lsn /\ owed' = job[w].base
      BY Zenon, <1>2, <2>1
    <3> QED BY Zenon, <1>4, <2>1, <3>1
  <2>2. CASE ~(job[w].lsn > 0)
    <3>1. barrier' = [barrier EXCEPT !.force = TRUE] /\ barrier \in [lsn : Nat, force : BOOLEAN]
      BY Zenon, <1>2, <2>2
    <3> QED BY Zenon, <3>1
  <2> QED BY Zenon, <2>1, <2>2
<1>7. job'[w] = Free /\ \A x \in Workers : x # w => job'[x] = job[x]
  BY ZenonT(60), <1>2
<1>8. ASSUME NEW x \in Workers, job[x].pc \in ReadPcs PROVE job[x].owed <= owed' /\ job[x].owed <= done'
  <2>1. job[x].owed \in Nat /\ job[x].owed <= done
    BY Zenon, <1>8, Carried DEF BarrierInv, Sound
  <2>2. job[w].lsn > 0 => job[x].owed <= job[w].base
    BY Zenon, <1>1, <1>8 DEF BarrierInv, UnderWay
  <2> QED BY ONLY <1>1, <1>2, <1>3, <1>4, <2>1, <2>2, SMT
<1>9. ASSUME NEW x \in Workers PROVE Sound(job[x])'
  <2>1. CASE x = w
    <3>1. job'[x].pc = "free"
      BY Zenon, <1>7, <2>1, FreeAside
    <3> QED BY Zenon, <3>1 DEF Sound, ReadPcs
  <2>2. CASE x # w
    <3>1. Sound(job[x]) /\ job'[x] = job[x]
      BY Zenon, <1>7, <2>2 DEF BarrierInv
    <3>2. UnderWay(job[x]) => job[x].base <= done' \/ job[x].base <= job[x].wrote
      <4>1. UnderWay(job[x]) => job[x].base \in Nat /\ (job[x].base <= done \/ job[x].base <= job[x].wrote)
        BY Zenon, <3>1, Carried DEF UnderWay, Sound
      <4> QED BY ONLY <1>4, <1>5, <4>1, SMT
    <3> QED BY Zenon, <1>2, <1>8, <3>1, <3>2 DEF Sound, UnderWay
  <2> QED BY Zenon, <2>1, <2>2
<1>10. \A x, v \in Workers : (job[x].pc \in ReadPcs /\ UnderWay(job[v]) => job[x].owed <= job[v].base)'
  <2> SUFFICES ASSUME NEW x \in Workers, NEW v \in Workers, job'[x].pc \in ReadPcs, UnderWay(job'[v])
               PROVE  job'[x].owed <= job'[v].base
    BY Zenon DEF UnderWay
  <2>1. x # w /\ v # w
    BY Zenon, <1>7, FreeAside
  <2> QED BY Zenon, <1>7, <2>1 DEF BarrierInv
<1> QED BY Zenon, <1>5, <1>6, <1>9, <1>10 DEF BarrierInv

\* with_read_connection: a read is owed no more than any barrier it may meet.
LEMMA StartReadBarrier ==
    ASSUME GenInv, BarrierInv, NEW w \in Workers, StartRouted(w)
    PROVE  BarrierInv'
<1> USE Facts
<1>1. PICK least \in Positions : (\A p \in Positions : least <= p) /\ job' = [job EXCEPT ![w] = Routed(least)]
  BY ZenonT(60) DEF StartRouted, Routed
<1>2. UNCHANGED <<wal, done, owed, barrier, replayed>>
  BY Zenon DEF StartRouted
<1>3. least \in Nat /\ least <= owed /\ least <= done
  <2>1. least \in Nat
    BY Zenon, PositionsNumbers
  <2>2. owed \in Positions /\ owed <= done
    BY Zenon DEF Positions, BarrierInv
  <2>3. least <= owed
    BY Zenon, <1>1, <2>2
  <2> QED BY <2>1, <2>2, <2>3
<1>4. PICK j : j = Routed(least)
  BY Zenon
<1>5. j.owed = least /\ j.pc \in {"primary", "prepare"}
  BY Zenon, <1>4 DEF Routed
<1>6. Sound(j) /\ ~UnderWay(j)
  BY Zenon, <1>3, <1>5 DEF Sound, UnderWay, ReadPcs
<1>7. ASSUME NEW v \in Workers, UnderWay(job[v]) PROVE j.owed <= job[v].base
  <2>1. job[v].base \in Positions
    BY Zenon, <1>7 DEF Positions, UnderWay, In
  <2> QED BY Zenon, <1>1, <1>5, <2>1
<1> QED BY Zenon, <1>1, <1>2, <1>4, <1>6, <1>7, StillStep

\* The steps to a connection, and the ways to another replica or to the primary.
LEMMA WayBarrier ==
    ASSUME GenInv, BarrierInv, NEW w \in Workers,
           PreferPrimary(w) \/ Prepare(w) \/ AcquireReplica(w) \/ ConnectReplica(w) \/ ReplicaFails(w)
    PROVE  BarrierInv'
<1>1. job[w].pc \in ReadPcs /\ UNCHANGED <<wal, done, owed, barrier, replayed>>
  BY Zenon DEF PreferPrimary, Prepare, AcquireReplica, ConnectReplica, ReplicaFails, In, ReadPcs
<1>2. job[w] \in ReadJobs
  BY ZenonT(60), <1>1, Facts, JobShape
<1>3. w \in DOMAIN job
  BY ZenonT(60), Facts
<1>4. CASE PreferPrimary(w)
  <2>1. job' = [job EXCEPT ![w] = [job[w] EXCEPT !.pc = "primary"]]
    BY ZenonT(60), <1>4 DEF PreferPrimary, Become
  <2>2. job'[w].pc = "primary" /\ job'[w].owed = job[w].owed
    BY ZenonT(60), <1>2, <1>3, <2>1 DEF ReadJobs
  <2> QED BY Zenon, <1>1, <2>1, <2>2, OnTheWay DEF ReadPcs
<1>5. CASE Prepare(w)
  <2>1. CASE job[w].tries = route.replicas
    <3>1. job' = [job EXCEPT ![w] = [job[w] EXCEPT !.pc = "primary"]]
      BY ZenonT(60), <1>5, <2>1 DEF Prepare, Become
    <3>2. job'[w].pc = "primary" /\ job'[w].owed = job[w].owed
      BY ZenonT(60), <1>2, <1>3, <3>1 DEF ReadJobs
    <3> QED BY Zenon, <1>1, <3>1, <3>2, OnTheWay DEF ReadPcs
  <2>2. CASE job[w].tries # route.replicas
    <3>1. PICK pc \in {"acquire", "primary"} :
            job' = [job EXCEPT ![w] = [job[w] EXCEPT !.pc = pc, !.gen = rt'.gen, !.tries = @ + 1]]
      BY Zenon, <1>5, <2>2 DEF Prepare
    <3>2. job'[w].pc = pc /\ job'[w].owed = job[w].owed
      BY Zenon, <1>2, <1>3, <3>1 DEF ReadJobs
    <3> QED BY Zenon, <1>1, <3>1, <3>2, OnTheWay DEF ReadPcs
  <2> QED BY ZenonT(60), <2>1, <2>2
<1>6. CASE AcquireReplica(w)
  <2>1. CASE job' = [job EXCEPT ![w] = [job[w] EXCEPT !.pc = "connect", !.gen = 0]]
    <3>1. job'[w].pc = "connect" /\ job'[w].owed = job[w].owed
      BY Zenon, <1>2, <1>3, <2>1 DEF ReadJobs
    <3> QED BY Zenon, <1>1, <2>1, <3>1, OnTheWay DEF ReadPcs
  <2>2. ASSUME NEW c, job' = [job EXCEPT ![w] = [job[w] EXCEPT !.pc = "check", !.gen = 0, !.conn = c]]
        PROVE  BarrierInv'
    <3>1. job'[w].pc = "check" /\ job'[w].owed = job[w].owed
      BY Zenon, <1>2, <1>3, <2>2 DEF ReadJobs
    <3> QED BY Zenon, <1>1, <2>2, <3>1, OnTheWay DEF ReadPcs
  <2> QED BY ZenonT(60), <1>6, <2>1, <2>2 DEF AcquireReplica
<1>7. CASE ConnectReplica(w)
  <2>1. CASE job' = [job EXCEPT ![w] = [job[w] EXCEPT !.pc = "primary"]]
    <3>1. job'[w].pc = "primary" /\ job'[w].owed = job[w].owed
      BY ZenonT(60), <1>2, <1>3, <2>1 DEF ReadJobs
    <3> QED BY Zenon, <1>1, <2>1, <3>1, OnTheWay DEF ReadPcs
  <2>2. CASE job' = [job EXCEPT ![w] = [job[w] EXCEPT !.attempts = @ + 1]]
    <3>1. job'[w].pc = job[w].pc /\ job'[w].owed = job[w].owed
      BY ZenonT(60), <1>2, <1>3, <2>2 DEF ReadJobs
    <3>2. job[w].pc = "connect"
      BY ZenonT(60), <1>7 DEF ConnectReplica, In
    <3> QED BY Zenon, <1>1, <2>2, <3>1, <3>2, OnTheWay DEF ReadPcs
  <2>3. ASSUME NEW c, job' = [job EXCEPT ![w] = [job[w] EXCEPT !.pc = "check", !.attempts = 0, !.conn = c]]
        PROVE  BarrierInv'
    <3>1. job'[w].pc = "check" /\ job'[w].owed = job[w].owed
      BY Zenon, <1>2, <1>3, <2>3 DEF ReadJobs
    <3> QED BY Zenon, <1>1, <2>3, <3>1, OnTheWay DEF ReadPcs
  <2>4. \/ job' = [job EXCEPT ![w].pc = "primary"]
        \/ job' = [job EXCEPT ![w].attempts = @ + 1]
        \/ \E c : job' = [job EXCEPT ![w].pc = "check", ![w].attempts = 0, ![w].conn = c]
    BY Zenon, <1>7 DEF ConnectReplica, Become
  <2>5. ASSUME NEW c, job' = [job EXCEPT ![w].pc = "check", ![w].attempts = 0, ![w].conn = c]
        PROVE  job' = [job EXCEPT ![w] = [job[w] EXCEPT !.pc = "check", !.attempts = 0, !.conn = c]]
    BY ZenonT(60), <2>5, <1>2, <1>3
  <2> QED BY ZenonT(60), <2>1, <2>2, <2>3, <2>4, <2>5
<1>8. CASE ReplicaFails(w)
  <2>1. job' = [job EXCEPT ![w] = [job[w] EXCEPT !.pc = "prepare", !.conn = [t |-> 0, gen |-> 0]]]
    BY Zenon, <1>8 DEF ReplicaFails
  <2>2. job'[w].pc = "prepare" /\ job'[w].owed = job[w].owed
    BY Zenon, <1>2, <1>3, <2>1 DEF ReadJobs
  <2> QED BY Zenon, <1>1, <2>1, <2>2, OnTheWay DEF ReadPcs
<1> QED BY ZenonT(60), <1>4, <1>5, <1>6, <1>7, <1>8

\* A lagging replica is not asked.
LEMMA LagBarrier ==
    ASSUME GenInv, BarrierInv, NEW w \in Workers, job[w].pc \in ReadPcs, Lagging(w),
           UNCHANGED <<wal, done, owed, barrier, replayed>>
    PROVE  BarrierInv'
<1>1. job[w] \in ReadJobs /\ w \in DOMAIN job
  BY Zenon, Carried, Facts
<1>2. PICK pc \in {"prepare", "primary"} :
        job' = [job EXCEPT ![w] = [job[w] EXCEPT !.conn = [t |-> 0, gen |-> 0], !.pc = pc]]
  BY Zenon DEF Lagging
<1>3. job'[w].pc = pc /\ job'[w].owed = job[w].owed
  BY Zenon, <1>1, <1>2 DEF ReadJobs
<1> QED BY Zenon, <1>2, <1>3, OnTheWay DEF ReadPcs

\* replica_is_caught_up: the position a read is held against covers what it is owed, and
\* the replica it is let through to has replayed it, unless the primary was forced in
\* between.
LEMMA CheckBarrier ==
    ASSUME RouteConstants, GenInv, BarrierInv, NEW w \in Workers, LookForced(w) \/ LookRequired(w) \/ CompareReplay(w)
    PROVE  BarrierInv'
<1> USE Facts
<1>1. job[w].pc \in InUse /\ job[w].pc \in ReadPcs
  BY Zenon DEF LookForced, LookRequired, CompareReplay, In, InUse, ReadPcs
<1>2. /\ job[w] \in ReadJobs /\ job[w].owed \in Nat /\ job[w].required \in Nat
      /\ job[w].conn.t \in Replicas /\ w \in DOMAIN job
  BY Zenon, <1>1, Carried
<1>3. Sound(job[w]) /\ job[w].owed <= owed /\ replayed[job[w].conn.t] \in Nat
  BY Zenon, <1>1, <1>2 DEF BarrierInv, Sound, GenInv, RouteTypes
<1>4. UNCHANGED <<wal, done, owed, barrier, replayed>>
  BY Zenon DEF LookForced, LookRequired, CompareReplay
<1>5. CASE LookForced(w)
  <2>1. CASE barrier.force
    BY Zenon, <1>1, <1>4, <1>5, <2>1, LagBarrier DEF LookForced
  <2>2. CASE ~barrier.force
    <3>1. job' = [job EXCEPT ![w] = [job[w] EXCEPT !.pc = "require"]]
      BY Zenon, <1>5, <2>2 DEF LookForced, Become
    <3>2. job'[w].pc = "require" /\ job'[w].owed = job[w].owed
      BY Zenon, <1>2, <3>1 DEF ReadJobs
    <3> QED BY Zenon, <1>1, <1>4, <3>1, <3>2, OnTheWay DEF ReadPcs
  <2> QED BY Zenon, <2>1, <2>2
<1>6. CASE LookRequired(w)
  <2>1. Required \in Nat /\ barrier.force \in BOOLEAN /\ owed \in Nat /\ barrier.lsn \in Nat
    BY Zenon DEF Required
  <2>2. PICK pc \in {"query", "compare"} :
          /\ job' = [job EXCEPT ![w] = [job[w] EXCEPT !.pc = pc, !.required = Required, !.slipped = barrier.force]]
          /\ pc = "query" <=> Required = 0
    BY Zenon, <1>6 DEF LookRequired
  <2>3. PICK j : j = [job[w] EXCEPT !.pc = pc, !.required = Required, !.slipped = barrier.force]
    BY Zenon
  <2>4. j.pc = pc /\ j.owed = job[w].owed /\ j.required = Required /\ j.slipped = barrier.force /\ j.conn = job[w].conn
    BY Zenon, <1>2, <2>1, <2>3 DEF ReadJobs
  <2>5. ~barrier.force => Required = barrier.lsn /\ owed <= barrier.lsn
    BY Zenon DEF Required, BarrierInv
  <2>6. barrier.force => Required = 0
    BY Zenon DEF Required
  <2>7. ~barrier.force => job[w].owed <= Required
    BY ONLY <1>2, <1>3, <2>1, <2>5, SMT
  <2>8. ~barrier.force /\ Required = 0 => job[w].owed <= replayed[job[w].conn.t]
    BY ONLY <1>2, <1>3, <2>7, SMT
  <2>9. j.pc = "compare" => j.owed <= j.required
    BY Zenon, <2>2, <2>4, <2>6, <2>7
  <2>10. j.pc = "query" /\ ~j.slipped => j.owed <= replayed[j.conn.t]
    BY Zenon, <2>2, <2>4, <2>8
  <2>11. j.pc \in ReadPcs /\ job' = [job EXCEPT ![w] = j]
    BY Zenon, <2>2, <2>3, <2>4 DEF ReadPcs
  <2> QED BY Zenon, <1>1, <1>4, <2>4, <2>9, <2>10, <2>11, OnTheWay
<1>7. CASE CompareReplay(w)
  <2>1. CASE replayed[job[w].conn.t] >= job[w].required
    <3>1. job' = [job EXCEPT ![w] = [job[w] EXCEPT !.pc = "query"]] /\ job[w].pc = "compare"
      BY Zenon, <1>7, <2>1 DEF CompareReplay, Become, In
    <3>2. job'[w].pc = "query" /\ job'[w].owed = job[w].owed /\ job'[w].conn = job[w].conn
      BY Zenon, <1>2, <3>1 DEF ReadJobs
    <3>3. job[w].owed <= job[w].required
      BY Zenon, <1>3, <3>1 DEF Sound
    <3>4. job[w].owed <= replayed[job[w].conn.t]
      BY ONLY <1>2, <1>3, <2>1, <3>3, SMT
    <3>5. PICK j : j = [job[w] EXCEPT !.pc = "query"]
      BY Zenon
    <3>6. j.pc = "query" /\ j.owed = job[w].owed /\ j.conn = job[w].conn
      BY Zenon, <1>2, <3>5 DEF ReadJobs
    <3> QED BY Zenon, <1>1, <1>4, <3>1, <3>4, <3>5, <3>6, OnTheWay DEF ReadPcs
  <2>2. CASE ~(replayed[job[w].conn.t] >= job[w].required)
    BY Zenon, <1>1, <1>4, <1>7, <2>2, LagBarrier DEF CompareReplay
  <2> QED BY Zenon, <2>1, <2>2
<1> QED BY Zenon, <1>5, <1>6, <1>7

LEMMA QueryBarrier ==
    ASSUME GenInv, BarrierInv, NEW w \in Workers, QueryReplica(w)
    PROVE  BarrierInv'
<1>1. Sound(job[w]) /\ job[w].pc = "query"
  BY Zenon DEF BarrierInv, QueryReplica, In
<1>2. PICK j : j = [pc |-> "answered", lsn |-> replayed[job[w].conn.t], floor |-> job[w].floor,
                    owed |-> job[w].owed, slipped |-> job[w].slipped]
  BY Zenon
<1>3. job' = [job EXCEPT ![w] = j] /\ UNCHANGED <<wal, done, owed, barrier, replayed>>
  BY Zenon, <1>2 DEF QueryReplica
<1>4. Sound(j) /\ j.pc = "answered"
  BY Zenon, <1>1, <1>2 DEF Sound, ReadPcs
<1> QED BY Zenon, <1>3, <1>4, Aside

\* Positions only grow: what was covered stays covered.
LEMMA OutsideBarrier ==
    ASSUME GenInv, BarrierInv, OtherCommit \/ \E t \in Replicas : ReplicaReplays(t) \/ CoolDown(t)
    PROVE  BarrierInv'
<1> USE Facts
<1>1. UNCHANGED <<job, done, owed, barrier>> /\ wal' \in Nat /\ wal <= wal'
  BY DEF OtherCommit, ReplicaReplays, CoolDown
<1>2. \A t \in Replicas : replayed[t] \in Nat /\ replayed'[t] \in Nat /\ replayed[t] <= replayed'[t]
  BY SMTT(60) DEF OtherCommit, ReplicaReplays, CoolDown, GenInv, RouteTypes
<1>3. ASSUME NEW w \in Workers PROVE Sound(job[w])'
  <2>1. Sound(job[w])
    BY Zenon DEF BarrierInv
  <2>2. job[w].pc \in {"capture", "record"} => job[w].wrote \in Nat
    BY Zenon, Carried
  <2>3. job[w].pc = "query" => job[w].owed \in Nat /\ job[w].conn.t \in Replicas
    BY Zenon, Carried DEF InUse, ReadPcs
  <2>4. job[w].pc \in {"capture", "record"} => job[w].wrote <= wal'
    <3>1. job[w].pc \in {"capture", "record"} => job[w].wrote <= wal
      BY Zenon, <2>1 DEF Sound
    <3> QED BY ONLY <1>1, <2>2, <3>1, wal \in Nat, SMT
  <2>5. job[w].pc = "query" /\ ~job[w].slipped => job[w].owed <= replayed'[job[w].conn.t]
    <3>1. job[w].pc = "query" /\ ~job[w].slipped => job[w].owed <= replayed[job[w].conn.t]
      BY Zenon, <2>1 DEF Sound
    <3> QED BY ONLY <1>2, <2>3, <3>1, SMT
  <2> QED BY Zenon, <1>1, <2>1, <2>4, <2>5 DEF Sound
<1>4. done' <= wal'
  BY <1>1 DEF BarrierInv
<1> QED BY ZenonT(60), <1>1, <1>3, <1>4 DEF BarrierInv, UnderWay

-----------------------------------------------------------------------------
\* BarrierHonoured for any number of threads, replicas, positions and faults: a read
\* from a replica sees all that was acknowledged before the position it was held
\* against was asked for, because a position that replaces a higher one still covers
\* what the reads on their way are owed; and lag is charged to the replica that has it.
THEOREM BarrierHolds == ASSUME RouteConstants PROVE RouteSpec => []BarrierHonoured
<1>1. RouteInit => BarrierInv
  <2> SUFFICES ASSUME RouteInit PROVE BarrierInv
    OBVIOUS
  <2>1. \A w \in Workers : job[w] = Free
    BY Zenon DEF RouteInit
  <2>2. \A w \in Workers : Sound(job[w])
    BY Zenon, <2>1, FreeAside DEF Sound
  <2>3. done = 0 /\ owed = 0 /\ wal = 1 /\ barrier.lsn = 0
    BY Zenon DEF RouteInit
  <2> QED BY <2>1, <2>2, <2>3, FreeAside DEF BarrierInv
<1>2. GenInv /\ BarrierInv /\ [RouteNext]_routeVars => BarrierInv'
  <2> SUFFICES ASSUME GenInv, BarrierInv, [RouteNext]_routeVars PROVE BarrierInv'
    BY Zenon
  <2>1. CASE UNCHANGED routeVars
    BY ZenonT(60), <2>1 DEF routeVars, BarrierInv, Sound, UnderWay
  <2>2. ASSUME NEW w \in Workers,
               \/ StartWrite(w) \/ StartStatement(w) \/ CaptureLsn(w) \/ RecordLsn(w)
               \/ StartRouted(w) \/ PreferPrimary(w) \/ Prepare(w) \/ AcquireReplica(w)
               \/ ConnectReplica(w) \/ LookForced(w) \/ LookRequired(w) \/ CompareReplay(w) \/ QueryReplica(w) \/ ReplicaFails(w)
               \/ QueryPrimary(w) \/ EndRouted(w)
        PROVE  BarrierInv'
    BY ZenonT(60), <2>2, StartWriteBarrier, StatementBarrier, CaptureBarrier, RecordBarrier, StartReadBarrier,
       WayBarrier, CheckBarrier, QueryBarrier
  <2>3. CASE OtherCommit \/ \E t \in Replicas : ReplicaReplays(t) \/ CoolDown(t)
    BY ZenonT(60), <2>3, OutsideBarrier
  <2> QED BY ZenonT(60), <2>1, <2>2, <2>3 DEF RouteNext
<1>3. GenInv /\ BarrierInv => BarrierHonoured
  <2>1. GenInv => GenerationOneReplica
    BY ZenonT(60) DEF GenInv, OneReplica, GenerationOneReplica
  <2>2. GenInv /\ BarrierInv => AnswersOwed
    <3> SUFFICES ASSUME GenInv, BarrierInv, NEW w \in Workers, In(w, "answered"), ~job[w].slipped
                 PROVE  job[w].lsn >= job[w].owed
      BY ZenonT(60) DEF AnswersOwed
    <3>1. job[w].owed \in Nat /\ job[w].lsn \in Nat
      BY Zenon, Carried DEF In
    <3>2. job[w].owed <= job[w].lsn
      BY Zenon DEF BarrierInv, Sound, In
    <3> QED BY ONLY <3>1, <3>2, SMT
  <2> QED BY ZenonT(60), <2>1, <2>2 DEF BarrierHonoured
<1> QED BY <1>1, <1>2, <1>3, GenerationInvariant, PTL DEF RouteSpec
=============================================================================
