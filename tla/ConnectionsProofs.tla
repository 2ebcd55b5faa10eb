--------------------------- MODULE ConnectionsProofs ---------------------------
(***************************************************************************)
(* Proof, for any servers, faults, threads, pool size and gates, that the  *)
(* operations of a mount that run at one moment run on one server, that a  *)
(* mount keeps its cluster and adopts a server only as the writable one,   *)
(* and that the counters of the pool and of the gates are exact.           *)
(***************************************************************************)
EXTENDS Connections, FiniteSetTheorems, TLAPS

(* The inductive invariant. *)

Rows == [up : BOOLEAN, writable : BOOLEAN, cluster : 1..2, start : Nat]
Conns == [server : Servers, start : Nat, cluster : 1..2, gen : Nat]
Candidates == [t : Targets, conn : Conns]
TargetStates == [active : Targets, gen : Nat, cluster : 0..2, print : Servers \X Nat \cup {<<>>},
                 revalidate : BOOLEAN, failed : Nat, inflight : Int, pending : BOOLEAN]

\* Where an operation has a slot of the pool and no connection, and a connection.
Unconnected == {"connect", "try", "probe", "scan", "decide", "install", "unconnected"}
FlightPcs == {"run", "queued", "body", "leave", "return", "failed", "ended"}
ConnPcs == FlightPcs \cup {"begin", "stale"}
EndPcs == {"advance", "revalidate", "fence"}
Pcs == Unconnected \cup ConnPcs \cup EndPcs
       \cup {"generation", "acquire", "waiting", "mark", "replay"}

Operations == [pc : Pcs, lane : Lanes, txn : BOOLEAN, gen : Nat, conn : Conns \cup {Unset},
               replayed : BOOLEAN, found : Seq(Candidates), seen : Nat, since : Nat,
               after : {Unset, "scan", "replay"}, out : {Unset, "ok", "error", "lost"}]

\* What the place an operation has reached says of its fields.
OperationOK(o) ==
    /\ o.pc \in ConnPcs => o.conn \in Conns
    /\ o.pc \in EndPcs => o.after # Unset
    /\ o.pc # "scan" => o.seen = 0
    /\ o.pc = "scan" => o.seen < Len(plan.route)
    /\ o.pc = "try" => ~plan.guard
    /\ o.pc = "queued" => o.txn /\ plan.gates[o.lane] > 0
    /\ o.since <= faults

ConnTypes ==
    /\ plan \in Plans
    /\ srv \in [Servers -> Rows]
    /\ faults \in Nat /\ started \in Nat
    /\ tgt \in TargetStates
    /\ transition \in Threads \cup {0}
    /\ pool \in [cached : [Lanes -> Seq(Conns)], live : Int]
    /\ gates \in [Lanes -> [active : Int, waiters : Seq(Threads)]]
    /\ op \in [Threads -> Operations \cup {Idle}]
    /\ \A th \in Threads : op[th] # Idle => OperationOK(op[th])

\* The states in which a thread holds the transition mutex.
Critical == {"try", "probe", "scan", "decide", "install", "replay"} \cup EndPcs

Mutex == \A th \in Threads : op[th].pc \in Critical => transition = th

\* No generation is in force: the primary is not known yet, or is looked for.
Vacant == tgt.revalidate \/ tgt.cluster = 0

\* A connection is of a generation that has begun; one of the generation in force
\* leads to the recorded primary.
Current(c) ==
    /\ c.gen <= tgt.gen
    /\ c.gen = tgt.gen => /\ ~Vacant
                          /\ <<c.server, c.start>> = tgt.print
                          /\ c.cluster = tgt.cluster

Flying == {th \in Threads : op[th].pc \in FlightPcs}

Guarded(o) ==
    /\ o.pc \in ConnPcs => Current(o.conn)
    /\ o.pc \in FlightPcs => o.conn.gen = tgt.gen
    /\ o.pc \in {"scan", "decide", "install"} => Vacant
    /\ o.pc = "probe" => ~Vacant
    /\ o.pc \in {"advance", "revalidate"} /\ o.after = "scan" => o.gen = tgt.gen

\* The promotion guard.
GuardInv ==
    /\ ~plan.guard => tgt.inflight = 0
    /\ plan.guard =>
          /\ \A lane \in Lanes : \A i \in 1..Len(pool.cached[lane]) :
                Current(pool.cached[lane][i])
          /\ \A th \in Threads : op[th] # Idle => Guarded(op[th])
          /\ tgt.inflight = Cardinality(Flying)

\* What a look at the servers has found: while they do not change, every writable
\* one that was asked; and the one chosen is of the cluster and is the only one.
Writable(s) == srv[s].up /\ srv[s].writable

Looked(o) ==
    /\ o.pc \in {"scan", "decide"} /\ o.since = faults =>
          \A t \in Targets :
              Writable(plan.route[t]) /\ (o.pc = "scan" => t <= o.seen) =>
                  \E i \in 1..Len(o.found) : o.found[i].conn.server = plan.route[t]
    /\ o.pc = "install" =>
          /\ o.found # <<>>
          /\ tgt.cluster # 0 => o.found[1].conn.cluster = tgt.cluster
          /\ o.since = faults =>
                \A s \in Servers : Writable(s) => s = o.found[1].conn.server

ScanInv == \A th \in Threads : op[th] # Idle => Looked(op[th])

\* The pool.
Holds(o) == \/ o.pc \in Unconnected \cup (ConnPcs \ {"ended"})
            \/ o.pc \in EndPcs /\ o.after = "scan"
Holders == {th \in Threads : Holds(op[th])}
Acquirers == {th \in Threads : op[th].pc = "acquire"}
Cached == Len(pool.cached["write"]) + Len(pool.cached["control"])

PoolInv ==
    /\ pool.live = Cardinality(Holders) + Cached
    /\ pool.live <= plan.limit
    /\ (\E th \in Threads : op[th].pc = "waiting") =>
          Cardinality(Holders) + Cardinality(Acquirers) >= plan.limit

\* The gates.
Inside(lane) == {th \in Threads : /\ op[th].pc \in {"body", "leave"}
                                  /\ op[th].lane = lane
                                  /\ op[th].txn}
Queued(lane) == {th \in Threads : op[th].pc = "queued" /\ op[th].lane = lane}

GateOK(lane) ==
    LET w == gates[lane].waiters
    IN  /\ gates[lane].active = Cardinality(Inside(lane))
        /\ gates[lane].active <= plan.gates[lane]
        /\ w # <<>> => gates[lane].active = plan.gates[lane]
        /\ \A i, j \in 1..Len(w) : w[i] = w[j] => i = j
        /\ \A th \in Threads : th \in Queued(lane) <=> \E i \in 1..Len(w) : w[i] = th

GateInv == \A lane \in Lanes : plan.gates[lane] > 0 => GateOK(lane)

IInv == ConnTypes /\ Mutex /\ GuardInv /\ ScanInv /\ PoolInv /\ GateInv

-----------------------------------------------------------------------------
(* Numbers, threads and records. *)

\* Every nonempty set of numbers has a least one.
LEMMA LeastNumber ==
    ASSUME NEW T, T \subseteq Nat, T # {}
    PROVE  \E n \in T : \A k \in T : n <= k
<1> DEFINE Less == {mn \in Nat \X Nat : mn[1] < mn[2]}
<1>1. OpToRel(<, Nat) = Less
  BY ZenonT(60) DEF OpToRel
<1>2. IsWellFoundedOn(Less, Nat)
  BY Zenon, <1>1, NatLessThanWellFounded
<1>3. PICK n \in T : \A k \in T : ~(<<k, n>> \in Less)
  <2> HIDE DEF Less
  <2> QED
    BY Zenon, <1>2, WFMin
<1>4. ASSUME NEW k \in T PROVE n <= k
  <2>1. k \in Nat /\ n \in Nat /\ <<k, n>> \notin Less
    BY ZenonT(60), <1>3
  <2>2. ~(k < n)
    BY ZenonT(60), <2>1
  <2> QED
    BY <2>1, <2>2
<1> QED
  BY ZenonT(60), <1>4

\* The threads can be counted.
LEMMA ThreadSets ==
    ASSUME ConnConstants, NEW S, S \subseteq Threads
    PROVE  IsFiniteSet(S) /\ Cardinality(S) \in Nat
<1>1. IsFiniteSet(Threads)
  BY FS_Interval DEF ConnConstants, Threads
<1>2. IsFiniteSet(S)
  BY ZenonT(60), <1>1, FS_Subset
<1> QED
  BY ZenonT(60), <1>2, FS_CardinalityType

LEMMA OneMore ==
    ASSUME ConnConstants, NEW S, S \subseteq Threads, NEW th \in Threads, th \notin S,
           NEW T, T = S \cup {th}
    PROVE  Cardinality(T) = Cardinality(S) + 1
BY ZenonT(60), ThreadSets, FS_AddElement

LEMMA OneLess ==
    ASSUME ConnConstants, NEW S, S \subseteq Threads, NEW th \in S, NEW T, T = S \ {th}
    PROVE  Cardinality(T) = Cardinality(S) - 1
BY ZenonT(60), ThreadSets, FS_RemoveElement

\* The deployment.
LEMMA PlanFacts ==
    ASSUME ConnConstants, ConnTypes
    PROVE  /\ plan.route \in Seq(STRING) /\ Len(plan.route) \in Nat \ {0}
           /\ plan.guard \in BOOLEAN /\ plan.limit \in Nat
           /\ plan.gates \in [Lanes -> Nat]
           /\ \A t \in Targets : plan.route[t] \in Servers
           /\ Targets = 1..Len(plan.route)
<1>1. plan.route \in Seq(STRING) /\ plan.route # <<>>
  BY ZenonT(60) DEF ConnConstants, ConnTypes
<1>2. Len(plan.route) \in Nat \ {0}
  BY <1>1
<1> QED
  BY ZenonT(60), <1>1, <1>2 DEF ConnConstants, ConnTypes, Servers, Targets

\* A thread that is somewhere runs an operation.
LEMMA Running ==
    ASSUME ConnTypes, NEW th \in Threads, op[th].pc # "idle"
    PROVE  op[th] \in Operations /\ op[th] # Idle /\ OperationOK(op[th])
BY DEF ConnTypes, Idle

LEMMA OperationPc ==
    ASSUME NEW o \in Operations
    PROVE  o # Idle /\ o.pc \in Pcs
<1>1. o.pc \in Pcs
  BY ZenonT(60) DEF Operations
<1>2. Idle.pc \notin Pcs
  BY ZenonT(60) DEF Idle, Pcs, Unconnected, ConnPcs, FlightPcs, EndPcs
<1> QED
  BY ZenonT(60), <1>1, <1>2

\* One thread moves, and perhaps its step wakes others: one that waits for a
\* connection, or those that a gate admits.
Woken(x) ==
    \/ op'[x] = op[x]
    \/ op[x].pc = "waiting" /\ op'[x] = [op[x] EXCEPT !.pc = "acquire"]
    \/ op[x].pc = "queued" /\ op'[x] = [op[x] EXCEPT !.pc = "body"]

\* What waking changes.
LEMMA WokenFacts ==
    ASSUME ConnTypes, NEW x \in Threads, Woken(x)
    PROVE  /\ op'[x] \in Operations \cup {Idle}
           /\ op'[x] = Idle <=> op[x] = Idle
           /\ op[x] # Idle =>
                /\ op'[x].lane = op[x].lane /\ op'[x].txn = op[x].txn
                /\ op'[x].gen = op[x].gen /\ op'[x].conn = op[x].conn
                /\ op'[x].found = op[x].found /\ op'[x].seen = op[x].seen
                /\ op'[x].since = op[x].since /\ op'[x].after = op[x].after
           /\ \/ op'[x].pc = op[x].pc
              \/ op[x].pc = "waiting" /\ op'[x].pc = "acquire"
              \/ op[x].pc = "queued" /\ op'[x].pc = "body"
<1>1. CASE op'[x] = op[x]
  BY ZenonT(60), <1>1 DEF ConnTypes
<1>2. ASSUME NEW p \in {"acquire", "body"}, op[x].pc \in {"waiting", "queued"},
             op'[x] = [op[x] EXCEPT !.pc = p]
      PROVE  /\ op'[x] \in Operations /\ op[x] \in Operations /\ op'[x].pc = p
             /\ op'[x].lane = op[x].lane /\ op'[x].txn = op[x].txn
             /\ op'[x].gen = op[x].gen /\ op'[x].conn = op[x].conn
             /\ op'[x].found = op[x].found /\ op'[x].seen = op[x].seen
             /\ op'[x].since = op[x].since /\ op'[x].after = op[x].after
  <2>1. op[x] \in Operations
    BY ZenonT(60), <1>2, Running
  <2>2. p \in Pcs
    BY ZenonT(60) DEF Pcs, ConnPcs, FlightPcs
  <2> QED
    BY ZenonT(60), <1>2, <2>1, <2>2 DEF Operations
<1>3. CASE op[x].pc = "waiting" /\ op'[x] = [op[x] EXCEPT !.pc = "acquire"]
  BY ZenonT(60), <1>2, <1>3, OperationPc
<1>4. CASE op[x].pc = "queued" /\ op'[x] = [op[x] EXCEPT !.pc = "body"]
  BY ZenonT(60), <1>2, <1>4, OperationPc
<1> QED
  BY ZenonT(60), <1>1, <1>3, <1>4 DEF Woken

-----------------------------------------------------------------------------
(* What a step of one thread must show, one conjunct of the invariant at a time. *)

\* A step of the mount leaves the deployment and the servers alone.
MountStep == UNCHANGED <<plan, srv, faults>>

LEMMA TypesStep ==
    ASSUME ConnConstants, ConnTypes, MountStep, NEW th \in Threads,
           \A x \in Threads \ {th} : Woken(x),
           op'[th] = Idle \/ (op'[th] \in Operations /\ OperationOK(op'[th])),
           started' \in Nat, tgt' \in TargetStates, transition' \in Threads \cup {0},
           pool' \in [cached : [Lanes -> Seq(Conns)], live : Int],
           gates' \in [Lanes -> [active : Int, waiters : Seq(Threads)]],
           op' = [x \in Threads |-> op'[x]]
    PROVE  ConnTypes'
<1>1. Servers' = Servers /\ Targets' = Targets
  BY ZenonT(60) DEF MountStep, Servers, Targets
<1>2. Conns' = Conns /\ TargetStates' = TargetStates /\ Candidates' = Candidates
  BY ZenonT(60), <1>1 DEF Conns, TargetStates, Candidates
<1>3. Operations' = Operations
  BY ZenonT(60), <1>2 DEF Operations
<1>4. \A x \in Threads : op'[x] \in Operations \cup {Idle}
  BY ZenonT(60), WokenFacts
<1>5. op' \in [Threads -> Operations \cup {Idle}]
  BY ZenonT(60), <1>4
<1>6. ASSUME NEW x \in Threads, op'[x] # Idle
      PROVE  OperationOK(op[x])'
  <2>1. CASE x = th
    BY ZenonT(60), <1>2, <1>6, <2>1 DEF OperationOK, MountStep
  <2>2. CASE x # th
    <3>1. OperationOK(op[x]) /\ op[x] # Idle
      BY ZenonT(60), <1>6, <2>2, WokenFacts DEF ConnTypes
    <3> QED
      BY ZenonT(60), <1>2, <2>2, <3>1, WokenFacts
         DEF OperationOK, MountStep, ConnPcs, FlightPcs, EndPcs
  <2> QED
    BY ZenonT(60), <2>1, <2>2
<1> QED
  BY ZenonT(60), <1>1, <1>2, <1>3, <1>5, <1>6 DEF ConnTypes, MountStep

LEMMA MutexStep ==
    ASSUME ConnTypes, Mutex, NEW th \in Threads, \A x \in Threads \ {th} : Woken(x),
           transition' = transition \/ transition \in {0, th},
           op'[th].pc \in Critical => transition' = th
    PROVE  Mutex'
<1> SUFFICES ASSUME NEW x \in Threads \ {th}, op'[x].pc \in Critical
             PROVE  transition' = x
  BY ZenonT(60) DEF Mutex
<1>1. op[x].pc \in Critical
  BY ZenonT(60), WokenFacts DEF Critical, EndPcs
<1>2. transition = x /\ x # 0
  BY <1>1 DEF Mutex, Threads
<1> QED
  BY ZenonT(60), <1>2

\* The recorded primary and its generation stay, and so does what is known of it.
PrimaryKept ==
    /\ tgt'.gen = tgt.gen /\ tgt'.cluster = tgt.cluster
    /\ tgt'.print = tgt.print /\ Vacant' = Vacant

\* Without the guard a generation may end at any time.
TargetKept ==
    /\ tgt'.cluster = tgt.cluster /\ tgt'.inflight = tgt.inflight
    /\ plan.guard => PrimaryKept

LEMMA GuardStep ==
    ASSUME ConnConstants, ConnTypes, GuardInv, MountStep, NEW th \in Threads, PrimaryKept,
           \A x \in Threads \ {th} : Woken(x),
           \A lane \in Lanes : \A i \in 1..Len(pool'.cached[lane]) :
               plan.guard => Current(pool'.cached[lane][i]),
           plan.guard /\ op'[th] # Idle => Guarded(op'[th]),
           \/ /\ op'[th].pc \in FlightPcs <=> op[th].pc \in FlightPcs
              /\ tgt'.inflight = tgt.inflight
           \/ /\ op'[th].pc \in FlightPcs /\ op[th].pc \notin FlightPcs
              /\ tgt'.inflight = IF plan.guard THEN tgt.inflight + 1 ELSE tgt.inflight
           \/ /\ op'[th].pc \notin FlightPcs /\ op[th].pc \in FlightPcs
              /\ tgt'.inflight = IF plan.guard THEN tgt.inflight - 1 ELSE tgt.inflight
    PROVE  GuardInv'
<1>1. \A x \in Threads \ {th} : op'[x].pc \in FlightPcs <=> op[x].pc \in FlightPcs
  BY ZenonT(60), WokenFacts DEF FlightPcs
<1>2. CASE ~plan.guard
  BY ZenonT(60), <1>2 DEF GuardInv, MountStep
<1>3. CASE plan.guard
  <2>1. tgt.inflight = Cardinality(Flying) /\ Cardinality(Flying) \in Nat
    BY ZenonT(60), <1>3, ThreadSets DEF GuardInv, Flying
  <2>2. tgt'.inflight = Cardinality(Flying')
    <3>1. CASE op'[th].pc \in FlightPcs <=> op[th].pc \in FlightPcs
      <4>1. Flying' = Flying
        BY ZenonT(60), <1>1, <3>1 DEF Flying
      <4> QED
        BY ZenonT(60), <2>1, <3>1, <4>1
    <3>2. CASE op'[th].pc \in FlightPcs /\ op[th].pc \notin FlightPcs
      <4>1. Flying' = Flying \cup {th} /\ th \notin Flying /\ Flying \subseteq Threads
        BY ZenonT(60), <1>1, <3>2 DEF Flying
      <4>2. Cardinality(Flying') = Cardinality(Flying) + 1
        BY ZenonT(60), <4>1, OneMore
      <4> QED
        BY ZenonT(60), <1>3, <2>1, <3>2, <4>2
    <3>3. CASE op'[th].pc \notin FlightPcs /\ op[th].pc \in FlightPcs
      <4>1. Flying' = Flying \ {th} /\ th \in Flying /\ Flying \subseteq Threads
        BY ZenonT(60), <1>1, <3>3 DEF Flying
      <4>2. Cardinality(Flying') = Cardinality(Flying) - 1
        BY ZenonT(60), <4>1, OneLess
      <4> QED
        BY ZenonT(60), <1>3, <2>1, <3>3, <4>2
    <3> QED
      BY ZenonT(60), <3>1, <3>2, <3>3
  <2>3. \A c : Current(c)' <=> Current(c)
    BY ZenonT(60) DEF PrimaryKept, Current, Vacant
  <2>4. \A x \in Threads : op'[x] # Idle => Guarded(op[x])'
    <3> SUFFICES ASSUME NEW x \in Threads, op'[x] # Idle PROVE Guarded(op[x])'
      BY ZenonT(60)
    <3>1. CASE x = th
      BY ZenonT(60), <1>3, <3>1 DEF Guarded, PrimaryKept, Vacant, Current
    <3>2. CASE x # th
      <4>1. Guarded(op[x]) /\ op[x] # Idle
        BY ZenonT(60), <1>3, <3>2, WokenFacts DEF GuardInv
      <4> QED
        BY ZenonT(60), <3>2, <4>1, WokenFacts
           DEF Guarded, PrimaryKept, Vacant, Current, ConnPcs, FlightPcs
    <3> QED
      BY ZenonT(60), <3>1, <3>2
  <2>5. \A lane \in Lanes : \A i \in 1..Len(pool'.cached[lane]) :
          Current(pool.cached[lane][i])'
    BY ZenonT(60), <1>3 DEF PrimaryKept, Current, Vacant
  <2> QED
    BY ZenonT(60), <1>3, <2>2, <2>4, <2>5 DEF GuardInv, MountStep
<1> QED
  BY ZenonT(60), <1>2, <1>3

LEMMA ScanStep ==
    ASSUME ConnTypes, ScanInv, MountStep, NEW th \in Threads, tgt'.cluster = tgt.cluster,
           \A x \in Threads \ {th} : Woken(x),
           op'[th] # Idle => Looked(op'[th])
    PROVE  ScanInv'
<1> SUFFICES ASSUME NEW x \in Threads, op'[x] # Idle PROVE Looked(op[x])'
  BY ZenonT(60) DEF ScanInv
<1>1. CASE x = th
  BY ZenonT(60), <1>1 DEF Looked, Writable, MountStep, Targets, Servers
<1>2. CASE x # th
  <2>1. Looked(op[x]) /\ op[x] # Idle
    BY ZenonT(60), <1>2, WokenFacts DEF ScanInv
  <2> QED
    BY SMTT(60), <1>2, <2>1, WokenFacts DEF Looked, Writable, MountStep, Targets, Servers
<1> QED
  BY ZenonT(60), <1>1, <1>2

\* A step that neither takes nor gives up a slot of the pool.
LEMMA PoolKept ==
    ASSUME ConnConstants, ConnTypes, PoolInv, MountStep, NEW th \in Threads,
           \A x \in Threads \ {th} : Woken(x),
           Holds(op'[th]) <=> Holds(op[th]),
           op'[th].pc # "waiting", op[th].pc # "acquire", UNCHANGED pool
    PROVE  PoolInv'
<1>1. \A x \in Threads \ {th} : Holds(op'[x]) <=> Holds(op[x])
  BY WokenFacts DEF Holds, Unconnected, ConnPcs, FlightPcs, EndPcs, Idle
<1>2. Holders' = Holders
  BY ZenonT(60), <1>1 DEF Holders, Holds
<1>3. Acquirers \subseteq Acquirers' /\ Acquirers' \subseteq Threads
  BY ZenonT(60), WokenFacts DEF Acquirers
<1>4. Cardinality(Acquirers) <= Cardinality(Acquirers')
  BY ZenonT(60), <1>3, ThreadSets, FS_Subset
<1>5. /\ Cardinality(Acquirers) \in Nat /\ Cardinality(Acquirers') \in Nat
      /\ Cardinality(Holders) \in Nat /\ plan.limit \in Nat
  BY ZenonT(60), ThreadSets, PlanFacts DEF Acquirers, Holders
<1>6. (\E x \in Threads : op'[x].pc = "waiting") => \E x \in Threads : op[x].pc = "waiting"
  BY ZenonT(60), WokenFacts
<1>7. Cached' = Cached /\ pool' = pool /\ plan' = plan
  BY ZenonT(60) DEF Cached, MountStep
<1> QED
  BY <1>2, <1>4, <1>5, <1>6, <1>7 DEF PoolInv

\* notify_one wakes one of the threads that wait, if there is one.
LEMMA Notified ==
    ASSUME ConnTypes, NEW th \in Threads, op[th].pc # "waiting",
           NEW r \in Operations \cup {Idle}, r.pc # "waiting",
           op' \in NotifyOne([op EXCEPT ![th] = r])
    PROVE  /\ op'[th] = r /\ op' = [x \in Threads |-> op'[x]]
           /\ \A x \in Threads \ {th} : Woken(x)
           /\ \A x \in Threads \ {th} : op[x].pc = "queued" => op'[x] = op[x]
           /\ \/ \A x \in Threads : op[x].pc # "waiting"
              \/ \E y \in Threads \ {th} :
                    /\ op[y].pc = "waiting" /\ op'[y].pc = "acquire"
                    /\ \A x \in Threads \ {th, y} : op'[x] = op[x]
           /\ (\A x \in Threads : op[x].pc # "waiting") =>
                 \A x \in Threads \ {th} : op'[x] = op[x]
<1> DEFINE ops == [op EXCEPT ![th] = r]
           waiting == {x \in Threads : ops[x].pc = "waiting"}
<1>1. ops \in [Threads -> Operations \cup {Idle}] /\ ops[th] = r
  BY ZenonT(60) DEF ConnTypes
<1>2. \A x \in Threads \ {th} : ops[x] = op[x]
  BY ZenonT(60) DEF ConnTypes
<1>3. CASE waiting = {}
  <2>1. op' = ops
    BY ZenonT(60), <1>3 DEF NotifyOne
  <2>2. \A x \in Threads : op[x].pc # "waiting"
    BY ZenonT(60), <1>2, <1>3
  <2>3. ops = [x \in Threads |-> ops[x]]
    BY Zenon, <1>1
  <2> HIDE DEF ops
  <2> QED
    BY ZenonT(60), <1>1, <1>2, <2>1, <2>2, <2>3 DEF Woken
<1>4. CASE waiting # {}
  <2>1. PICK y \in waiting : op' = [ops EXCEPT ![y].pc = "acquire"]
    BY ZenonT(60), <1>4 DEF NotifyOne
  <2>2. y \in Threads \ {th} /\ op[y].pc = "waiting"
    BY ZenonT(60), <1>1, <1>2
  <2>3. op[y] \in Operations
    BY ZenonT(60), <2>2, Running
  <2> HIDE DEF ops
  <2>4. /\ op' = [x \in Threads |-> op'[x]]
        /\ \A x \in Threads \ {y} : op'[x] = ops[x]
        /\ op'[y] = [op[y] EXCEPT !.pc = "acquire"]
    BY Zenon, <1>1, <1>2, <2>1, <2>2
  <2>5. op'[y].pc = "acquire"
    BY ZenonT(60), <2>3, <2>4 DEF Operations
  <2> QED
    BY ZenonT(60), <1>1, <1>2, <2>2, <2>4, <2>5 DEF Woken
<1> QED
  BY ZenonT(60), <1>3, <1>4

\* A thread gives its slot up, with its connection or without one, and notifies.
LEMMA PoolReleased ==
    ASSUME ConnConstants, ConnTypes, PoolInv, MountStep, NEW th \in Threads, Holds(op[th]),
           NEW r \in Operations \cup {Idle}, ~Holds(r), r.pc \notin {"waiting", "acquire"},
           op' \in NotifyOne([op EXCEPT ![th] = r]),
           pool'.live - Cached' = pool.live - Cached - 1, pool'.live <= pool.live,
           pool'.live \in Int, pool.live \in Int, Cached \in Int, Cached' \in Int
    PROVE  PoolInv'
<1>1. op[th].pc # "waiting" /\ op[th].pc # "acquire"
  BY ZenonT(60) DEF Holds, Unconnected, ConnPcs, FlightPcs, EndPcs
<1>2. /\ op'[th] = r
      /\ \A x \in Threads \ {th} : Woken(x)
      /\ \/ \A x \in Threads : op[x].pc # "waiting"
         \/ \E y \in Threads \ {th} :
               /\ op[y].pc = "waiting" /\ op'[y].pc = "acquire"
               /\ \A x \in Threads \ {th, y} : op'[x] = op[x]
  BY SMTT(60), <1>1, Notified
<1>3. \A x \in Threads \ {th} : Holds(op'[x]) <=> Holds(op[x])
  BY <1>2, WokenFacts DEF Holds, Unconnected, ConnPcs, FlightPcs, EndPcs, Idle
<1>4. Holders' = Holders \ {th} /\ th \in Holders /\ Holders \subseteq Threads
  BY ZenonT(60), <1>2, <1>3 DEF Holders, Holds
<1>5. Cardinality(Holders') = Cardinality(Holders) - 1
  BY ZenonT(60), <1>4, OneLess
<1>6. Acquirers \subseteq Threads /\ Acquirers' \subseteq Threads
  BY ZenonT(60) DEF Acquirers
<1>7. /\ Cardinality(Acquirers) \in Nat /\ Cardinality(Acquirers') \in Nat
      /\ Cardinality(Holders) \in Nat /\ plan.limit \in Nat
  BY ZenonT(60), <1>4, <1>6, ThreadSets, PlanFacts
<1>8. CASE \A x \in Threads : op[x].pc # "waiting"
  <2>1. \A x \in Threads : op'[x].pc # "waiting"
    BY ZenonT(60), <1>2, <1>8, WokenFacts
  <2> QED
    BY <1>5, <1>7, <2>1 DEF PoolInv, MountStep
<1>9. CASE \E x \in Threads : op[x].pc = "waiting"
  <2>1. PICK y \in Threads \ {th} :
          /\ op[y].pc = "waiting" /\ op'[y].pc = "acquire"
          /\ \A x \in Threads \ {th, y} : op'[x] = op[x]
    BY ZenonT(60), <1>2, <1>9
  <2>2. Acquirers' = Acquirers \cup {y} /\ y \notin Acquirers
    BY ZenonT(60), <1>1, <1>2, <2>1 DEF Acquirers
  <2>3. Cardinality(Acquirers') = Cardinality(Acquirers) + 1
    BY ZenonT(60), <1>6, <2>2, OneMore
  <2>4. Cardinality(Holders) + Cardinality(Acquirers) >= plan.limit
    BY ZenonT(60), <1>9 DEF PoolInv
  <2> QED
    BY SMTT(60), <1>5, <1>7, <2>3, <2>4 DEF PoolInv, MountStep
<1> QED
  BY ZenonT(60), <1>8, <1>9

\* A thread takes a slot: a cached connection or a free slot.
LEMMA PoolTaken ==
    ASSUME ConnConstants, ConnTypes, PoolInv, MountStep, NEW th \in Threads,
           op[th].pc = "acquire", Holds(op'[th]),
           \A x \in Threads \ {th} : op'[x] = op[x],
           pool'.live = Cardinality(Holders) + 1 + Cached', pool'.live <= plan.limit
    PROVE  PoolInv'
<1>1. ~Holds(op[th])
  BY ZenonT(60) DEF Holds, Unconnected, ConnPcs, FlightPcs, EndPcs
<1>2. op'[th].pc # "acquire" /\ op'[th].pc # "waiting"
  BY ZenonT(60) DEF Holds, Unconnected, ConnPcs, FlightPcs, EndPcs
<1>3. Holders' = Holders \cup {th} /\ th \notin Holders /\ Holders \subseteq Threads
  BY ZenonT(60), <1>1 DEF Holders, Holds
<1>4. Cardinality(Holders') = Cardinality(Holders) + 1
  BY ZenonT(60), <1>3, OneMore
<1>5. Acquirers' = Acquirers \ {th} /\ th \in Acquirers /\ Acquirers \subseteq Threads
  BY ZenonT(60), <1>2 DEF Acquirers
<1>6. Cardinality(Acquirers') = Cardinality(Acquirers) - 1
  BY ZenonT(60), <1>5, OneLess
<1>7. Cardinality(Acquirers) \in Nat /\ Cardinality(Holders) \in Nat /\ plan.limit \in Nat
  BY ZenonT(60), <1>3, <1>5, ThreadSets, PlanFacts
<1>8. (\E x \in Threads : op'[x].pc = "waiting") => \E x \in Threads : op[x].pc = "waiting"
  BY ZenonT(60), <1>2
<1> QED
  BY <1>4, <1>6, <1>7, <1>8 DEF PoolInv, MountStep

\* A step that enters or leaves no gate.
LEMMA GateKept ==
    ASSUME ConnConstants, ConnTypes, GateInv, MountStep, NEW th \in Threads, UNCHANGED gates,
           \A x \in Threads \ {th} : Woken(x),
           \A x \in Threads \ {th} : op[x].pc = "queued" => op'[x] = op[x],
           op[th].pc # "queued", op'[th].pc # "queued",
           \A lane \in Lanes :
               plan.gates[lane] > 0 => (th \in Inside(lane)' <=> th \in Inside(lane))
    PROVE  GateInv'
<1> SUFFICES ASSUME NEW lane \in Lanes, plan.gates[lane] > 0
             PROVE  GateOK(lane)'
  BY ZenonT(60) DEF GateInv, MountStep
<1>1. \A x \in Threads \ {th} :
        /\ op'[x].pc \in {"body", "leave"} <=> op[x].pc \in {"body", "leave"}
        /\ op'[x].pc = "queued" <=> op[x].pc = "queued"
        /\ op[x].pc # "idle" => op'[x].lane = op[x].lane /\ op'[x].txn = op[x].txn
  BY ZenonT(60), WokenFacts, Running DEF Idle
<1>2. Inside(lane)' = Inside(lane)
  BY ZenonT(60), <1>1 DEF Inside
<1>3. Queued(lane)' = Queued(lane)
  BY ZenonT(60), <1>1 DEF Queued
<1> QED
  BY <1>2, <1>3 DEF GateInv, GateOK, MountStep, Threads

\* What the queue of a gate is made of.
LEMMA QueueFacts ==
    ASSUME ConnConstants, ConnTypes, GateInv, NEW lane \in Lanes, plan.gates[lane] > 0
    PROVE  /\ gates[lane].waiters \in Seq(Threads) /\ gates[lane].active \in Nat
           /\ plan.gates[lane] \in Nat
           /\ Inside(lane) \subseteq Threads /\ Queued(lane) \subseteq Threads
           /\ IsFiniteSet(Inside(lane))
           /\ gates[lane] = [active |-> gates[lane].active, waiters |-> gates[lane].waiters]
<1>1. Inside(lane) \subseteq Threads /\ Queued(lane) \subseteq Threads
  BY ZenonT(60) DEF Inside, Queued
<1>2. IsFiniteSet(Inside(lane)) /\ Cardinality(Inside(lane)) \in Nat
  BY ZenonT(60), <1>1, ThreadSets
<1> QED
  BY <1>1, <1>2, PlanFacts DEF ConnTypes, GateInv, GateOK

\* A gate after a transaction has come or gone, for the lane of that transaction
\* and, with the same invariant, for the other one.
LEMMA GateMoves ==
    ASSUME ConnConstants, ConnTypes, GateInv, MountStep, NEW th \in Threads,
           NEW lane \in Lanes, op[th] \in Operations, op[th].lane = lane,
           \A l \in Lanes \ {lane} : gates'[l] = gates[l],
           \A x \in Threads \ {th} : Woken(x),
           \A x \in Threads \ {th} :
               (op[x].pc = "queued" /\ op[x].lane # lane) \/ op[x].pc = "waiting" => op'[x] = op[x],
           op'[th] \in Operations, op'[th].lane = lane, op'[th].txn = op[th].txn,
           GateOK(lane)'
    PROVE  GateInv'
<1> SUFFICES ASSUME NEW other \in Lanes, plan.gates[other] > 0
             PROVE  GateOK(other)'
  BY ZenonT(60) DEF GateInv, MountStep
<1>1. CASE other = lane
  BY ZenonT(60), <1>1
<1>2. CASE other # lane
  <2>1. gates'[other] = gates[other] /\ plan'.gates = plan.gates
    BY ZenonT(60), <1>2 DEF MountStep
  <2>2. \A x \in Threads \ {th} :
          op[x].pc # "idle" /\ op[x].lane # lane =>
              /\ op'[x].pc \in {"body", "leave"} <=> op[x].pc \in {"body", "leave"}
              /\ op'[x].pc = "queued" <=> op[x].pc = "queued"
    BY ZenonT(60), WokenFacts
  <2>3. \A x \in Threads :
          op[x].pc # "idle" => op'[x].lane = op[x].lane /\ op'[x].txn = op[x].txn
    BY ZenonT(60), WokenFacts, Running
  <2>4. \A x \in Threads : op'[x].pc = "idle" <=> op[x].pc = "idle"
    <3> SUFFICES ASSUME NEW x \in Threads PROVE op'[x].pc = "idle" <=> op[x].pc = "idle"
      OBVIOUS
    <3>1. CASE x = th
      BY ZenonT(60), <3>1, OperationPc DEF Pcs, Unconnected, ConnPcs, FlightPcs, EndPcs
    <3>2. CASE x # th
      BY ZenonT(60), <3>2, WokenFacts
    <3> QED
      BY ZenonT(60), <3>1, <3>2
  <2>5. Inside(other)' = Inside(other) /\ Queued(other)' = Queued(other)
    BY <1>2, <2>2, <2>3, <2>4 DEF Inside, Queued
  <2> QED
    BY SMTT(60), <1>2, <2>1, <2>5 DEF GateInv, GateOK
<1> QED
  BY ZenonT(60), <1>1, <1>2

\* The record of the thread that moves, and the others as they were.
LEMMA OneMoves ==
    ASSUME ConnTypes, NEW th \in Threads, NEW r, op' = [op EXCEPT ![th] = r]
    PROVE  /\ op'[th] = r /\ op' = [x \in Threads |-> op'[x]]
           /\ \A x \in Threads \ {th} : op'[x] = op[x]
           /\ \A x \in Threads \ {th} : Woken(x)
<1>1. op \in [Threads -> Operations \cup {Idle}]
  BY ZenonT(60) DEF ConnTypes
<1> QED
  BY Zenon, <1>1 DEF Woken

\* A thread that neither takes nor gives up a slot and neither enters nor leaves
\* a gate, and the count of the operations in flight.
PlaceKept(o, r) ==
    /\ Holds(r) <=> Holds(o)
    /\ r.pc # "waiting" /\ o.pc # "acquire"
    /\ r.pc # "queued" /\ o.pc # "queued"
    /\ r.pc \in {"body", "leave"} <=> o.pc \in {"body", "leave"}
    /\ r.pc \in {"body", "leave"} => r.lane = o.lane /\ r.txn = o.txn

FlightCounted(o, r) ==
    \/ /\ r.pc \in FlightPcs <=> o.pc \in FlightPcs
       /\ tgt'.inflight = tgt.inflight
    \/ /\ r.pc \in FlightPcs /\ o.pc \notin FlightPcs
       /\ tgt'.inflight = IF plan.guard THEN tgt.inflight + 1 ELSE tgt.inflight
    \/ /\ r.pc \notin FlightPcs /\ o.pc \in FlightPcs
       /\ tgt'.inflight = IF plan.guard THEN tgt.inflight - 1 ELSE tgt.inflight

OperationInv(r) == r \in Operations /\ OperationOK(r) /\ (plan.guard => Guarded(r)) /\ Looked(r)

\* A step of one thread that touches neither the pool nor the gates, whatever it
\* does to the recorded primary.
LEMMA PlacedStep ==
    ASSUME ConnConstants, IInv, MountStep, NEW th \in Threads,
           NEW r, op' = [op EXCEPT ![th] = r], UNCHANGED <<pool, gates>>,
           r = Idle \/ (r \in Operations /\ OperationOK(r)), PlaceKept(op[th], r),
           started' \in Nat, tgt' \in TargetStates,
           transition' \in Threads \cup {0},
           transition' = transition \/ transition \in {0, th},
           r.pc \in Critical => transition' = th,
           GuardInv', ScanInv'
    PROVE  IInv'
<1> USE DEF IInv
<1>1. /\ op'[th] = r /\ op' = [x \in Threads |-> op'[x]]
      /\ \A x \in Threads \ {th} : op'[x] = op[x]
      /\ \A x \in Threads \ {th} : Woken(x)
  BY Zenon, OneMoves
<1>2. ConnTypes'
  <2>1. /\ pool' \in [cached : [Lanes -> Seq(Conns)], live : Int]
        /\ gates' \in [Lanes -> [active : Int, waiters : Seq(Threads)]]
    BY ZenonT(60) DEF ConnTypes
  <2> QED
    BY Zenon, <1>1, <2>1, TypesStep
<1>3. Mutex'
  BY ZenonT(60), <1>1, MutexStep
<1>4. PoolInv'
  <2>1. (Holds(r) <=> Holds(op[th])) /\ r.pc # "waiting" /\ op[th].pc # "acquire"
    BY ZenonT(60) DEF PlaceKept
  <2> QED
    BY ZenonT(60), <1>1, <2>1, PoolKept
<1>5. GateInv'
  <2>1. r.pc # "queued" /\ op[th].pc # "queued"
    BY ZenonT(60) DEF PlaceKept
  <2>2. \A lane \in Lanes : th \in Inside(lane)' <=> th \in Inside(lane)
    BY ZenonT(60), <1>1 DEF Inside, PlaceKept
  <2> QED
    BY ZenonT(60), <1>1, <2>1, <2>2, GateKept
<1> QED
  BY ZenonT(60), <1>2, <1>3, <1>4, <1>5

\* A step of one thread that touches neither the pool nor the gates, and ends no
\* generation.
LEMMA CountedStep ==
    ASSUME ConnConstants, IInv, MountStep, NEW th \in Threads,
           NEW r, op' = [op EXCEPT ![th] = r], UNCHANGED <<pool, gates>>,
           r = Idle \/ OperationInv(r), PlaceKept(op[th], r), FlightCounted(op[th], r),
           started' \in Nat, tgt' \in TargetStates,
           tgt'.cluster = tgt.cluster, plan.guard => PrimaryKept,
           transition' \in Threads \cup {0},
           transition' = transition \/ transition \in {0, th},
           r.pc \in Critical => transition' = th
    PROVE  IInv'
<1> USE DEF IInv
<1>1. /\ op'[th] = r
      /\ \A x \in Threads \ {th} : Woken(x)
  BY ZenonT(60), OneMoves
<1>2. r = Idle \/ (r \in Operations /\ OperationOK(r))
  BY ZenonT(60) DEF OperationInv
<1>3. GuardInv'
  <2>1. \A lane \in Lanes : \A i \in 1..Len(pool'.cached[lane]) :
          plan.guard => Current(pool'.cached[lane][i])
    BY ZenonT(60) DEF GuardInv
  <2>2. plan.guard /\ op'[th] # Idle => Guarded(op'[th])
    BY ZenonT(60), <1>1 DEF OperationInv
  <2>3. CASE plan.guard
    <3>1. PrimaryKept /\ FlightCounted(op[th], op'[th])
      BY ZenonT(60), <1>1, <2>3
    <3> QED
      BY ZenonT(60), <1>1, <2>1, <2>2, <3>1, GuardStep DEF FlightCounted
  <2>4. CASE ~plan.guard
    BY ZenonT(60), <2>4 DEF GuardInv, MountStep, FlightCounted
  <2> QED
    BY ZenonT(60), <2>3, <2>4
<1>4. ScanInv'
  <2>1. op'[th] # Idle => Looked(op'[th])
    BY ZenonT(60), <1>1 DEF OperationInv
  <2> QED
    BY ZenonT(60), <1>1, <2>1, ScanStep
<1> QED
  BY Zenon, <1>2, <1>3, <1>4, PlacedStep

\* The same without a change of the count.
QuietMove(o, r) == PlaceKept(o, r) /\ (r.pc \in FlightPcs <=> o.pc \in FlightPcs)

LEMMA QuietStep ==
    ASSUME ConnConstants, IInv, MountStep, NEW th \in Threads,
           NEW r, op' = [op EXCEPT ![th] = r], UNCHANGED <<pool, gates>>,
           r \in Operations, OperationOK(r), QuietMove(op[th], r),
           started' \in Nat, tgt' \in TargetStates, TargetKept,
           transition' \in Threads \cup {0},
           transition' = transition \/ transition \in {0, th},
           r.pc \in Critical => transition' = th,
           plan.guard => Guarded(r), Looked(r)
    PROVE  IInv'
<1>1. OperationInv(r)
  BY ZenonT(60) DEF OperationInv
<1>2. PlaceKept(op[th], r) /\ FlightCounted(op[th], r)
  BY ZenonT(60) DEF QuietMove, FlightCounted, TargetKept
<1>3. tgt'.cluster = tgt.cluster /\ (plan.guard => PrimaryKept)
  BY ZenonT(60) DEF TargetKept
<1> QED
  BY ZenonT(60), <1>1, <1>2, <1>3, CountedStep

-----------------------------------------------------------------------------
(* The actions. *)

\* An operation begins.
LEMMA StartOK ==
    ASSUME ConnConstants, IInv, NEW th \in Threads, NEW x \in plan.starts, Start(th, x[1], x[2])
    PROVE  IInv'
<1> DEFINE r == [pc |-> "generation", lane |-> x[1], txn |-> x[2], gen |-> 0,
                 conn |-> Unset, replayed |-> FALSE, found |-> <<>>, seen |-> 0,
                 since |-> 0, after |-> Unset, out |-> Unset]
<1>1. /\ MountStep /\ op' = [op EXCEPT ![th] = r] /\ UNCHANGED <<pool, gates>>
      /\ UNCHANGED <<tgt, transition>> /\ op[th].pc = "idle" /\ started' = started + 1
  BY ZenonT(60) DEF Start, At, MountStep
<1>2. x \in Lanes \X BOOLEAN
  BY ZenonT(60) DEF ConnConstants, IInv, ConnTypes
<1>3. r \in Operations
  BY SMTT(60), <1>2 DEF Operations, Pcs
<1>4. /\ r.pc = "generation" /\ r.seen = 0 /\ r.since = 0 /\ faults \in Nat
      /\ started' \in Nat /\ tgt' \in TargetStates /\ transition' \in Threads \cup {0}
      /\ TargetKept
  BY SMTT(60), <1>1 DEF IInv, ConnTypes, TargetKept, PrimaryKept, Vacant
<1> HIDE DEF r
<1>5. OperationOK(r) /\ Guarded(r) /\ Looked(r)
  BY SMTT(60), <1>1, <1>4 DEF OperationOK, Guarded, Looked, ConnPcs, FlightPcs, EndPcs
<1>6. QuietMove(op[th], r) /\ r.pc \notin Critical
  BY ZenonT(60), <1>1, <1>4 DEF QuietMove, PlaceKept, Critical, Holds, ConnPcs, FlightPcs, EndPcs, Unconnected
<1>7. transition' = transition
  BY ZenonT(60), <1>1
<1> QED
  BY ZenonT(60), <1>1, <1>3, <1>4, <1>5, <1>6, <1>7, QuietStep

\* What the types say of the recorded primary.
LEMMA TargetFacts ==
    ASSUME ConnTypes
    PROVE  /\ tgt \in TargetStates /\ tgt.gen \in Nat /\ tgt.active \in Targets
           /\ tgt.cluster \in 0..2 /\ tgt.inflight \in Int
           /\ tgt.revalidate \in BOOLEAN /\ tgt.pending \in BOOLEAN
           /\ faults \in Nat /\ started \in Nat /\ transition \in Threads \cup {0}
           /\ (tgt' = tgt => TargetKept)
BY ZenonT(60) DEF ConnTypes, TargetStates, TargetKept, PrimaryKept, Vacant

LEMMA ReadGenerationOK ==
    ASSUME ConnConstants, IInv, NEW th \in Threads, ReadGeneration(th)
    PROVE  IInv'
<1>1. op[th].pc = "generation" /\ op[th] \in Operations /\ OperationOK(op[th])
  BY ZenonT(60), Running DEF IInv, ReadGeneration, At
<1> PICK o : o = op[th]
  OBVIOUS
<1> DEFINE r == [o EXCEPT !.gen = tgt.gen, !.pc = "acquire"]
<1>2. /\ MountStep /\ op' = [op EXCEPT ![th] = r] /\ UNCHANGED <<pool, gates>>
      /\ UNCHANGED <<tgt, transition, started>>
  BY ZenonT(60) DEF ReadGeneration, MountStep
<1>3. /\ tgt' \in TargetStates /\ tgt.gen \in Nat /\ started' \in Nat /\ transition' = transition
      /\ transition' \in Threads \cup {0} /\ TargetKept
  BY ZenonT(60), <1>2, TargetFacts DEF IInv
<1>4. "acquire" \in Pcs /\ o \in Operations
  BY ZenonT(60), <1>1 DEF Pcs
<1>5. r \in Operations
  BY ZenonT(60), <1>3, <1>4 DEF Operations
<1>6. r.pc = "acquire"
  BY ZenonT(60), <1>4 DEF Operations
<1>7. r.seen = o.seen /\ r.since = o.since
  BY ZenonT(60), <1>4 DEF Operations
<1> HIDE DEF r
<1>8. OperationOK(r) /\ Guarded(r) /\ Looked(r)
  BY ZenonT(60), <1>1, <1>6, <1>7 DEF OperationOK, Guarded, Looked, ConnPcs, FlightPcs, EndPcs
<1>9. QuietMove(op[th], r) /\ r.pc \notin Critical
  BY ZenonT(60), <1>1, <1>6 DEF QuietMove, PlaceKept, Critical, Holds, ConnPcs, FlightPcs, EndPcs, Unconnected
<1> QED
  BY Zenon, <1>2, <1>3, <1>5, <1>8, <1>9, QuietStep

\* An operation that only goes on to another place.
LEMMA PcMoves ==
    ASSUME NEW o \in Operations, NEW p \in Pcs, NEW r, r = [o EXCEPT !.pc = p]
    PROVE  /\ r \in Operations /\ r.pc = p
           /\ r.lane = o.lane /\ r.txn = o.txn /\ r.gen = o.gen /\ r.conn = o.conn
           /\ r.found = o.found /\ r.seen = o.seen /\ r.since = o.since
           /\ r.after = o.after /\ r.out = o.out
<1>1. r \in Operations
  BY ZenonT(60) DEF Operations
<1>2. r.pc = p
  BY ZenonT(60) DEF Operations
<1>3. r.lane = o.lane /\ r.txn = o.txn /\ r.gen = o.gen /\ r.conn = o.conn
  BY ZenonT(60) DEF Operations
<1>4. r.found = o.found /\ r.seen = o.seen /\ r.since = o.since
  BY ZenonT(60) DEF Operations
<1>5. r.after = o.after /\ r.out = o.out
  BY ZenonT(60) DEF Operations
<1> QED
  BY ZenonT(60), <1>1, <1>2, <1>3, <1>4, <1>5

\* What the invariant says of the thread that moves.
LEMMA MoverFacts ==
    ASSUME IInv, NEW th \in Threads, op[th].pc # "idle"
    PROVE  /\ op[th] \in Operations /\ OperationOK(op[th])
           /\ plan.guard => Guarded(op[th])
           /\ Looked(op[th])
           /\ op[th].pc \in Critical => transition = th
<1>1. op[th] \in Operations /\ op[th] # Idle /\ OperationOK(op[th])
  BY ZenonT(60), Running DEF IInv
<1> QED
  BY ZenonT(60), <1>1 DEF IInv, GuardInv, ScanInv, Mutex

LEMMA LockTransitionOK ==
    ASSUME ConnConstants, IInv, NEW th \in Threads, LockTransition(th)
    PROVE  IInv'
<1>1. op[th].pc = "connect" /\ op[th] \in Operations /\ OperationOK(op[th])
  BY ZenonT(60), MoverFacts DEF LockTransition, At
<1> PICK o : o = op[th]
  OBVIOUS
<1> PICK p : p = CASE ~plan.guard -> "try"
                   [] plan.guard /\ (tgt.revalidate \/ tgt.cluster = 0) -> "scan"
                   [] OTHER -> "probe"
  OBVIOUS
<1> DEFINE r == [o EXCEPT !.pc = p]
<1>2. /\ MountStep /\ op' = [op EXCEPT ![th] = r] /\ UNCHANGED <<pool, gates>>
      /\ UNCHANGED <<tgt, started>> /\ transition = 0 /\ transition' = th
  BY ZenonT(60) DEF LockTransition, MountStep, Goto
<1>3. /\ tgt' \in TargetStates /\ started' \in Nat /\ plan.guard \in BOOLEAN
      /\ transition' \in Threads \cup {0} /\ TargetKept
      /\ Len(plan.route) \in Nat \ {0} /\ Targets = 1..Len(plan.route)
  BY ZenonT(60), <1>2, TargetFacts, PlanFacts DEF IInv
<1>4. /\ p \in {"try", "scan", "probe"}
      /\ p = "try" => ~plan.guard
      /\ p = "scan" => Vacant
      /\ p = "probe" => ~Vacant
  BY ZenonT(60), <1>3 DEF Vacant
<1>5. p \in Pcs /\ o \in Operations
  BY ZenonT(60), <1>1, <1>4 DEF Pcs, Unconnected
<1> HIDE DEF r
<1>6. r \in Operations /\ r.pc = p /\ r.seen = o.seen /\ r.since = o.since
  BY <1>5, PcMoves DEF r
<1>7. OperationOK(r)
  BY SMTT(60), <1>1, <1>3, <1>4, <1>6 DEF OperationOK, ConnPcs, FlightPcs, EndPcs
<1>8. Guarded(r)
  BY ZenonT(60), <1>4, <1>6 DEF Guarded, ConnPcs, FlightPcs
<1>9. Looked(r)
  <2>1. r.seen = 0
    BY ZenonT(60), <1>1, <1>6 DEF OperationOK
  <2>2. \A t \in Targets : ~(t <= r.seen)
    BY <1>3, <2>1
  <2> QED
    BY ZenonT(60), <1>4, <1>6, <2>2 DEF Looked
<1>10. QuietMove(op[th], r)
  BY ZenonT(60), <1>1, <1>4, <1>6 DEF QuietMove, PlaceKept, Holds, ConnPcs, FlightPcs, EndPcs, Unconnected
<1>11. transition \in {0, th}
  BY ZenonT(60), <1>2
<1> QED
  BY ZenonT(60), <1>2, <1>3, <1>6, <1>7, <1>8, <1>9, <1>10, <1>11, QuietStep

LEMMA MarkOperationConnectionFailureOK ==
    ASSUME ConnConstants, IInv, NEW th \in Threads, MarkOperationConnectionFailure(th)
    PROVE  IInv'
<1>1. op[th].pc = "mark" /\ op[th] \in Operations /\ OperationOK(op[th])
  BY ZenonT(60), MoverFacts DEF MarkOperationConnectionFailure, At
<1> PICK o : o = op[th]
  OBVIOUS
<1> DEFINE r == [o EXCEPT !.pc = "advance", !.after = "replay"]
<1>2. /\ MountStep /\ op' = [op EXCEPT ![th] = r] /\ UNCHANGED <<pool, gates>>
      /\ UNCHANGED <<tgt, started>> /\ transition = 0 /\ transition' = th
  BY ZenonT(60) DEF MarkOperationConnectionFailure, MountStep
<1>3. /\ tgt' \in TargetStates /\ started' \in Nat
      /\ transition' \in Threads \cup {0} /\ TargetKept
  BY ZenonT(60), <1>2, TargetFacts DEF IInv
<1>4. "advance" \in Pcs /\ o \in Operations
  BY ZenonT(60), <1>1 DEF Pcs, EndPcs
<1>5. r \in Operations
  BY ZenonT(60), <1>4 DEF Operations
<1>6. r.pc = "advance" /\ r.after = "replay"
  BY ZenonT(60), <1>4 DEF Operations
<1>7. r.seen = o.seen /\ r.since = o.since
  BY ZenonT(60), <1>4 DEF Operations
<1> HIDE DEF r
<1>8. OperationOK(r) /\ Guarded(r) /\ Looked(r)
  BY ZenonT(60), <1>1, <1>6, <1>7 DEF OperationOK, Guarded, Looked, ConnPcs, FlightPcs, EndPcs, Unset
<1>9. QuietMove(op[th], r)
  BY ZenonT(60), <1>1, <1>6 DEF QuietMove, PlaceKept, Holds, ConnPcs, FlightPcs, EndPcs, Unconnected
<1>10. transition \in {0, th}
  BY ZenonT(60), <1>2
<1> QED
  BY Zenon, <1>2, <1>3, <1>5, <1>8, <1>9, <1>10, QuietStep

LEMMA ReplayOK ==
    ASSUME ConnConstants, IInv, NEW th \in Threads, Replay(th)
    PROVE  IInv'
<1>1. op[th].pc = "replay" /\ op[th] \in Operations /\ OperationOK(op[th]) /\ transition = th
  BY ZenonT(60), MoverFacts DEF Replay, At, Critical
<1> PICK o : o = op[th]
  OBVIOUS
<1> DEFINE r == [o EXCEPT !.pc = "generation", !.replayed = TRUE, !.conn = Unset,
                          !.after = Unset, !.out = Unset]
<1>2. /\ MountStep /\ op' = [op EXCEPT ![th] = r] /\ UNCHANGED <<pool, gates>>
      /\ UNCHANGED <<tgt, started>> /\ transition' = 0
  BY ZenonT(60) DEF Replay, MountStep
<1>3. /\ tgt' \in TargetStates /\ started' \in Nat
      /\ transition' \in Threads \cup {0} /\ TargetKept
  BY ZenonT(60), <1>2, TargetFacts DEF IInv
<1>4. "generation" \in Pcs /\ o \in Operations
  BY ZenonT(60), <1>1 DEF Pcs
<1>5. r \in Operations
  BY ZenonT(60), <1>4 DEF Operations
<1>6. r.pc = "generation"
  BY ZenonT(60), <1>4 DEF Operations
<1>7. r.seen = o.seen /\ r.since = o.since
  BY ZenonT(60), <1>4 DEF Operations
<1> HIDE DEF r
<1>8. OperationOK(r) /\ Guarded(r) /\ Looked(r)
  BY Zenon, <1>1, <1>6, <1>7 DEF OperationOK, Guarded, Looked, ConnPcs, FlightPcs, EndPcs
<1>9. QuietMove(op[th], r) /\ r.pc \notin Critical
  BY ZenonT(60), <1>1, <1>6 DEF QuietMove, PlaceKept, Holds, Critical, ConnPcs, FlightPcs, EndPcs, Unconnected
<1>10. transition \in {0, th}
  BY ZenonT(60), <1>1
<1> QED
  BY ZenonT(60), <1>2, <1>3, <1>5, <1>8, <1>9, <1>10, QuietStep

LEMMA BodyOK ==
    ASSUME ConnConstants, IInv, NEW th \in Threads, NEW out \in {"ok", "error", "lost"},
           Body(th, out)
    PROVE  IInv'
<1>1. /\ op[th].pc = "body" /\ op[th] \in Operations /\ OperationOK(op[th])
      /\ (plan.guard => Guarded(op[th]))
  BY ZenonT(60), MoverFacts DEF Body, At
<1> PICK o : o = op[th]
  OBVIOUS
<1> DEFINE r == [o EXCEPT !.out = out, !.pc = "leave"]
<1>2. /\ MountStep /\ op' = [op EXCEPT ![th] = r] /\ UNCHANGED <<pool, gates>>
      /\ UNCHANGED <<tgt, transition, started>>
  BY ZenonT(60) DEF Body, MountStep
<1>3. /\ tgt' \in TargetStates /\ started' \in Nat /\ transition' = transition
      /\ transition' \in Threads \cup {0} /\ TargetKept
  BY ZenonT(60), <1>2, TargetFacts DEF IInv
<1>4. "leave" \in Pcs /\ o \in Operations
  BY ZenonT(60), <1>1 DEF Pcs, ConnPcs, FlightPcs
<1>5. r \in Operations
  BY ZenonT(60), <1>4 DEF Operations
<1>6. r.pc = "leave" /\ r.conn = o.conn
  BY ZenonT(60), <1>4 DEF Operations
<1>7. r.seen = o.seen /\ r.since = o.since
  BY ZenonT(60), <1>4 DEF Operations
<1>8. r.lane = o.lane /\ r.txn = o.txn
  BY ZenonT(60), <1>4 DEF Operations
<1> HIDE DEF r
<1>9. OperationOK(r) /\ Looked(r)
  BY ZenonT(60), <1>1, <1>6, <1>7 DEF OperationOK, Looked, ConnPcs, FlightPcs, EndPcs
<1>10. plan.guard => Guarded(r)
  BY ZenonT(60), <1>1, <1>6 DEF Guarded, ConnPcs, FlightPcs
<1>11. QuietMove(op[th], r) /\ r.pc \notin Critical
  BY ZenonT(60), <1>1, <1>6, <1>8
     DEF QuietMove, PlaceKept, Holds, Critical, ConnPcs, FlightPcs, EndPcs, Unconnected
<1> QED
  BY ZenonT(60), <1>2, <1>3, <1>5, <1>9, <1>10, <1>11, QuietStep

LEMMA BeginOperationOK ==
    ASSUME ConnConstants, IInv, NEW th \in Threads, BeginOperation(th)
    PROVE  IInv'
<1>1. /\ op[th].pc = "begin" /\ op[th] \in Operations /\ OperationOK(op[th])
      /\ (plan.guard => Guarded(op[th]))
  BY ZenonT(60), MoverFacts DEF BeginOperation, At
<1> PICK o : o = op[th]
  OBVIOUS
<1>2. /\ MountStep /\ UNCHANGED <<pool, gates>> /\ UNCHANGED <<transition, started>>
      /\ tgt \in TargetStates /\ tgt.inflight \in Int /\ started' \in Nat
      /\ transition' \in Threads \cup {0} /\ transition' = transition
  BY ZenonT(60), TargetFacts DEF BeginOperation, MountStep, IInv
<1>3. ASSUME NEW p \in {"run", "stale"}, op' = [op EXCEPT ![th] = [o EXCEPT !.pc = p]],
             plan.guard /\ p = "run" => o.conn.gen = tgt.gen,
             tgt' \in TargetStates, tgt'.cluster = tgt.cluster, plan.guard => PrimaryKept,
             tgt'.inflight = IF p = "run" /\ plan.guard THEN tgt.inflight + 1 ELSE tgt.inflight
      PROVE  IInv'
  <2> DEFINE r == [o EXCEPT !.pc = p]
  <2>1. p \in Pcs /\ o \in Operations
    BY ZenonT(60), <1>1 DEF Pcs, ConnPcs, FlightPcs
  <2> HIDE DEF r
  <2>2. /\ r \in Operations /\ r.pc = p /\ r.conn = o.conn /\ r.seen = o.seen
        /\ r.since = o.since
    BY <2>1, PcMoves DEF r
  <2>3. OperationOK(r) /\ Looked(r)
    BY ZenonT(60), <1>1, <2>2 DEF OperationOK, Looked, ConnPcs, FlightPcs, EndPcs
  <2>4. plan.guard => Guarded(r)
    BY ZenonT(60), <1>1, <1>3, <2>2 DEF Guarded, ConnPcs, FlightPcs
  <2>5. PlaceKept(op[th], r) /\ r.pc \notin Critical
    BY ZenonT(60), <1>1, <2>2 DEF PlaceKept, Holds, Critical, ConnPcs, FlightPcs, EndPcs, Unconnected
  <2>6. FlightCounted(op[th], r)
    BY ZenonT(60), <1>1, <1>3, <2>2 DEF FlightCounted, FlightPcs
  <2>7. OperationInv(r) /\ op' = [op EXCEPT ![th] = r]
    BY ZenonT(60), <1>3, <2>2, <2>3, <2>4 DEF OperationInv, r
  <2> QED
    BY ZenonT(60), <1>2, <1>3, <2>5, <2>6, <2>7, CountedStep
<1>4. TargetKept \/ tgt' # tgt
  BY ZenonT(60), TargetFacts DEF IInv
<1>5. CASE ~plan.guard
  <2>1. tgt' = tgt /\ op' = [op EXCEPT ![th] = [o EXCEPT !.pc = "run"]]
    BY ZenonT(60), <1>5 DEF BeginOperation, Goto
  <2> QED
    BY ZenonT(60), <1>2, <1>3, <1>4, <1>5, <2>1 DEF TargetKept
<1>6. CASE plan.guard /\ tgt.gen # op[th].conn.gen
  <2>1. tgt' = tgt /\ op' = [op EXCEPT ![th] = [o EXCEPT !.pc = "stale"]]
    BY ZenonT(60), <1>6 DEF BeginOperation, Goto
  <2> QED
    BY ZenonT(60), <1>2, <1>3, <1>4, <1>6, <2>1 DEF TargetKept
<1>7. CASE plan.guard /\ tgt.gen = op[th].conn.gen
  <2>1. /\ tgt' = [tgt EXCEPT !.inflight = @ + 1]
        /\ op' = [op EXCEPT ![th] = [o EXCEPT !.pc = "run"]]
    BY ZenonT(60), <1>7 DEF BeginOperation, Goto
  <2>2. /\ tgt' \in TargetStates /\ tgt'.cluster = tgt.cluster /\ PrimaryKept
        /\ tgt'.inflight = tgt.inflight + 1
    BY <1>2, <2>1 DEF TargetStates, PrimaryKept, Vacant
  <2> QED
    BY ZenonT(60), <1>3, <1>7, <2>1, <2>2
<1> QED
  BY ZenonT(60), <1>5, <1>6, <1>7

LEMMA EndOperationOK ==
    ASSUME ConnConstants, IInv, NEW th \in Threads, EndOperation(th)
    PROVE  IInv'
<1>1. /\ op[th].pc = "ended" /\ op[th] \in Operations /\ OperationOK(op[th])
  BY ZenonT(60), MoverFacts DEF EndOperation, At
<1>0. Idle.pc = "idle"
  BY ZenonT(60) DEF Idle
<1> PICK o : o = op[th]
  OBVIOUS
<1> PICK r : r = IF o.out = "lost" /\ ~o.replayed
                 THEN [o EXCEPT !.pc = "mark", !.gen = o.conn.gen] ELSE Idle
  OBVIOUS
<1>2. /\ MountStep /\ UNCHANGED <<pool, gates>> /\ UNCHANGED <<transition, started>>
      /\ op' = [op EXCEPT ![th] = r]
      /\ tgt' = [tgt EXCEPT !.inflight = @ - (IF plan.guard THEN 1 ELSE 0)]
  BY ZenonT(60) DEF EndOperation, MountStep
<1>3. /\ tgt \in TargetStates /\ tgt.inflight \in Int /\ started' \in Nat
      /\ transition' \in Threads \cup {0} /\ transition' = transition /\ plan.guard \in BOOLEAN
  BY ZenonT(60), <1>2, TargetFacts, PlanFacts DEF IInv
<1>4. /\ tgt' \in TargetStates /\ tgt'.cluster = tgt.cluster /\ PrimaryKept
      /\ tgt'.inflight = IF plan.guard THEN tgt.inflight - 1 ELSE tgt.inflight
  BY SMTT(60), <1>2, <1>3 DEF TargetStates, PrimaryKept, Vacant
<1>5. CASE r = Idle
  <2>1. r.pc = "idle"
    BY Zenon, <1>5, <1>0
  <2>2. PlaceKept(op[th], r) /\ r.pc \notin Critical /\ FlightCounted(op[th], r)
    BY ZenonT(60), <1>1, <1>4, <2>1 DEF PlaceKept, Holds, Critical, ConnPcs, FlightPcs, EndPcs, Unconnected,
                            FlightCounted
  <2> QED
    BY Zenon, <1>2, <1>3, <1>4, <1>5, <2>2, CountedStep
<1>6. CASE r = [o EXCEPT !.pc = "mark", !.gen = o.conn.gen]
  <2>1. o \in Operations /\ o.conn.gen \in Nat /\ "mark" \in Pcs
    BY ZenonT(60), <1>1 DEF OperationOK, ConnPcs, FlightPcs, Conns, Pcs
  <2>2. r \in Operations
    BY Zenon, <1>6, <2>1 DEF Operations
  <2>3. r.pc = "mark" /\ r.seen = o.seen /\ r.since = o.since
    BY ZenonT(60), <1>6, <2>1 DEF Operations
  <2>4. OperationOK(r) /\ Guarded(r) /\ Looked(r)
    BY ZenonT(60), <1>1, <2>3 DEF OperationOK, Guarded, Looked, ConnPcs, FlightPcs, EndPcs
  <2>5. PlaceKept(op[th], r) /\ r.pc \notin Critical /\ FlightCounted(op[th], r)
    BY ZenonT(60), <1>1, <1>4, <2>3 DEF PlaceKept, Holds, Critical, ConnPcs, FlightPcs, EndPcs, Unconnected,
                            FlightCounted
  <2>6. OperationInv(r)
    BY ZenonT(60), <2>2, <2>4 DEF OperationInv
  <2> QED
    BY Zenon, <1>2, <1>3, <1>4, <2>5, <2>6, CountedStep
<1> QED
  BY ZenonT(60), <1>5, <1>6

\* An operation at the end of a generation goes where it was to go next.
LEMMA GoesOn ==
    ASSUME ConnConstants, IInv, NEW th \in Threads, op[th].pc \in EndPcs,
           NEW r, r \in Operations, r.pc = op[th].after,
           r.after = op[th].after, r.seen = op[th].seen, r.since = op[th].since
    PROVE  /\ r.pc \in {"scan", "replay"} /\ r.pc \in Critical
           /\ OperationOK(r) /\ Looked(r) /\ QuietMove(op[th], r)
<1>1. op[th] \in Operations /\ OperationOK(op[th])
  BY ZenonT(60), MoverFacts DEF EndPcs
<1>2. r.pc \in {"scan", "replay"}
  <2>1. op[th].after \in {Unset, "scan", "replay"}
    BY ZenonT(60), <1>1 DEF Operations
  <2> QED
    BY ZenonT(60), <1>1, <2>1 DEF OperationOK
<1>3. /\ r.seen = 0 /\ Targets = 1..Len(plan.route) /\ Len(plan.route) \in Nat \ {0}
  BY ZenonT(60), <1>1, PlanFacts DEF IInv, OperationOK, EndPcs
<1>4. OperationOK(r)
  BY <1>1, <1>2, <1>3 DEF OperationOK, ConnPcs, FlightPcs, EndPcs
<1>5. Looked(r)
  <2>1. \A t \in Targets : ~(t <= r.seen)
    BY <1>3
  <2> QED
    BY ZenonT(60), <1>2, <2>1 DEF Looked
<1>6. QuietMove(op[th], r) /\ r.pc \in Critical
  BY ZenonT(60), <1>2 DEF QuietMove, PlaceKept, Holds, Critical, ConnPcs, FlightPcs, EndPcs, Unconnected
<1> QED
  BY ZenonT(60), <1>2, <1>4, <1>5, <1>6

LEMMA AnnounceOK ==
    ASSUME ConnConstants, IInv, NEW th \in Threads, Announce(th)
    PROVE  IInv'
<1>1. /\ op[th].pc \in {"advance", "revalidate"} /\ op[th].pc \in EndPcs
      /\ op[th] \in Operations /\ OperationOK(op[th])
      /\ (plan.guard => Guarded(op[th])) /\ transition = th
  BY ZenonT(60), MoverFacts DEF Announce, EndPcs, Critical
<1> PICK o : o = op[th]
  OBVIOUS
<1>2. /\ MountStep /\ UNCHANGED <<pool, gates>> /\ UNCHANGED <<transition, started>>
      /\ tgt \in TargetStates /\ started' \in Nat
      /\ transition' \in Threads \cup {0} /\ transition' = transition /\ transition' = th
      /\ plan.guard \in BOOLEAN
  BY ZenonT(60), <1>1, TargetFacts, PlanFacts DEF Announce, MountStep, IInv
<1>3. CASE op[th].gen # tgt.gen
  <2> DEFINE r == [o EXCEPT !.pc = o.after, !.gen = 0]
  <2>1. tgt' = tgt /\ op' = [op EXCEPT ![th] = r]
    BY ZenonT(60), <1>3 DEF Announce
  <2>2. tgt' \in TargetStates /\ TargetKept
    BY ZenonT(60), <2>1, TargetFacts DEF IInv
  <2>3. o \in Operations /\ o.after \in Pcs
    <3>1. o.after \in {Unset, "scan", "replay"} /\ o.after # Unset
      BY ZenonT(60), <1>1 DEF Operations, OperationOK
    <3> QED
      BY ZenonT(60), <1>1, <3>1 DEF Pcs, Unconnected
  <2>4. r \in Operations
    BY ZenonT(60), <2>3 DEF Operations
  <2>5. r.pc = o.after /\ r.after = o.after
    BY ZenonT(60), <2>3 DEF Operations
  <2>6. r.seen = o.seen /\ r.since = o.since
    BY ZenonT(60), <2>3 DEF Operations
  <2> HIDE DEF r
  <2>7. /\ r.pc \in {"scan", "replay"} /\ r.pc \in Critical
        /\ OperationOK(r) /\ Looked(r) /\ QuietMove(op[th], r)
    BY ZenonT(60), <1>1, <2>4, <2>5, <2>6, GoesOn
  <2>8. plan.guard => Guarded(r)
    BY ZenonT(60), <1>1, <1>3, <2>5, <2>7 DEF Guarded, ConnPcs, FlightPcs
  <2> QED
    BY ZenonT(60), <1>2, <2>1, <2>2, <2>4, <2>7, <2>8, QuietStep
<1>4. CASE op[th].gen = tgt.gen
  <2> DEFINE r == [o EXCEPT !.pc = "fence", !.gen = 0]
  <2>1. tgt' = [tgt EXCEPT !.pending = plan.guard] /\ op' = [op EXCEPT ![th] = r]
    BY ZenonT(60), <1>4 DEF Announce
  <2>2. tgt' \in TargetStates /\ TargetKept
    BY ZenonT(60), <1>2, <2>1 DEF TargetStates, TargetKept, PrimaryKept, Vacant
  <2>3. o \in Operations /\ "fence" \in Pcs
    BY ZenonT(60), <1>1 DEF Pcs, EndPcs
  <2>4. r \in Operations
    BY ZenonT(60), <2>3 DEF Operations
  <2>5. r.pc = "fence" /\ r.after = o.after
    BY ZenonT(60), <2>3 DEF Operations
  <2>6. r.seen = o.seen /\ r.since = o.since
    BY ZenonT(60), <2>3 DEF Operations
  <2> HIDE DEF r
  <2>7. OperationOK(r) /\ Guarded(r) /\ Looked(r)
    BY ZenonT(60), <1>1, <2>5, <2>6 DEF OperationOK, Guarded, Looked, ConnPcs, FlightPcs, EndPcs
  <2>8. QuietMove(op[th], r)
    BY ZenonT(60), <1>1, <2>5 DEF QuietMove, PlaceKept, Holds, ConnPcs, FlightPcs, EndPcs, Unconnected
  <2> QED
    BY Zenon, <1>2, <2>1, <2>2, <2>4, <2>7, <2>8, QuietStep
<1> QED
  BY ZenonT(60), <1>3, <1>4

\* The end of a generation under the guard: nothing is in flight, every connection
\* is now of an earlier one, and the mutex keeps the others from looking for a primary.
LEMMA AdvanceAfterFailureOK ==
    ASSUME ConnConstants, IInv, NEW th \in Threads, AdvanceAfterFailure(th)
    PROVE  IInv'
<1>1. /\ op[th].pc = "fence" /\ op[th].pc \in EndPcs
      /\ op[th] \in Operations /\ OperationOK(op[th]) /\ transition = th
  BY ZenonT(60), MoverFacts DEF AdvanceAfterFailure, At, EndPcs, Critical
<1> PICK o : o = op[th]
  OBVIOUS
<1> DEFINE r == [o EXCEPT !.pc = o.after]
<1>2. /\ MountStep /\ UNCHANGED <<pool, gates>> /\ UNCHANGED <<transition, started>>
      /\ tgt \in TargetStates /\ tgt.gen \in Nat /\ started' \in Nat /\ tgt.active \in Nat
      /\ transition' \in Threads \cup {0} /\ transition' = transition /\ transition' = th
      /\ plan.guard \in BOOLEAN /\ op' = [op EXCEPT ![th] = r]
  BY <1>1, TargetFacts, PlanFacts DEF AdvanceAfterFailure, MountStep, IInv, Goto, Targets
<1>3. o \in Operations /\ o.after \in Pcs
  <2>1. o.after \in {Unset, "scan", "replay"} /\ o.after # Unset
    BY ZenonT(60), <1>1 DEF Operations, OperationOK
  <2> QED
    BY ZenonT(60), <1>1, <2>1 DEF Pcs, Unconnected
<1> HIDE DEF r
<1>4. /\ r \in Operations /\ r.pc = o.after /\ r.after = o.after
      /\ r.seen = o.seen /\ r.since = o.since
  BY <1>3, PcMoves DEF r
<1>5. /\ r.pc \in {"scan", "replay"} /\ r.pc \in Critical
      /\ OperationOK(r) /\ Looked(r) /\ QuietMove(op[th], r)
  BY ZenonT(60), <1>1, <1>4, GoesOn
<1>6. /\ tgt' \in TargetStates /\ tgt'.cluster = tgt.cluster /\ tgt'.gen = tgt.gen + 1
      /\ tgt'.revalidate = plan.guard /\ tgt'.inflight = tgt.inflight
  <2>1. tgt' = [tgt EXCEPT !.gen = @ + 1, !.revalidate = plan.guard,
                           !.failed = IF plan.guard THEN tgt.active ELSE 0,
                           !.pending = FALSE]
    BY ZenonT(60) DEF AdvanceAfterFailure
  <2>2. PICK g \in Nat, f \in Nat :
          /\ g = tgt.gen + 1
          /\ tgt' = [tgt EXCEPT !.gen = g, !.revalidate = plan.guard, !.failed = f,
                                !.pending = FALSE]
    <3>1. tgt.gen + 1 \in Nat /\ (IF plan.guard THEN tgt.active ELSE 0) \in Nat
      BY <1>2
    <3> QED
      BY Zenon, <2>1, <3>1
  <2>3. tgt \in TargetStates /\ plan.guard \in BOOLEAN
    BY ZenonT(60), <1>2
  <2>4. tgt' \in TargetStates
    BY ZenonT(60), <2>2, <2>3 DEF TargetStates
  <2>5. tgt'.gen = g /\ tgt'.revalidate = plan.guard
    BY ZenonT(60), <2>2, <2>3 DEF TargetStates
  <2>6. tgt'.cluster = tgt.cluster /\ tgt'.inflight = tgt.inflight
    BY ZenonT(60), <2>2, <2>3 DEF TargetStates
  <2> QED
    BY ZenonT(60), <2>2, <2>4, <2>5, <2>6
<1>7. CASE ~plan.guard
  <2>1. TargetKept
    BY ZenonT(60), <1>6, <1>7 DEF TargetKept
  <2> QED
    BY ZenonT(60), <1>2, <1>4, <1>5, <1>6, <1>7, <2>1, QuietStep
<1>8. CASE plan.guard
  <2>1. /\ op'[th] = r
        /\ \A x \in Threads \ {th} : op'[x] = op[x] /\ Woken(x)
    BY ZenonT(60), <1>2, OneMoves DEF IInv
  <2>2. tgt.inflight = 0 /\ tgt.inflight = Cardinality(Flying)
    BY ZenonT(60), <1>8 DEF AdvanceAfterFailure, IInv, GuardInv
  <2>3. Flying = {} /\ Flying' = {}
    <3>1. Flying = {}
      BY ZenonT(60), <2>2, ThreadSets, FS_EmptySet DEF Flying
    <3> QED
      BY ZenonT(60), <1>5, <2>1, <3>1 DEF Flying, FlightPcs
  <2>4. tgt'.inflight = Cardinality(Flying')
    BY ZenonT(60), <1>6, <2>2, <2>3
  <2>5. Vacant'
    BY ZenonT(60), <1>6, <1>8 DEF Vacant
  <2>6. ASSUME NEW c \in Conns, Current(c)
        PROVE  c.gen <= tgt'.gen /\ c.gen # tgt'.gen
    BY SMTT(60), <1>2, <1>6, <2>6 DEF Current, Conns
  <2>7. ASSUME NEW lane \in Lanes, NEW i \in 1..Len(pool'.cached[lane])
        PROVE  Current(pool.cached[lane][i])'
    <3>1. pool' = pool /\ pool.cached[lane][i] \in Conns
      BY SMTT(60), <1>2, <2>7 DEF IInv, ConnTypes
    <3>2. Current(pool.cached[lane][i])
      BY ZenonT(60), <1>8, <2>7, <3>1 DEF IInv, GuardInv
    <3> QED
      BY ZenonT(60), <2>6, <3>1, <3>2 DEF Current
  <2>8. ASSUME NEW x \in Threads, op'[x] # Idle PROVE Guarded(op[x])'
    <3>1. CASE x = th
      BY ZenonT(60), <1>5, <2>1, <2>5, <3>1 DEF Guarded, ConnPcs, FlightPcs
    <3>2. CASE x # th
      <4>1. op'[x] = op[x] /\ op[x] # Idle /\ op[x].pc \notin FlightPcs
        BY ZenonT(60), <2>1, <2>3, <2>8, <3>2 DEF Flying
      <4>2. op[x].pc \notin Critical
        BY ZenonT(60), <1>1, <3>2 DEF IInv, Mutex
      <4>3. Guarded(op[x]) /\ OperationOK(op[x])
        BY ZenonT(60), <1>8, <4>1 DEF IInv, GuardInv, ConnTypes
      <4>4. op[x].pc \in ConnPcs => Current(op[x].conn)'
        <5> SUFFICES ASSUME op[x].pc \in ConnPcs PROVE Current(op[x].conn)'
          OBVIOUS
        <5>1. op[x].conn \in Conns /\ Current(op[x].conn)
          BY ZenonT(60), <4>3 DEF OperationOK, Guarded
        <5> QED
          BY ZenonT(60), <2>6, <4>1, <5>1 DEF Current
      <4> QED
        BY ZenonT(60), <2>5, <4>1, <4>2, <4>4 DEF Guarded, Critical, EndPcs
    <3> QED
      BY ZenonT(60), <3>1, <3>2
  <2>9. GuardInv'
    BY ZenonT(60), <1>2, <1>8, <2>4, <2>7, <2>8 DEF GuardInv, MountStep
  <2>10. ScanInv'
    BY ZenonT(60), <1>2, <1>5, <1>6, <2>1, ScanStep DEF IInv
  <2>11. PlaceKept(op[th], r)
    BY ZenonT(60), <1>5 DEF QuietMove
  <2> QED
    BY Zenon, <1>2, <1>4, <1>5, <1>6, <2>9, <2>10, <2>11, PlacedStep
<1> QED
  BY ZenonT(60), <1>2, <1>7, <1>8

-----------------------------------------------------------------------------
(* The search for the primary. *)

\* A new connection leads to a server of the route, in the generation in force.
LEMMA ConnectionFacts ==
    ASSUME ConnConstants, ConnTypes, NEW t \in Targets
    PROVE  /\ Connection(t) \in Conns
           /\ Connection(t).server = plan.route[t] /\ Connection(t).gen = tgt.gen
           /\ Connection(t).start = srv[plan.route[t]].start
           /\ Connection(t).cluster = srv[plan.route[t]].cluster
<1>1. plan.route[t] \in Servers /\ tgt.gen \in Nat
  BY ZenonT(60), PlanFacts, TargetFacts
<1>2. srv[plan.route[t]].start \in Nat /\ srv[plan.route[t]].cluster \in 1..2
  BY ZenonT(60), <1>1 DEF ConnTypes, Rows
<1> QED
  BY ZenonT(60), <1>1, <1>2 DEF Connection, Conns

LEMMA ConnectedFacts ==
    ASSUME ConnConstants, IInv, NEW th \in Threads, op[th].pc \in {"try", "probe", "install"},
           NEW c \in Conns, Connected(th, c)
    PROVE  /\ transition = th /\ transition' = 0
           /\ \E r \in Operations :
                /\ op' = [op EXCEPT ![th] = r] /\ r.pc = "begin" /\ r.conn = c
                /\ OperationOK(r) /\ Looked(r) /\ QuietMove(op[th], r) /\ r.pc \notin Critical
<1>1. op[th] \in Operations /\ OperationOK(op[th]) /\ transition = th /\ faults \in Nat
  BY ZenonT(60), MoverFacts, TargetFacts DEF Critical, IInv
<1> PICK o : o = op[th]
  OBVIOUS
<1> DEFINE r == [o EXCEPT !.pc = "begin", !.conn = c, !.found = <<>>, !.since = 0,
                          !.after = Unset]
<1>2. o \in Operations /\ "begin" \in Pcs /\ <<>> \in Seq(Candidates)
  BY <1>1 DEF Pcs, ConnPcs
<1>3. r \in Operations
  BY ZenonT(60), <1>2 DEF Operations
<1>4. r.pc = "begin" /\ r.conn = c
  BY ZenonT(60), <1>2 DEF Operations
<1>5. r.seen = o.seen /\ r.since = 0
  BY ZenonT(60), <1>2 DEF Operations
<1>6. op' = [op EXCEPT ![th] = r] /\ transition' = 0
  BY ZenonT(60) DEF Connected
<1> HIDE DEF r
<1>7. OperationOK(r) /\ Looked(r)
  BY <1>1, <1>4, <1>5 DEF OperationOK, Looked, ConnPcs, FlightPcs, EndPcs
<1>8. QuietMove(op[th], r) /\ r.pc \notin Critical
  BY ZenonT(60), <1>4 DEF QuietMove, PlaceKept, Holds, Critical, ConnPcs, FlightPcs, EndPcs, Unconnected
<1> QED
  BY Zenon, <1>1, <1>3, <1>4, <1>6, <1>7, <1>8

LEMMA TryTargetOK ==
    ASSUME ConnConstants, IInv, NEW th \in Threads, TryTarget(th)
    PROVE  IInv'
<1>1. /\ op[th].pc = "try" /\ op[th] \in Operations /\ OperationOK(op[th])
      /\ transition = th /\ ~plan.guard
  BY ZenonT(60), MoverFacts DEF TryTarget, At, Critical, OperationOK
<1>2. /\ MountStep /\ UNCHANGED <<pool, gates>> /\ started' \in Nat
      /\ tgt \in TargetStates /\ tgt.gen \in Nat /\ tgt.active \in Targets
      /\ transition \in {0, th}
  BY ZenonT(60), <1>1, TargetFacts DEF TryTarget, MountStep, IInv
<1>3. CASE srv[plan.route[tgt.active]].up
  <2>1. Connected(th, Connection(tgt.active)) /\ tgt' = tgt
    BY ZenonT(60), <1>3 DEF TryTarget
  <2>2. Connection(tgt.active) \in Conns
    BY ZenonT(60), <1>2, ConnectionFacts DEF IInv
  <2>3. /\ transition' = 0
        /\ \E r \in Operations :
             /\ op' = [op EXCEPT ![th] = r] /\ r.pc = "begin" /\ r.conn = Connection(tgt.active)
             /\ OperationOK(r) /\ Looked(r) /\ QuietMove(op[th], r) /\ r.pc \notin Critical
    BY ZenonT(60), <1>1, <2>1, <2>2, ConnectedFacts
  <2>4. PICK r \in Operations :
             /\ op' = [op EXCEPT ![th] = r]
             /\ OperationOK(r) /\ Looked(r) /\ QuietMove(op[th], r) /\ r.pc \notin Critical
    BY Zenon, <2>3
  <2>5. TargetKept /\ tgt' \in TargetStates /\ transition' \in Threads \cup {0}
    BY ZenonT(60), <1>2, <2>1, <2>3, TargetFacts DEF IInv
  <2> QED
    BY ZenonT(60), <1>1, <1>2, <2>4, <2>5, QuietStep
<1>4. CASE ~srv[plan.route[tgt.active]].up
  <2>1. /\ tgt' = [tgt EXCEPT !.gen = @ + 1] /\ transition' = 0
        /\ op' = [op EXCEPT ![th] = [op[th] EXCEPT !.pc = "unconnected"]]
    BY ZenonT(60), <1>4 DEF TryTarget, Goto
  <2>2. /\ tgt' \in TargetStates /\ tgt'.cluster = tgt.cluster /\ tgt'.inflight = tgt.inflight
    BY <1>2, <2>1 DEF TargetStates
  <2>3. TargetKept /\ transition' \in Threads \cup {0}
    BY ZenonT(60), <1>1, <2>1, <2>2 DEF TargetKept
  <2>4. PICK r : r = [op[th] EXCEPT !.pc = "unconnected"]
    BY ZenonT(60)
  <2>5. "unconnected" \in Pcs
    BY ZenonT(60) DEF Pcs, Unconnected
  <2>6. r \in Operations /\ r.pc = "unconnected" /\ r.seen = op[th].seen /\ r.since = op[th].since
    BY <1>1, <2>4, <2>5, PcMoves
  <2>7. OperationOK(r) /\ Looked(r)
    BY ZenonT(60), <1>1, <2>6 DEF OperationOK, Looked, ConnPcs, FlightPcs, EndPcs
  <2>8. QuietMove(op[th], r) /\ r.pc \notin Critical
    BY ZenonT(60), <1>1, <2>6
       DEF QuietMove, PlaceKept, Holds, Critical, ConnPcs, FlightPcs, EndPcs, Unconnected
  <2>9. op' = [op EXCEPT ![th] = r]
    BY ZenonT(60), <2>1, <2>4
  <2> QED
    BY Zenon, <1>1, <1>2, <2>2, <2>3, <2>6, <2>7, <2>8, <2>9, QuietStep
<1> QED
  BY ZenonT(60), <1>3, <1>4

LEMMA ProbeActiveOK ==
    ASSUME ConnConstants, IInv, NEW th \in Threads, ProbeActive(th)
    PROVE  IInv'
<1> DEFINE s == plan.route[tgt.active]
           same == srv[s].cluster = tgt.cluster /\ Fingerprint(s) = tgt.print
<1>1. /\ op[th].pc = "probe" /\ op[th] \in Operations /\ OperationOK(op[th])
      /\ transition = th /\ (plan.guard => Guarded(op[th]))
  BY ZenonT(60), MoverFacts DEF ProbeActive, At, Critical
<1>2. /\ MountStep /\ UNCHANGED <<pool, gates>> /\ started' \in Nat /\ tgt' = tgt
      /\ tgt' \in TargetStates /\ tgt.gen \in Nat /\ tgt.active \in Targets
      /\ transition \in {0, th} /\ transition \in Threads \cup {0} /\ TargetKept
  BY ZenonT(60), <1>1, TargetFacts DEF ProbeActive, MountStep, IInv
<1>3. CASE srv[s].up /\ srv[s].writable /\ same
  <2>1. Connected(th, Connection(tgt.active))
    BY ZenonT(60), <1>3 DEF ProbeActive
  <2> PICK c : c = Connection(tgt.active)
    OBVIOUS
  <2>2. /\ c \in Conns /\ c.gen = tgt.gen /\ c.cluster = tgt.cluster
        /\ <<c.server, c.start>> = tgt.print
    BY ZenonT(60), <1>2, <1>3, ConnectionFacts DEF IInv, Fingerprint
  <2>3. /\ transition' = 0
        /\ \E r \in Operations :
             /\ op' = [op EXCEPT ![th] = r] /\ r.pc = "begin" /\ r.conn = c
             /\ OperationOK(r) /\ Looked(r) /\ QuietMove(op[th], r) /\ r.pc \notin Critical
    BY ZenonT(60), <1>1, <2>1, <2>2, ConnectedFacts
  <2>4. PICK r \in Operations :
             /\ op' = [op EXCEPT ![th] = r] /\ r.pc = "begin" /\ r.conn = c
             /\ OperationOK(r) /\ Looked(r) /\ QuietMove(op[th], r) /\ r.pc \notin Critical
    BY Zenon, <2>3
  <2>5. plan.guard => Guarded(r)
    BY <1>1, <1>2, <2>2, <2>4 DEF Guarded, Current, ConnPcs, FlightPcs
  <2>6. transition' \in Threads \cup {0}
    BY ZenonT(60), <2>3
  <2> QED
    BY ZenonT(60), <1>2, <2>4, <2>5, <2>6, QuietStep
<1>4. ASSUME NEW p \in {"revalidate", "advance"}, transition' = transition,
             op' = [op EXCEPT ![th] = [@ EXCEPT !.pc = p, !.gen = tgt.gen, !.after = "scan"]]
      PROVE  IInv'
  <2> PICK o : o = op[th]
    OBVIOUS
  <2> DEFINE r == [o EXCEPT !.pc = p, !.gen = tgt.gen, !.after = "scan"]
  <2>1. o \in Operations /\ p \in Pcs
    BY ZenonT(60), <1>1 DEF Pcs, EndPcs
  <2>2. r \in Operations
    BY ZenonT(60), <1>2, <2>1 DEF Operations
  <2>3. r.pc = p /\ r.gen = tgt.gen /\ r.after = "scan"
    BY ZenonT(60), <2>1 DEF Operations
  <2>4. r.seen = o.seen /\ r.since = o.since
    BY ZenonT(60), <2>1 DEF Operations
  <2>5. op' = [op EXCEPT ![th] = r]
    BY ZenonT(60), <1>4
  <2> HIDE DEF r
  <2>6. OperationOK(r) /\ Looked(r) /\ Guarded(r)
    BY Zenon, <1>1, <2>3, <2>4 DEF OperationOK, Looked, Guarded, ConnPcs, FlightPcs, EndPcs, Unset
  <2>7. QuietMove(op[th], r)
    BY ZenonT(60), <1>1, <2>3 DEF QuietMove, PlaceKept, Holds, ConnPcs, FlightPcs, EndPcs, Unconnected
  <2>8. transition' = th /\ transition' \in Threads \cup {0}
    BY ZenonT(60), <1>1, <1>4
  <2> QED
    BY Zenon, <1>2, <2>2, <2>5, <2>6, <2>7, <2>8, QuietStep
<1>5. CASE srv[s].up /\ srv[s].writable /\ ~same
  BY ZenonT(60), <1>4, <1>5 DEF ProbeActive
<1>6. CASE ~(srv[s].up /\ srv[s].writable)
  BY ZenonT(60), <1>4, <1>6 DEF ProbeActive
<1> QED
  BY ZenonT(60), <1>3, <1>5, <1>6

LEMMA ScanRecord ==
    ASSUME NEW o \in Operations, NEW seen \in Nat, NEW since \in Nat,
           NEW found \in Seq(Candidates), NEW p \in Pcs
    PROVE  [o EXCEPT !.seen = seen, !.since = since, !.found = found, !.pc = p] \in Operations
BY ZenonT(60) DEF Operations

LEMMA ScanTargetOK ==
    ASSUME ConnConstants, IInv, NEW th \in Threads, ScanTarget(th)
    PROVE  IInv'
<1>1. /\ op[th].pc = "scan" /\ op[th] \in Operations /\ OperationOK(op[th])
      /\ transition = th /\ (plan.guard => Guarded(op[th])) /\ Looked(op[th])
  BY ZenonT(60), MoverFacts DEF ScanTarget, At, Critical
<1>2. /\ MountStep /\ UNCHANGED <<pool, gates>> /\ started' \in Nat /\ tgt' = tgt
      /\ tgt' \in TargetStates /\ faults \in Nat /\ TargetKept
      /\ transition' = transition /\ transition' = th /\ transition' \in Threads \cup {0}
      /\ Len(plan.route) \in Nat /\ Targets = 1..Len(plan.route)
  BY ZenonT(60), <1>1, TargetFacts, PlanFacts DEF ScanTarget, MountStep, IInv
<1> PICK o : o = op[th]
  OBVIOUS
<1>3. /\ o \in Operations /\ o.seen \in Nat /\ o.since \in Nat /\ o.found \in Seq(Candidates)
      /\ o.seen < Len(plan.route) /\ o.since <= faults
  BY ZenonT(60), <1>1 DEF Operations, OperationOK
<1> PICK t : t = o.seen + 1
  OBVIOUS
<1>4. t \in Targets /\ t \in Nat \ {0} /\ t <= Len(plan.route)
  BY SMTT(60), <1>2, <1>3
<1> PICK e : e = [t |-> t, conn |-> Connection(t)]
  BY ZenonT(60)
<1>5. e \in Candidates /\ e.conn.server = plan.route[t]
  BY Zenon, <1>4, ConnectionFacts DEF IInv, Candidates
<1> PICK seen : seen = IF t = Len(plan.route) THEN 0 ELSE t
  BY ZenonT(60)
<1> PICK since : since = IF t = 1 THEN faults ELSE o.since
  BY ZenonT(60)
<1> PICK found : found = IF Writable(plan.route[t]) THEN Append(o.found, e) ELSE o.found
  BY Zenon
<1> PICK p : p = IF t = Len(plan.route) THEN "decide" ELSE "scan"
  OBVIOUS
<1>6. /\ seen \in Nat /\ since \in Nat /\ since <= faults /\ found \in Seq(Candidates)
      /\ p \in {"scan", "decide"} /\ p \in Pcs
      /\ p # "scan" => seen = 0 /\ t = Len(plan.route)
      /\ p = "scan" => seen = t /\ seen < Len(plan.route)
      /\ t # 1 => since = o.since
  <2>1. p \in {"scan", "decide"} /\ p \in Pcs
    BY ZenonT(60), <1>1 DEF Pcs, Unconnected
  <2>2. found \in Seq(Candidates)
    BY SMTT(60), <1>3, <1>5
  <2> QED
    BY SMTT(60), <1>1, <1>2, <1>3, <1>4, <2>1, <2>2
<1> DEFINE r == [o EXCEPT !.seen = seen, !.since = since, !.found = found, !.pc = p]
<1>7. op' = [op EXCEPT ![th] = r]
  BY ZenonT(60) DEF ScanTarget, Writable
<1>8. r \in Operations
  <2>1. o \in Operations /\ seen \in Nat /\ since \in Nat /\ found \in Seq(Candidates) /\ p \in Pcs
    BY ZenonT(60), <1>3, <1>6
  <2> QED
    BY ONLY <2>1, ScanRecord, ZenonT(30)
<1>9. r.seen = seen /\ r.since = since
  BY ZenonT(60), <1>3 DEF Operations
<1>10. r.found = found /\ r.pc = p
  BY ZenonT(60), <1>3 DEF Operations
<1> HIDE DEF r
<1>11. OperationOK(r)
  BY ZenonT(60), <1>1, <1>6, <1>9, <1>10 DEF OperationOK, ConnPcs, FlightPcs, EndPcs
<1>12. plan.guard => Guarded(r)
  BY ZenonT(60), <1>1, <1>6, <1>10 DEF Guarded, ConnPcs, FlightPcs
<1>13. QuietMove(op[th], r)
  BY ZenonT(60), <1>1, <1>6, <1>10 DEF QuietMove, PlaceKept, Holds, ConnPcs, FlightPcs, EndPcs, Unconnected
<1>14. Looked(r)
  <2>1. \A i \in 1..Len(o.found) : i \in 1..Len(found) /\ found[i] = o.found[i]
    BY SMTT(60), <1>3, <1>5
  <2>2. ASSUME since = faults, NEW u \in Targets, Writable(plan.route[u]), u <= t
        PROVE  \E i \in 1..Len(found) : found[i].conn.server = plan.route[u]
    <3>1. CASE u = t
      <4>1. found = Append(o.found, e)
        BY ZenonT(60), <2>2, <3>1
      <4>2. Len(found) = Len(o.found) + 1 /\ found[Len(o.found) + 1] = e /\ Len(o.found) \in Nat
        BY SMTT(60), <1>3, <1>5, <4>1
      <4>3. Len(found) \in 1..Len(found) /\ found[Len(found)] = e
        BY SMTT(60), <4>2
      <4> QED
        BY ZenonT(60), <1>5, <3>1, <4>3
    <3>2. CASE u # t
      <4>1. u \in Nat \ {0} /\ u <= o.seen /\ t # 1
        BY SMTT(60), <1>2, <1>3, <1>4, <2>2, <3>2
      <4>2. o.since = faults
        BY ZenonT(60), <1>6, <2>2, <4>1
      <4>3. PICK i \in 1..Len(o.found) : o.found[i].conn.server = plan.route[u]
        BY ZenonT(60), <1>1, <2>2, <4>1, <4>2 DEF Looked
      <4> QED
        BY ZenonT(60), <2>1, <4>3
    <3> QED
      BY ZenonT(60), <3>1, <3>2
  <2>3. \A u \in Targets : (p = "scan" => u <= seen) => u <= t
    BY SMTT(60), <1>2, <1>4, <1>6
  <2> QED
    BY ZenonT(60), <1>6, <1>9, <1>10, <2>2, <2>3 DEF Looked
<1> QED
  BY Zenon, <1>2, <1>7, <1>8, <1>11, <1>12, <1>13, <1>14, QuietStep

\* The candidate that is chosen is one of those found.
LEMMA ChosenFacts ==
    ASSUME NEW found \in Seq(Candidates), found # <<>>
    PROVE  Chosen(found) \in 1..Len(found)
<1> DEFINE fresh == {i \in 1..Len(found) : found[i].t # tgt.failed}
<1>1. Len(found) \in Nat \ {0}
  OBVIOUS
<1>2. CASE fresh = {}
  BY <1>1, <1>2 DEF Chosen
<1>3. CASE fresh # {}
  <2>1. fresh \subseteq Nat
    OBVIOUS
  <2> HIDE DEF fresh
  <2>2. \E i \in fresh : \A j \in fresh : i <= j
    BY ZenonT(60), <1>3, <2>1, LeastNumber
  <2>3. (CHOOSE i \in fresh : \A j \in fresh : i <= j) \in fresh
    BY ZenonT(60), <2>2
  <2> QED
    BY ZenonT(60), <1>3, <2>3 DEF Chosen, fresh
<1> QED
  BY ZenonT(60), <1>2, <1>3

LEMMA DecideOK ==
    ASSUME ConnConstants, IInv, NEW th \in Threads, Decide(th)
    PROVE  IInv'
<1>1. /\ op[th].pc = "decide" /\ op[th] \in Operations /\ OperationOK(op[th])
      /\ transition = th /\ (plan.guard => Guarded(op[th])) /\ Looked(op[th])
  BY ZenonT(60), MoverFacts DEF Decide, At, Critical
<1>2. /\ MountStep /\ UNCHANGED <<pool, gates>> /\ started' \in Nat
      /\ tgt \in TargetStates /\ faults \in Nat /\ transition \in {0, th}
      /\ transition \in Threads \cup {0} /\ tgt.revalidate \in BOOLEAN
  BY ZenonT(60), <1>1, TargetFacts DEF Decide, MountStep, IInv
<1> PICK o : o = op[th]
  OBVIOUS
<1>3. o \in Operations /\ o.found \in Seq(Candidates)
  BY ZenonT(60), <1>1 DEF Operations
<1>4. CASE ~Safe(o.found)
  <2> DEFINE r == [o EXCEPT !.pc = "unconnected", !.found = <<>>, !.since = 0]
  <2>1. /\ tgt' = [tgt EXCEPT !.revalidate = TRUE] /\ transition' = 0
        /\ op' = [op EXCEPT ![th] = r]
    BY ZenonT(60), <1>4 DEF Decide
  <2>2. "unconnected" \in Pcs /\ <<>> \in Seq(Candidates)
    BY DEF Pcs, Unconnected
  <2>3. r \in Operations
    BY Zenon, <1>3, <2>2 DEF Operations
  <2>4. r.pc = "unconnected"
    BY ZenonT(60), <1>3 DEF Operations
  <2>5. r.seen = o.seen /\ r.since = 0
    BY ZenonT(60), <1>3 DEF Operations
  <2> HIDE DEF r
  <2>6. OperationOK(r) /\ Looked(r) /\ Guarded(r)
    BY SMTT(60), <1>1, <1>2, <2>4, <2>5 DEF OperationOK, Looked, Guarded, ConnPcs, FlightPcs, EndPcs
  <2>7. QuietMove(op[th], r) /\ r.pc \notin Critical
    BY ZenonT(60), <1>1, <2>4
       DEF QuietMove, PlaceKept, Holds, Critical, ConnPcs, FlightPcs, EndPcs, Unconnected
  <2>8. /\ tgt' \in TargetStates /\ tgt'.gen = tgt.gen /\ tgt'.cluster = tgt.cluster
        /\ tgt'.print = tgt.print /\ tgt'.inflight = tgt.inflight /\ tgt'.revalidate
    BY ZenonT(60), <1>2, <2>1 DEF TargetStates
  <2>9. plan.guard => Vacant' = Vacant
    BY Zenon, <1>1, <2>8 DEF Guarded, Vacant
  <2>10. TargetKept /\ transition' \in Threads \cup {0}
    BY ZenonT(60), <2>1, <2>8, <2>9 DEF TargetKept, PrimaryKept
  <2> QED
    BY Zenon, <1>2, <2>1, <2>3, <2>6, <2>7, <2>8, <2>10, QuietStep
<1>5. CASE Safe(o.found)
  <2> PICK k : k = Chosen(o.found)
    OBVIOUS
  <2> PICK c : c = o.found[k]
    BY ZenonT(60)
  <2>1. k \in 1..Len(o.found) /\ c \in Candidates
    BY SMTT(60), <1>3, <1>5, ChosenFacts DEF Safe
  <2> DEFINE r == [o EXCEPT !.pc = "install", !.found = <<c>>]
  <2>2. /\ tgt' = [tgt EXCEPT !.pending = c.t # tgt.active /\ ~tgt.revalidate]
        /\ op' = [op EXCEPT ![th] = r] /\ transition' = transition
    BY ZenonT(60), <1>5 DEF Decide
  <2>3. "install" \in Pcs /\ <<c>> \in Seq(Candidates)
    BY <2>1 DEF Pcs, Unconnected
  <2>4. r \in Operations
    BY ZenonT(60), <1>3, <2>3 DEF Operations
  <2>5. r.pc = "install" /\ r.found = <<c>>
    BY ZenonT(60), <1>3 DEF Operations
  <2>6. r.seen = o.seen /\ r.since = o.since
    BY ZenonT(60), <1>3 DEF Operations
  <2> HIDE DEF r
  <2>7. OperationOK(r)
    BY ZenonT(60), <1>1, <2>5, <2>6 DEF OperationOK, ConnPcs, FlightPcs, EndPcs
  <2>8. plan.guard => Guarded(r)
    BY ZenonT(60), <1>1, <2>5 DEF Guarded, ConnPcs, FlightPcs
  <2>9. QuietMove(op[th], r)
    BY ZenonT(60), <1>1, <2>5 DEF QuietMove, PlaceKept, Holds, ConnPcs, FlightPcs, EndPcs, Unconnected
  <2>10. Looked(r)
    <3>1. r.found # <<>> /\ r.found[1] = c
      BY SMTT(60), <2>5
    <3>2. tgt.cluster # 0 => c.conn.cluster = tgt.cluster
      BY ZenonT(60), <1>5, <2>1 DEF Safe
    <3>3. ASSUME r.since = faults, NEW s \in Servers, Writable(s)
          PROVE  s = c.conn.server
      <4>1. PICK t \in Targets : s = plan.route[t]
        BY ZenonT(60), <3>3 DEF Servers
      <4>2. PICK i \in 1..Len(o.found) : o.found[i].conn.server = plan.route[t]
        BY ZenonT(60), <1>1, <2>6, <3>3, <4>1 DEF Looked
      <4> QED
        BY ZenonT(60), <1>5, <2>1, <4>1, <4>2 DEF Safe
    <3> QED
      BY ZenonT(60), <2>5, <3>1, <3>2, <3>3 DEF Looked
  <2>11. /\ tgt' \in TargetStates /\ TargetKept
    BY Zenon, <1>2, <2>2 DEF TargetStates, TargetKept, PrimaryKept, Vacant
  <2>12. transition' = th /\ transition' \in Threads \cup {0}
    BY ZenonT(60), <1>1, <2>2
  <2> QED
    BY ZenonT(60), <1>2, <2>2, <2>4, <2>7, <2>8, <2>9, <2>10, <2>11, <2>12, QuietStep
<1> QED
  BY ZenonT(60), <1>4, <1>5

\* A new primary takes effect.  No generation is in force, so that no connection is
\* of it and nothing is in flight, and the mutex keeps the others from looking.
LEMMA InstallOK ==
    ASSUME ConnConstants, IInv, NEW th \in Threads, Install(th)
    PROVE  IInv'
<1>1. /\ op[th].pc = "install" /\ op[th] \in Operations /\ OperationOK(op[th])
      /\ transition = th /\ (plan.guard => Guarded(op[th])) /\ Looked(op[th])
  BY ZenonT(60), MoverFacts DEF Install, At, Critical
<1>2. /\ MountStep /\ UNCHANGED <<pool, gates>> /\ started' \in Nat
      /\ tgt \in TargetStates /\ tgt.gen \in Nat /\ transition \in {0, th}
  BY ZenonT(60), <1>1, TargetFacts DEF Install, MountStep, IInv
<1> PICK c : c = op[th].found[1]
  BY ZenonT(60)
<1>3. /\ c \in Candidates /\ c.t \in Targets /\ c.conn \in Conns /\ c.conn.cluster \in 1..2
      /\ <<c.conn.server, c.conn.start>> \in Servers \X Nat
  <2>1. op[th].found \in Seq(Candidates) /\ op[th].found # <<>>
    BY ZenonT(60), <1>1 DEF Operations, Looked
  <2>2. c \in Candidates
    BY SMTT(60), <2>1
  <2> QED
    BY ZenonT(60), <2>2 DEF Candidates, Conns
<1> PICK g : g = tgt.gen + (IF c.t # tgt.active /\ ~tgt.revalidate THEN 1 ELSE 0)
  BY ZenonT(60)
<1>4. g \in Nat /\ g >= tgt.gen
  BY SMTT(60), <1>2
<1> PICK print : print = <<c.conn.server, c.conn.start>>
  BY Zenon
<1> PICK d : d = [c.conn EXCEPT !.gen = g]
  BY Zenon
<1>5. /\ d \in Conns /\ d.gen = g /\ d.cluster = c.conn.cluster
      /\ <<d.server, d.start>> = print
  BY ZenonT(60), <1>3, <1>4 DEF Conns
<1>6. /\ tgt' = [tgt EXCEPT !.active = c.t, !.gen = g, !.cluster = c.conn.cluster,
                            !.print = print, !.revalidate = FALSE,
                            !.failed = 0, !.pending = FALSE]
      /\ Connected(th, d)
  BY ZenonT(60) DEF Install
<1>7. tgt' \in TargetStates
  <2>1. print \in Servers \X Nat \cup {<<>>} /\ c.conn.cluster \in 0..2
    BY <1>3
  <2> QED
    BY ZenonT(60), <1>2, <1>3, <1>4, <1>6, <2>1 DEF TargetStates
<1>8. tgt'.gen = g /\ tgt'.cluster = c.conn.cluster
  BY ZenonT(60), <1>2, <1>6 DEF TargetStates
<1>9. tgt'.print = print /\ tgt'.revalidate = FALSE
  BY ZenonT(60), <1>2, <1>6 DEF TargetStates
<1>10. tgt'.inflight = tgt.inflight
  BY ZenonT(60), <1>2, <1>6 DEF TargetStates
<1>11. /\ transition' = 0
       /\ \E r \in Operations :
            /\ op' = [op EXCEPT ![th] = r] /\ r.pc = "begin" /\ r.conn = d
            /\ OperationOK(r) /\ Looked(r) /\ QuietMove(op[th], r) /\ r.pc \notin Critical
  BY SMTT(60), <1>1, <1>5, <1>6, ConnectedFacts
<1>12. PICK r \in Operations :
            /\ op' = [op EXCEPT ![th] = r] /\ r.pc = "begin" /\ r.conn = d
            /\ OperationOK(r) /\ Looked(r) /\ QuietMove(op[th], r) /\ r.pc \notin Critical
  BY Zenon, <1>11
<1>13. op'[th] = r /\ \A x \in Threads \ {th} : op'[x] = op[x] /\ op[x].pc \notin Critical
  <2>1. op'[th] = r /\ \A x \in Threads \ {th} : op'[x] = op[x]
    BY ZenonT(60), <1>12, OneMoves DEF IInv
  <2> QED
    BY ZenonT(60), <1>1, <2>1 DEF IInv, Mutex
<1>14. ScanInv'
  <2> SUFFICES ASSUME NEW x \in Threads PROVE Looked(op[x])'
    BY ZenonT(60) DEF ScanInv
  <2>1. op'[x].pc \notin {"scan", "decide", "install"}
    BY ZenonT(60), <1>12, <1>13 DEF Critical
  <2> QED
    BY ZenonT(60), <2>1 DEF Looked
<1>15. GuardInv'
  <2>1. CASE ~plan.guard
    BY ZenonT(60), <1>2, <1>10, <2>1 DEF IInv, GuardInv, MountStep
  <2>2. CASE plan.guard
    <3>1. Vacant
      BY ZenonT(60), <1>1, <2>2 DEF Guarded
    <3>2. ASSUME NEW e \in Conns, Current(e)
          PROVE  e.gen # tgt.gen /\ e.gen <= tgt'.gen /\ e.gen # tgt'.gen
      BY SMTT(60), <1>2, <1>4, <1>8, <3>1, <3>2 DEF Current, Conns
    <3>3. Current(d)'
      <4>1. ~Vacant'
        BY SMTT(60), <1>3, <1>8, <1>9 DEF Vacant
      <4> QED
        BY SMTT(60), <1>4, <1>5, <1>8, <1>9, <4>1 DEF Current
    <3>4. ASSUME NEW lane \in Lanes, NEW i \in 1..Len(pool'.cached[lane])
          PROVE  Current(pool.cached[lane][i])'
      <4>1. pool' = pool /\ pool.cached[lane][i] \in Conns
        BY SMTT(60), <1>2, <3>4 DEF IInv, ConnTypes
      <4>2. Current(pool.cached[lane][i])
        BY ZenonT(60), <2>2, <3>4, <4>1 DEF IInv, GuardInv
      <4> QED
        BY ZenonT(60), <3>2, <4>1, <4>2 DEF Current
    <3>5. ASSUME NEW x \in Threads, x # th, op[x].pc \in ConnPcs
          PROVE  op[x].pc \notin FlightPcs /\ Current(op[x].conn)'
      <4>1. op[x] # Idle
        BY <3>5 DEF Idle, ConnPcs, FlightPcs
      <4>2. Guarded(op[x]) /\ OperationOK(op[x])
        BY ZenonT(60), <2>2, <4>1 DEF IInv, GuardInv, ConnTypes
      <4>3. op[x].conn \in Conns /\ Current(op[x].conn)
        BY ZenonT(60), <3>5, <4>2 DEF OperationOK, Guarded
      <4>4. op[x].pc \notin FlightPcs
        BY ZenonT(60), <3>2, <4>2, <4>3 DEF Guarded
      <4>5. op'[x] = op[x]
        BY ZenonT(60), <1>13, <3>5
      <4> QED
        BY ZenonT(60), <3>2, <4>3, <4>4, <4>5 DEF Current
    <3>6. ASSUME NEW x \in Threads, op'[x] # Idle PROVE Guarded(op[x])'
      <4>1. CASE x = th
        BY ZenonT(60), <1>12, <1>13, <3>3, <4>1 DEF Guarded, ConnPcs, FlightPcs
      <4>2. CASE x # th
        <5>1. op'[x] = op[x] /\ op[x].pc \notin Critical
          BY ZenonT(60), <1>13, <4>2
        <5>2. op[x].pc \in FlightPcs => op[x].pc \in ConnPcs
          BY ZenonT(60) DEF ConnPcs
        <5> QED
          BY ZenonT(60), <3>5, <4>2, <5>1, <5>2 DEF Guarded, Critical, EndPcs
      <4> QED
        BY ZenonT(60), <4>1, <4>2
    <3>7. Flying = {} /\ Flying' = {}
      BY ZenonT(60), <1>1, <1>12, <1>13, <3>5 DEF Flying, ConnPcs, FlightPcs
    <3>8. tgt'.inflight = Cardinality(Flying')
      BY ZenonT(60), <1>10, <2>2, <3>7 DEF IInv, GuardInv
    <3> QED
      BY ZenonT(60), <1>2, <2>2, <3>4, <3>6, <3>8 DEF GuardInv, MountStep
  <2> QED
    BY ZenonT(60), <2>1, <2>2
<1>16. PlaceKept(op[th], r) /\ transition' \in Threads \cup {0}
  BY ZenonT(60), <1>11, <1>12 DEF QuietMove
<1> QED
  BY ZenonT(60), <1>2, <1>7, <1>12, <1>14, <1>15, <1>16, PlacedStep

-----------------------------------------------------------------------------
(* The pool. *)

\* A step that changes the pool, and the places of the threads that goes with it.
LEMMA PoolStep ==
    ASSUME ConnConstants, IInv, MountStep, NEW th \in Threads, NEW r,
           UNCHANGED <<tgt, transition, gates, started>>,
           op'[th] = r, op' = [x \in Threads |-> op'[x]],
           \A x \in Threads \ {th} : Woken(x),
           \A x \in Threads \ {th} : op[x].pc = "queued" => op'[x] = op[x],
           r = Idle \/ OperationInv(r),
           r.pc \notin Critical, r.pc \in FlightPcs <=> op[th].pc \in FlightPcs,
           op[th].pc \notin {"queued", "body", "leave"}, r.pc \notin {"queued", "body", "leave"},
           pool' \in [cached : [Lanes -> Seq(Conns)], live : Int],
           \A lane \in Lanes : \A i \in 1..Len(pool'.cached[lane]) :
               plan.guard => Current(pool'.cached[lane][i]),
           PoolInv'
    PROVE  IInv'
<1> USE DEF IInv
<1>1. /\ tgt' \in TargetStates /\ started' \in Nat /\ transition' \in Threads \cup {0}
      /\ transition' = transition /\ TargetKept
      /\ gates' \in [Lanes -> [active : Int, waiters : Seq(Threads)]]
  BY ZenonT(60), TargetFacts DEF ConnTypes
<1>2. ConnTypes'
  <2>1. op'[th] = Idle \/ (op'[th] \in Operations /\ OperationOK(op'[th]))
    BY ZenonT(60) DEF OperationInv
  <2> QED
    BY ZenonT(60), <1>1, <2>1, TypesStep
<1>3. Mutex'
  BY ZenonT(60), <1>1, MutexStep
<1>4. GuardInv'
  <2>1. PrimaryKept /\ tgt'.inflight = tgt.inflight
    BY ZenonT(60) DEF PrimaryKept, Vacant
  <2>2. plan.guard /\ op'[th] # Idle => Guarded(op'[th])
    BY ZenonT(60) DEF OperationInv
  <2>3. op'[th].pc \in FlightPcs <=> op[th].pc \in FlightPcs
    OBVIOUS
  <2> QED
    BY ZenonT(60), <2>1, <2>2, <2>3, GuardStep
<1>5. ScanInv'
  <2>1. op'[th] # Idle => Looked(op'[th])
    BY ZenonT(60) DEF OperationInv
  <2>2. tgt'.cluster = tgt.cluster
    OBVIOUS
  <2> QED
    BY ZenonT(60), <2>1, <2>2, ScanStep
<1>6. GateInv'
  <2>1. \A lane \in Lanes : th \notin Inside(lane)' /\ th \notin Inside(lane)
    BY ZenonT(60) DEF Inside
  <2> QED
    BY ZenonT(60), <2>1, GateKept
<1> QED
  BY ZenonT(60), <1>2, <1>3, <1>4, <1>5, <1>6

\* A thread gives up its slot and notifies.
LEMMA ReleaseStep ==
    ASSUME ConnConstants, IInv, MountStep, NEW th \in Threads, NEW r,
           UNCHANGED <<tgt, transition, gates, started>>,
           op' \in NotifyOne([op EXCEPT ![th] = r]),
           op[th].pc \in {"unconnected", "stale", "return", "failed"},
           r = Idle \/ OperationInv(r), r.pc \in {"idle", "generation", "ended"},
           r.pc \in FlightPcs <=> op[th].pc \in FlightPcs,
           pool' \in [cached : [Lanes -> Seq(Conns)], live : Int],
           \A lane \in Lanes : \A i \in 1..Len(pool'.cached[lane]) :
               plan.guard => Current(pool'.cached[lane][i]),
           pool'.live - Cached' = pool.live - Cached - 1, pool'.live <= pool.live,
           pool'.live \in Int, pool.live \in Int, Cached \in Int, Cached' \in Int
    PROVE  IInv'
<1>1. r \in Operations \cup {Idle}
  BY ZenonT(60) DEF OperationInv
<1>2. op[th].pc # "waiting" /\ r.pc # "waiting" /\ r.pc \notin {"waiting", "acquire"}
  OBVIOUS
<1>3. Holds(op[th]) /\ ~Holds(r) /\ r.pc \notin Critical
  BY ZenonT(60) DEF Holds, Critical, ConnPcs, FlightPcs, EndPcs, Unconnected
<1>4. /\ op'[th] = r /\ op' = [x \in Threads |-> op'[x]]
      /\ \A x \in Threads \ {th} : Woken(x)
      /\ \A x \in Threads \ {th} : op[x].pc = "queued" => op'[x] = op[x]
  BY ZenonT(60), <1>1, <1>2, Notified DEF IInv
<1>5. PoolInv'
  BY ZenonT(60), <1>1, <1>2, <1>3, PoolReleased DEF IInv
<1>6. op[th].pc \notin {"queued", "body", "leave"} /\ r.pc \notin {"queued", "body", "leave"}
  OBVIOUS
<1> QED
  BY ZenonT(60), <1>3, <1>4, <1>5, <1>6, PoolStep

\* The numbers of the pool.
LEMMA PoolFacts ==
    ASSUME IInv
    PROVE  /\ pool \in [cached : [Lanes -> Seq(Conns)], live : Int]
           /\ pool.live \in Int /\ pool.cached \in [Lanes -> Seq(Conns)]
           /\ Cached \in Nat
           /\ \A lane \in Lanes : \A i \in 1..Len(pool.cached[lane]) :
                 plan.guard => Current(pool.cached[lane][i])
<1>1. pool \in [cached : [Lanes -> Seq(Conns)], live : Int]
  BY ZenonT(60) DEF IInv, ConnTypes
<1>2. Len(pool.cached["write"]) \in Nat /\ Len(pool.cached["control"]) \in Nat
  BY <1>1 DEF Lanes
<1>3. \A lane \in Lanes : \A i \in 1..Len(pool.cached[lane]) :
          plan.guard => Current(pool.cached[lane][i])
  BY ZenonT(60) DEF IInv, GuardInv
<1>4. Cached \in Nat
  <2>1. PICK m \in Nat : m = Len(pool.cached["write"])
    BY ZenonT(60), <1>2
  <2>2. PICK n \in Nat : n = Len(pool.cached["control"])
    BY ZenonT(60), <1>2
  <2>3. Cached = m + n
    BY ZenonT(60), <2>1, <2>2 DEF Cached
  <2> QED
    BY <2>3
<1> QED
  BY ZenonT(60), <1>1, <1>3, <1>4

\* A slot given up without its connection.
LEMMA DropStep ==
    ASSUME ConnConstants, IInv, MountStep, NEW th \in Threads, NEW r,
           UNCHANGED <<tgt, transition, gates, started>>,
           op' \in NotifyOne([op EXCEPT ![th] = r]),
           op[th].pc \in {"unconnected", "stale", "return", "failed"},
           r = Idle \/ OperationInv(r), r.pc \in {"idle", "generation", "ended"},
           r.pc \in FlightPcs <=> op[th].pc \in FlightPcs,
           pool' = [pool EXCEPT !.live = @ - 1]
    PROVE  IInv'
<1>1. /\ pool \in [cached : [Lanes -> Seq(Conns)], live : Int]
      /\ pool.live \in Int /\ Cached \in Int
      /\ \A lane \in Lanes : \A i \in 1..Len(pool.cached[lane]) :
            plan.guard => Current(pool.cached[lane][i])
  BY PoolFacts
<1>2. /\ pool' \in [cached : [Lanes -> Seq(Conns)], live : Int]
      /\ pool'.cached = pool.cached /\ pool'.live = pool.live - 1
  BY <1>1
<1>3. Cached' = Cached
  BY ZenonT(60), <1>2 DEF Cached
<1>4. \A lane \in Lanes : \A i \in 1..Len(pool'.cached[lane]) :
            plan.guard => Current(pool'.cached[lane][i])
  BY ZenonT(60), <1>1, <1>2
<1>5. /\ pool'.live - Cached' = pool.live - Cached - 1 /\ pool'.live <= pool.live
      /\ pool'.live \in Int /\ Cached' \in Int
  BY <1>1, <1>2, <1>3
<1> QED
  BY Zenon, <1>1, <1>2, <1>4, <1>5, ReleaseStep

LEMMA ReleaseUnconnectedSlotOK ==
    ASSUME ConnConstants, IInv, NEW th \in Threads, ReleaseUnconnectedSlot(th)
    PROVE  IInv'
<1>1. /\ MountStep /\ UNCHANGED <<tgt, transition, gates, started>>
      /\ op' \in NotifyOne([op EXCEPT ![th] = Idle]) /\ pool' = [pool EXCEPT !.live = @ - 1]
      /\ op[th].pc = "unconnected"
  BY ZenonT(60) DEF ReleaseUnconnectedSlot, MountStep, At
<1>2. Idle.pc = "idle"
  BY ZenonT(60) DEF Idle
<1>3. Idle.pc \in FlightPcs <=> op[th].pc \in FlightPcs
  BY ZenonT(60), <1>1, <1>2 DEF FlightPcs
<1> QED
  BY ZenonT(60), <1>1, <1>2, <1>3, DropStep

LEMMA ReturnStaleOK ==
    ASSUME ConnConstants, IInv, NEW th \in Threads, ReturnStale(th)
    PROVE  IInv'
<1>1. op[th].pc = "stale" /\ op[th] \in Operations /\ OperationOK(op[th])
  BY ZenonT(60), MoverFacts DEF ReturnStale, At
<1> PICK o : o = op[th]
  OBVIOUS
<1> DEFINE r == [o EXCEPT !.pc = "generation", !.conn = Unset]
<1>2. /\ MountStep /\ UNCHANGED <<tgt, transition, gates, started>>
      /\ op' \in NotifyOne([op EXCEPT ![th] = r]) /\ pool' = [pool EXCEPT !.live = @ - 1]
  BY ZenonT(60) DEF ReturnStale, MountStep
<1>3. o \in Operations /\ "generation" \in Pcs
  BY ZenonT(60), <1>1 DEF Pcs
<1>4. r \in Operations
  BY ZenonT(60), <1>3 DEF Operations
<1>5. r.pc = "generation" /\ r.seen = o.seen /\ r.since = o.since
  BY ZenonT(60), <1>3 DEF Operations
<1> HIDE DEF r
<1>6. OperationInv(r)
  BY Zenon, <1>1, <1>4, <1>5 DEF OperationInv, OperationOK, Guarded, Looked, ConnPcs, FlightPcs, EndPcs
<1>7. r.pc \in FlightPcs <=> op[th].pc \in FlightPcs
  BY ZenonT(60), <1>1, <1>5 DEF FlightPcs
<1> QED
  BY ZenonT(60), <1>1, <1>2, <1>5, <1>6, <1>7, DropStep

\* An operation that has given its connection up or back is still in flight.
LEMMA EndedFacts ==
    ASSUME ConnConstants, IInv, NEW th \in Threads, op[th].pc \in {"return", "failed"}
    PROVE  /\ OperationInv([op[th] EXCEPT !.pc = "ended"])
           /\ [op[th] EXCEPT !.pc = "ended"].pc = "ended"
           /\ op[th].pc \in FlightPcs /\ op[th] \in Operations
           /\ op[th].conn \in Conns /\ (plan.guard => Current(op[th].conn))
<1>1. op[th] \in Operations /\ OperationOK(op[th]) /\ (plan.guard => Guarded(op[th]))
  BY ZenonT(60), MoverFacts
<1>2. PICK r : r = [op[th] EXCEPT !.pc = "ended"]
  BY ZenonT(60)
<1>3. "ended" \in Pcs
  BY ZenonT(60) DEF Pcs, ConnPcs, FlightPcs
<1>4. /\ r \in Operations /\ r.pc = "ended" /\ r.conn = op[th].conn
      /\ r.seen = op[th].seen /\ r.since = op[th].since
  BY <1>1, <1>2, <1>3, PcMoves
<1>5. OperationOK(r) /\ Looked(r)
  BY ZenonT(60), <1>1, <1>4 DEF OperationOK, Looked, ConnPcs, FlightPcs, EndPcs
<1>6. plan.guard => Guarded(r)
  BY ZenonT(60), <1>1, <1>4 DEF Guarded, ConnPcs, FlightPcs
<1>7. op[th].conn \in Conns /\ (plan.guard => Current(op[th].conn)) /\ op[th].pc \in FlightPcs
  BY ZenonT(60), <1>1 DEF OperationOK, Guarded, ConnPcs, FlightPcs
<1> QED
  BY ZenonT(60), <1>1, <1>2, <1>4, <1>5, <1>6, <1>7 DEF OperationInv

LEMMA ReleaseFailedOperationOK ==
    ASSUME ConnConstants, IInv, NEW th \in Threads, ReleaseFailedOperation(th)
    PROVE  IInv'
<1> PICK r : r = [op[th] EXCEPT !.pc = "ended"]
  BY Zenon
<1>1. /\ MountStep /\ UNCHANGED <<tgt, transition, gates, started>>
      /\ op' \in NotifyOne([op EXCEPT ![th] = r]) /\ pool' = [pool EXCEPT !.live = @ - 1]
      /\ op[th].pc = "failed"
  BY ZenonT(60) DEF ReleaseFailedOperation, MountStep, At
<1>2. OperationInv(r) /\ r.pc = "ended" /\ op[th].pc \in FlightPcs
  BY ZenonT(60), <1>1, EndedFacts
<1>3. r.pc \in FlightPcs <=> op[th].pc \in FlightPcs
  BY ZenonT(60), <1>2 DEF FlightPcs
<1> QED
  BY Zenon, <1>1, <1>2, <1>3, DropStep

\* A connection goes back to its lane.
LEMMA ReturnCachedOK ==
    ASSUME ConnConstants, IInv, NEW th \in Threads, ReturnCached(th)
    PROVE  IInv'
<1> PICK r : r = [op[th] EXCEPT !.pc = "ended"]
  BY Zenon
<1> PICK c : c = op[th].conn
  OBVIOUS
<1> PICK lane : lane = op[th].lane
  OBVIOUS
<1>1. /\ MountStep /\ UNCHANGED <<tgt, transition, gates, started>>
      /\ op' \in NotifyOne([op EXCEPT ![th] = r]) /\ op[th].pc = "return"
  BY ZenonT(60) DEF ReturnCached, MountStep, At
<1>2. /\ OperationInv(r) /\ r.pc = "ended" /\ op[th].pc \in FlightPcs
      /\ c \in Conns /\ (plan.guard => Current(c)) /\ op[th] \in Operations
  BY ZenonT(60), <1>1, EndedFacts
<1>3. r.pc \in FlightPcs <=> op[th].pc \in FlightPcs
  BY ZenonT(60), <1>2 DEF FlightPcs
<1>4. CASE c.gen # tgt.gen
  <2>1. pool' = [pool EXCEPT !.live = @ - 1]
    BY ZenonT(60), <1>4 DEF ReturnCached
  <2> QED
    BY Zenon, <1>1, <1>2, <1>3, <2>1, DropStep
<1>5. CASE c.gen = tgt.gen
  <2>1. pool' = [pool EXCEPT !.cached = [pool.cached EXCEPT ![lane] = Append(pool.cached[lane], c)]]
    BY ZenonT(60), <1>5 DEF ReturnCached
  <2>2. /\ pool \in [cached : [Lanes -> Seq(Conns)], live : Int]
        /\ pool.live \in Int /\ pool.cached \in [Lanes -> Seq(Conns)] /\ Cached \in Nat
        /\ \A l \in Lanes : \A i \in 1..Len(pool.cached[l]) :
              plan.guard => Current(pool.cached[l][i])
    BY ZenonT(60), PoolFacts
  <2>3. lane \in Lanes
    BY ZenonT(60), <1>2 DEF Operations
  <2>4. /\ pool'.cached = [pool.cached EXCEPT ![lane] = Append(pool.cached[lane], c)]
        /\ pool'.live = pool.live
    BY ZenonT(60), <2>1, <2>2
  <2>5. Append(pool.cached[lane], c) \in Seq(Conns) /\ Len(pool.cached[lane]) \in Nat
    BY SMTT(60), <1>2, <2>2, <2>3
  <2>6. pool' \in [cached : [Lanes -> Seq(Conns)], live : Int]
    BY Zenon, <2>1, <2>2, <2>3, <2>5
  <2>7. /\ \A l \in Lanes \ {lane} : pool'.cached[l] = pool.cached[l]
        /\ pool'.cached[lane] = Append(pool.cached[lane], c)
    BY ZenonT(60), <2>2, <2>3, <2>4
  <2>8. ASSUME NEW l \in Lanes, NEW i \in 1..Len(pool'.cached[l]), plan.guard
        PROVE  Current(pool'.cached[l][i])
    <3>1. CASE l # lane
      BY ZenonT(60), <2>2, <2>7, <2>8, <3>1
    <3>2. CASE l = lane /\ i \in 1..Len(pool.cached[lane])
      <4>1. pool'.cached[l][i] = pool.cached[lane][i]
        BY SMTT(60), <1>2, <2>2, <2>3, <2>7, <3>2
      <4> QED
        BY ZenonT(60), <2>2, <2>3, <2>8, <3>2, <4>1
    <3>3. CASE l = lane /\ i \notin 1..Len(pool.cached[lane])
      <4>1. Len(pool'.cached[l]) = Len(pool.cached[lane]) + 1
        BY SMTT(60), <1>2, <2>2, <2>3, <2>7, <3>3
      <4>2. i = Len(pool.cached[lane]) + 1
        BY SMTT(60), <2>5, <2>8, <3>3, <4>1
      <4>3. pool'.cached[l][i] = c
        BY SMTT(60), <1>2, <2>2, <2>3, <2>7, <3>3, <4>2
      <4> QED
        BY ZenonT(60), <1>2, <2>8, <4>3
    <3> QED
      BY ZenonT(60), <3>1, <3>2, <3>3
  <2>9. Cached' = Cached + 1
    <3>1. Len(Append(pool.cached[lane], c)) = Len(pool.cached[lane]) + 1
      BY SMTT(60), <1>2, <2>2, <2>3
    <3>2. Len(pool.cached["write"]) \in Nat /\ Len(pool.cached["control"]) \in Nat
      BY <2>2 DEF Lanes
    <3>5. PICK m \in Nat : m = Len(pool.cached["write"])
      BY ZenonT(60), <3>2
    <3>6. PICK n \in Nat : n = Len(pool.cached["control"])
      BY ZenonT(60), <3>2
    <3>7. Cached = m + n /\ Cached' = Len(pool'.cached["write"]) + Len(pool'.cached["control"])
      BY ZenonT(60), <3>5, <3>6 DEF Cached
    <3>3. CASE lane = "write"
      <4>1. Len(pool'.cached["write"]) = m + 1 /\ Len(pool'.cached["control"]) = n
        BY ZenonT(60), <2>7, <3>1, <3>3, <3>5, <3>6 DEF Lanes
      <4> QED
        BY SMTT(60), <3>7, <4>1
    <3>4. CASE lane = "control"
      <4>1. Len(pool'.cached["write"]) = m /\ Len(pool'.cached["control"]) = n + 1
        BY ZenonT(60), <2>7, <3>1, <3>4, <3>5, <3>6 DEF Lanes
      <4> QED
        BY <3>7, <4>1
    <3> QED
      BY ZenonT(60), <2>3, <3>3, <3>4 DEF Lanes
  <2>10. /\ pool'.live - Cached' = pool.live - Cached - 1 /\ pool'.live <= pool.live
         /\ pool'.live \in Int /\ Cached' \in Int /\ Cached \in Int
    BY <2>2, <2>4, <2>9
  <2>11. \A l \in Lanes : \A i \in 1..Len(pool'.cached[l]) :
            plan.guard => Current(pool'.cached[l][i])
    BY ZenonT(60), <2>8
  <2>12. /\ pool.live \in Int
         /\ op[th].pc \in {"unconnected", "stale", "return", "failed"}
         /\ r.pc \in {"idle", "generation", "ended"}
    BY ZenonT(60), <1>1, <1>2, <2>2
  <2> QED
    BY Zenon, <1>1, <1>2, <1>3, <2>6, <2>10, <2>11, <2>12, ReleaseStep
<1> QED
  BY ZenonT(60), <1>4, <1>5

\* take_cached finds a connection of the list or none.
LEMMA TakenFacts ==
    ASSUME NEW list \in Seq(Conns), NEW g
    PROVE  Taken(list, g) \in 0..Len(list)
<1> DEFINE fit == {i \in 1..Len(list) : list[i].gen = g}
           T == {Len(list) - i : i \in fit}
<1>1. Len(list) \in Nat
  OBVIOUS
<1>2. CASE fit = {}
  BY <1>1, <1>2 DEF Taken
<1>3. CASE fit # {}
  <2>1. T \subseteq Nat /\ T # {}
    BY <1>1, <1>3
  <2>2. PICK n \in T : \A k \in T : n <= k
    <3> HIDE DEF T
    <3> QED
      BY ZenonT(60), <2>1, LeastNumber
  <2>3. PICK i \in fit : n = Len(list) - i
    OBVIOUS
  <2>4. ASSUME NEW j \in fit PROVE j <= i
    <3>1. n <= Len(list) - j
      BY ZenonT(60), <2>2
    <3> QED
      BY <1>1, <2>3, <3>1
  <2>5. fit \subseteq 0..Len(list)
    BY <1>1
  <2>6. Taken(list, g) = CHOOSE k \in fit : \A j \in fit : j <= k
    BY Zenon, <1>3 DEF Taken
  <2> HIDE DEF fit
  <2>7. (CHOOSE k \in fit : \A j \in fit : j <= k) \in fit
    BY ZenonT(60), <2>4
  <2> QED
    BY Zenon, <2>5, <2>6, <2>7
<1> QED
  BY ZenonT(60), <1>2, <1>3

\* What is left of a list after take_cached.
LEMMA PrefixFacts ==
    ASSUME NEW list \in Seq(Conns), NEW i \in 1..Len(list)
    PROVE  /\ SubSeq(list, 1, i - 1) \in Seq(Conns) /\ Len(SubSeq(list, 1, i - 1)) = i - 1
           /\ \A k \in 1..(i - 1) : SubSeq(list, 1, i - 1)[k] = list[k] /\ k \in 1..Len(list)
           /\ list[i] \in Conns /\ i \in Nat \ {0} /\ Len(list) \in Nat
<1>1. i \in Nat \ {0} /\ Len(list) \in Nat /\ i <= Len(list)
  OBVIOUS
<1>2. i - 1 \in Nat /\ i - 1 <= Len(list) /\ 1 \in 1..(Len(list) + 1)
  BY <1>1
<1>3. SubSeq(list, 1, i - 1) \in Seq(Conns) /\ Len(SubSeq(list, 1, i - 1)) = i - 1
  BY <1>2
<1>4. \A k \in 1..(i - 1) : SubSeq(list, 1, i - 1)[k] = list[k]
  BY SMTT(60), <1>2
<1>5. \A k \in 1..(i - 1) : k \in 1..Len(list)
  BY SMTT(60), <1>1
<1> QED
  BY <1>1, <1>3, <1>4, <1>5

\* A thread takes a connection or a slot, or begins to wait.
LEMMA AcquireStep ==
    ASSUME ConnConstants, IInv, MountStep, NEW th \in Threads, NEW r,
           UNCHANGED <<tgt, transition, gates, started>>,
           op' = [op EXCEPT ![th] = r], op[th].pc = "acquire",
           OperationInv(r), r.pc \in {"begin", "connect", "waiting"},
           pool' \in [cached : [Lanes -> Seq(Conns)], live : Int],
           \A lane \in Lanes : \A i \in 1..Len(pool'.cached[lane]) :
               plan.guard => Current(pool'.cached[lane][i]),
           pool'.live <= plan.limit,
           \/ r.pc # "waiting" /\ pool'.live = Cardinality(Holders) + 1 + Cached'
           \/ /\ r.pc = "waiting" /\ pool'.live = Cardinality(Holders) + Cached'
              /\ Cardinality(Holders) >= plan.limit
    PROVE  IInv'
<1>1. /\ op'[th] = r /\ op' = [x \in Threads |-> op'[x]]
      /\ \A x \in Threads \ {th} : op'[x] = op[x]
      /\ \A x \in Threads \ {th} : Woken(x)
  BY ZenonT(60), OneMoves DEF IInv
<1>2. /\ r.pc \notin Critical /\ (r.pc \in FlightPcs <=> op[th].pc \in FlightPcs)
      /\ op[th].pc \notin {"queued", "body", "leave"} /\ r.pc \notin {"queued", "body", "leave"}
      /\ (r.pc # "waiting" => Holds(r)) /\ (r.pc = "waiting" => ~Holds(r)) /\ ~Holds(op[th])
  BY ZenonT(60) DEF Critical, Holds, ConnPcs, FlightPcs, EndPcs, Unconnected
<1>3. PoolInv'
  <2>1. CASE r.pc # "waiting"
    <3>1. Holds(op'[th]) /\ pool'.live = Cardinality(Holders) + 1 + Cached'
      BY ZenonT(60), <1>1, <1>2, <2>1
    <3> QED
      BY ZenonT(60), <1>1, <3>1, PoolTaken DEF IInv
  <2>2. CASE r.pc = "waiting"
    <3>1. Holders' = Holders
      BY ZenonT(60), <1>1, <1>2, <2>2 DEF Holders
    <3>2. /\ Cardinality(Holders) \in Nat /\ Cardinality(Acquirers') \in Nat
          /\ plan.limit \in Nat
      BY ZenonT(60), ThreadSets, PlanFacts DEF Holders, Acquirers, IInv
    <3>3. plan' = plan
      BY ZenonT(60) DEF MountStep
    <3> QED
      BY SMTT(60), <2>2, <3>1, <3>2, <3>3 DEF PoolInv
  <2> QED
    BY ZenonT(60), <2>1, <2>2
<1> QED
  BY Zenon, <1>1, <1>2, <1>3, PoolStep

\* What a thread becomes that takes connection c.
LEMMA TakesConnection ==
    ASSUME ConnConstants, IInv, NEW th \in Threads, op[th].pc = "acquire",
           NEW c \in Conns, plan.guard => Current(c),
           NEW r, r = [op[th] EXCEPT !.pc = "begin", !.gen = 0, !.conn = c]
    PROVE  OperationInv(r) /\ r.pc = "begin"
<1>1. op[th] \in Operations /\ OperationOK(op[th])
  BY ZenonT(60), MoverFacts
<1> PICK o : o = op[th]
  OBVIOUS
<1>2. o \in Operations /\ "begin" \in Pcs
  BY ZenonT(60), <1>1 DEF Pcs, ConnPcs
<1>3. r \in Operations
  BY Zenon, <1>2 DEF Operations
<1>4. r.pc = "begin" /\ r.conn = c
  BY ZenonT(60), <1>2 DEF Operations
<1>5. r.seen = o.seen /\ r.since = o.since
  BY ZenonT(60), <1>2 DEF Operations
<1>6. OperationOK(r) /\ Looked(r) /\ (plan.guard => Guarded(r))
  BY ZenonT(60), <1>1, <1>4, <1>5 DEF OperationOK, Looked, Guarded, ConnPcs, FlightPcs, EndPcs
<1> QED
  BY ZenonT(60), <1>3, <1>4, <1>6 DEF OperationInv

\* What a thread becomes that is to connect, or to wait.
LEMMA TakesNone ==
    ASSUME ConnConstants, IInv, NEW th \in Threads, op[th].pc = "acquire",
           NEW r, \/ r = [op[th] EXCEPT !.pc = "connect", !.gen = 0]
                  \/ r = [op[th] EXCEPT !.pc = "waiting"]
    PROVE  OperationInv(r) /\ r.pc \in {"connect", "waiting"}
<1>1. op[th] \in Operations /\ OperationOK(op[th])
  BY ZenonT(60), MoverFacts
<1> PICK o : o = op[th]
  OBVIOUS
<1>2. o \in Operations /\ "connect" \in Pcs /\ "waiting" \in Pcs
  BY ZenonT(60), <1>1 DEF Pcs, Unconnected
<1>3. /\ r \in Operations /\ r.pc \in {"connect", "waiting"}
      /\ r.seen = o.seen /\ r.since = o.since
  <2>1. CASE r = [o EXCEPT !.pc = "connect", !.gen = 0]
    <3>1. r \in Operations
      BY ZenonT(60), <1>2, <2>1 DEF Operations
    <3>2. r.pc = "connect" /\ r.seen = o.seen /\ r.since = o.since
      BY ZenonT(60), <1>2, <2>1 DEF Operations
    <3> QED
      BY ZenonT(60), <3>1, <3>2
  <2>2. CASE r = [o EXCEPT !.pc = "waiting"]
    BY <1>2, <2>2, PcMoves
  <2> QED
    BY ZenonT(60), <2>1, <2>2
<1>4. OperationOK(r) /\ Looked(r) /\ Guarded(r)
  BY ZenonT(60), <1>1, <1>3 DEF OperationOK, Looked, Guarded, ConnPcs, FlightPcs, EndPcs
<1> QED
  BY ZenonT(60), <1>3, <1>4 DEF OperationInv

LEMMA BothLanes ==
    ASSUME NEW q \in [Lanes -> Seq(Conns)], NEW lane \in Lanes
    PROVE  /\ Other(lane) \in Lanes /\ Other(lane) # lane /\ Lanes = {lane, Other(lane)}
           /\ Len(q["write"]) + Len(q["control"]) = Len(q[lane]) + Len(q[Other(lane)])
           /\ Len(q[lane]) \in Nat /\ Len(q[Other(lane)]) \in Nat
<1>1. Len(q["write"]) \in Nat /\ Len(q["control"]) \in Nat
  BY DEF Lanes
<1>2. CASE lane = "write"
  BY ZenonT(60), <1>1, <1>2 DEF Lanes, Other
<1>3. CASE lane = "control"
  BY <1>1, <1>3 DEF Lanes, Other
<1> QED
  BY ZenonT(60), <1>2, <1>3 DEF Lanes

LEMMA TakenCount ==
    ASSUME NEW live \in Int, NEW h \in Nat, NEW la \in Nat, NEW lb \in Nat, NEW lk \in 0..lb,
           NEW i \in Nat \ {0}, i <= la, live = h + (la + lb),
           NEW n, n = live - (la - i) - (lb - lk)
    PROVE  n = h + 1 + ((i - 1) + lk) /\ n <= live
OBVIOUS

\* take_cached has found connection i of lane a; of the other lane b, all or nothing
\* is kept.
LEMMA TakeCached ==
    ASSUME ConnConstants, IInv, MountStep, NEW th \in Threads, op[th].pc = "acquire",
           UNCHANGED <<tgt, transition, gates, started>>,
           NEW a \in Lanes, NEW b \in Lanes, a # b, Lanes = {a, b},
           NEW i \in 1..Len(pool.cached[a]), NEW keep \in {pool.cached[b], <<>>},
           NEW q \in [Lanes -> Seq(Conns)], q[a] = SubSeq(pool.cached[a], 1, i - 1), q[b] = keep,
           NEW n \in Int, pool' = [cached |-> q, live |-> n],
           n = pool.live - (Len(pool.cached[a]) - i) - (Len(pool.cached[b]) - Len(keep)),
           NEW c, c = pool.cached[a][i],
           NEW r, r = [op[th] EXCEPT !.pc = "begin", !.gen = 0, !.conn = c],
           op' = [op EXCEPT ![th] = r]
    PROVE  IInv'
<1>1. /\ pool.live \in Int /\ pool.cached \in [Lanes -> Seq(Conns)]
      /\ \A l \in Lanes : \A k \in 1..Len(pool.cached[l]) :
            plan.guard => Current(pool.cached[l][k])
  BY ZenonT(60), PoolFacts
<1>2. pool.cached[a] \in Seq(Conns) /\ pool.cached[b] \in Seq(Conns)
  BY ZenonT(60), <1>1
<1>3. /\ Len(q[a]) = i - 1 /\ pool.cached[a][i] \in Conns /\ i \in Nat \ {0}
      /\ \A k \in 1..(i - 1) : q[a][k] = pool.cached[a][k] /\ k \in 1..Len(pool.cached[a])
      /\ Len(pool.cached[a]) \in Nat
  BY SMTT(60), <1>2, PrefixFacts
<1>4. Len(pool.cached[b]) \in Nat /\ Len(keep) \in 0..Len(pool.cached[b])
  BY SMTT(60), <1>2
<1>5. pool' \in [cached : [Lanes -> Seq(Conns)], live : Int] /\ pool'.cached = q /\ pool'.live = n
  OBVIOUS
<1>6. b = Other(a)
  BY ZenonT(60) DEF Lanes, Other
<1>7. Cached' = (i - 1) + Len(keep) /\ Cached = Len(pool.cached[a]) + Len(pool.cached[b])
  <2>1. Cached' = Len(q["write"]) + Len(q["control"])
    BY ZenonT(60), <1>5 DEF Cached
  <2>2. Cached' = Len(q[a]) + Len(q[b])
    BY Zenon, <1>6, <2>1, BothLanes
  <2>3. Cached = Len(pool.cached[a]) + Len(pool.cached[b])
    BY Zenon, <1>1, <1>6, BothLanes DEF Cached
  <2> QED
    BY ZenonT(60), <1>3, <2>2, <2>3
<1>8. /\ pool.live = Cardinality(Holders) + Cached /\ pool.live <= plan.limit
      /\ Cardinality(Holders) \in Nat /\ plan.limit \in Nat
  BY ZenonT(60), ThreadSets, PlanFacts DEF Holders, IInv, PoolInv
<1>9. pool'.live = Cardinality(Holders) + 1 + Cached' /\ pool'.live <= plan.limit
  <2>1. PICK h \in Nat : h = Cardinality(Holders)
    BY ZenonT(60), <1>8
  <2>2. PICK la \in Nat : la = Len(pool.cached[a])
    BY Zenon, <1>3
  <2>3. PICK lb \in Nat : lb = Len(pool.cached[b])
    BY ZenonT(60), <1>4
  <2>4. PICK lk \in 0..lb : lk = Len(keep)
    BY ZenonT(60), <1>4, <2>3
  <2>5. /\ n = pool.live - (la - i) - (lb - lk) /\ pool.live = h + (la + lb) /\ i <= la
        /\ Cached' = (i - 1) + lk
    BY SMTT(60), <1>7, <1>8, <2>1, <2>2, <2>3, <2>4
  <2>6. pool.live \in Int /\ i \in Nat \ {0}
    BY ZenonT(60), <1>1, <1>3
  <2>7. n = h + 1 + ((i - 1) + lk) /\ n <= pool.live
    BY ONLY SMTT(60), <2>5, <2>6, TakenCount, h \in Nat, la \in Nat, lb \in Nat, lk \in 0..lb
  <2>8. pool'.live = n /\ pool.live <= plan.limit /\ plan.limit \in Int /\ n \in Int
    BY SMTT(60), <1>5, <1>8
  <2>9. n <= plan.limit
    BY ONLY SMTT(60), <2>6, <2>7, <2>8
  <2>10. Cardinality(Holders) + 1 + Cached' = h + 1 + ((i - 1) + lk)
    BY ZenonT(60), <2>1, <2>5
  <2> QED
    BY ONLY ZenonT(60), <2>7, <2>8, <2>9, <2>10
<1>10. \A l \in Lanes : \A k \in 1..Len(pool'.cached[l]) :
          plan.guard => Current(pool'.cached[l][k])
  <2> SUFFICES ASSUME NEW l \in Lanes, NEW k \in 1..Len(q[l]), plan.guard
               PROVE  Current(q[l][k])
    BY ZenonT(60), <1>5
  <2>1. CASE l = a
    <3>1. k \in 1..(i - 1)
      BY ZenonT(60), <1>3, <2>1
    <3> QED
      BY ZenonT(60), <1>1, <1>3, <2>1, <3>1
  <2>2. CASE l = b
    BY SMTT(60), <1>1, <2>2
  <2> QED
    BY ZenonT(60), <2>1, <2>2
<1>11. c \in Conns /\ (plan.guard => Current(c))
  BY ZenonT(60), <1>1, <1>3
<1>12. OperationInv(r) /\ r.pc = "begin"
  BY <1>11, TakesConnection, ZenonT(30)
<1>13. r.pc \in {"begin", "connect", "waiting"} /\ r.pc # "waiting"
  BY ZenonT(60), <1>12
<1> QED
  BY Zenon, <1>5, <1>9, <1>10, <1>12, <1>13, AcquireStep

\* Nothing is cached: the thread takes a slot, or waits.
LEMMA TakeNone ==
    ASSUME ConnConstants, IInv, MountStep, NEW th \in Threads, op[th].pc = "acquire",
           UNCHANGED <<tgt, transition, gates, started>>,
           NEW n \in Int, pool' = [cached |-> [l \in Lanes |-> <<>>], live |-> n],
           NEW r,
           \/ /\ n = pool.live - Cached + 1 /\ pool.live - Cached < plan.limit
              /\ r = [op[th] EXCEPT !.pc = "connect", !.gen = 0]
           \/ /\ n = pool.live - Cached /\ ~(pool.live - Cached < plan.limit)
              /\ r = [op[th] EXCEPT !.pc = "waiting"],
           op' = [op EXCEPT ![th] = r]
    PROVE  IInv'
<1>1. pool' \in [cached : [Lanes -> Seq(Conns)], live : Int] /\ pool'.live = n
  OBVIOUS
<1>2. \A l \in Lanes : pool'.cached[l] = <<>>
  OBVIOUS
<1>3. \A l \in Lanes : \A k \in 1..Len(pool'.cached[l]) :
          plan.guard => Current(pool'.cached[l][k])
  BY <1>2
<1>4. Cached' = 0
  <2>1. pool'.cached["write"] = <<>> /\ pool'.cached["control"] = <<>>
    BY ZenonT(60), <1>2 DEF Lanes
  <2>2. Cached' = Len(<<>>) + Len(<<>>)
    BY ZenonT(60), <2>1 DEF Cached
  <2> QED
    BY <2>2
<1>5. /\ pool.live = Cardinality(Holders) + Cached /\ pool.live <= plan.limit
      /\ Cardinality(Holders) \in Nat /\ plan.limit \in Nat /\ Cached \in Nat
      /\ pool.live \in Int
  BY ZenonT(60), ThreadSets, PlanFacts, PoolFacts DEF Holders, IInv, PoolInv
<1>6. PICK h \in Nat : h = Cardinality(Holders)
  BY ZenonT(60), <1>5
<1>7. pool.live - Cached = h /\ h <= plan.limit
  BY SMTT(60), <1>5, <1>6
<1>8. OperationInv(r) /\ r.pc \in {"connect", "waiting"}
  BY ZenonT(60), TakesNone
<1>9. op[th] \in Operations
  BY ZenonT(60), MoverFacts
<1>10. CASE r = [op[th] EXCEPT !.pc = "connect", !.gen = 0] /\ n = h + 1 /\ h < plan.limit
  <2>1. r.pc = "connect"
    BY ZenonT(60), <1>9, <1>10 DEF Operations
  <2>2. pool'.live = Cardinality(Holders) + 1 + Cached' /\ pool'.live <= plan.limit
    BY SMTT(60), <1>1, <1>4, <1>5, <1>6, <1>10
  <2>3. r.pc \in {"begin", "connect", "waiting"} /\ r.pc # "waiting"
    BY ZenonT(60), <2>1
  <2> QED
    BY ZenonT(60), <1>1, <1>3, <1>8, <2>2, <2>3, AcquireStep
<1>11. CASE r = [op[th] EXCEPT !.pc = "waiting"] /\ n = h /\ ~(h < plan.limit)
  <2>1. r.pc = "waiting"
    BY ZenonT(60), <1>9, <1>11 DEF Operations
  <2>2. /\ pool'.live = Cardinality(Holders) + Cached' /\ pool'.live <= plan.limit
        /\ Cardinality(Holders) >= plan.limit
    BY SMTT(60), <1>1, <1>4, <1>5, <1>6, <1>7, <1>11
  <2>3. r.pc \in {"begin", "connect", "waiting"}
    BY ZenonT(60), <2>1
  <2> QED
    BY Zenon, <1>1, <1>3, <1>8, <2>1, <2>2, <2>3, AcquireStep
<1> QED
  BY ZenonT(60), <1>7, <1>10, <1>11

LEMMA AcquireOK ==
    ASSUME ConnConstants, IInv, NEW th \in Threads, Acquire(th)
    PROVE  IInv'
<1> DEFINE lane == op[th].lane
           other == Other(lane)
           own == pool.cached[lane]
           oth == pool.cached[other]
           i == Taken(own, op[th].gen)
           j == Taken(oth, op[th].gen)
           afterOwn == pool.live - (Len(own) - i)
           afterBoth == afterOwn - (Len(oth) - j)
           taken(c) == [op[th] EXCEPT !.pc = "begin", !.gen = 0, !.conn = c]
<1>1. /\ MountStep /\ UNCHANGED <<tgt, transition, gates, started>> /\ op[th].pc = "acquire"
  BY ZenonT(60) DEF Acquire, MountStep, At
<1>2. \/ /\ i > 0
         /\ pool' = [cached |-> [pool.cached EXCEPT ![lane] = SubSeq(own, 1, i - 1)],
                     live |-> afterOwn]
         /\ op' = [op EXCEPT ![th] = taken(own[i])]
      \/ /\ i = 0 /\ j > 0
         /\ pool' = [cached |-> [pool.cached EXCEPT ![lane] = <<>>,
                                                    ![other] = SubSeq(oth, 1, j - 1)],
                     live |-> afterBoth]
         /\ op' = [op EXCEPT ![th] = taken(oth[j])]
      \/ /\ i = 0 /\ j = 0 /\ afterBoth < plan.limit
         /\ pool' = [cached |-> [l \in Lanes |-> <<>>], live |-> afterBoth + 1]
         /\ op' = [op EXCEPT ![th] = [op[th] EXCEPT !.pc = "connect", !.gen = 0]]
      \/ /\ i = 0 /\ j = 0 /\ ~(afterBoth < plan.limit)
         /\ pool' = [cached |-> [l \in Lanes |-> <<>>], live |-> afterBoth]
         /\ op' = [op EXCEPT ![th] = [op[th] EXCEPT !.pc = "waiting"]]
  BY ZenonT(60) DEF Acquire, Goto
<1>3. /\ pool.live \in Int /\ pool.cached \in [Lanes -> Seq(Conns)] /\ lane \in Lanes
  BY ZenonT(60), <1>1, PoolFacts, MoverFacts DEF Operations
<1>4. /\ other \in Lanes /\ other # lane /\ Lanes = {lane, other}
      /\ Cached = Len(own) + Len(oth)
  BY Zenon, <1>3, BothLanes DEF Cached
<1>5. own \in Seq(Conns) /\ oth \in Seq(Conns)
  BY ZenonT(60), <1>3, <1>4
<1>6. i \in 0..Len(own) /\ j \in 0..Len(oth)
  BY ZenonT(60), <1>5, TakenFacts
<1> HIDE DEF i, j, lane, other
<1>7. Len(own) \in Nat /\ Len(oth) \in Nat
  BY <1>5
<1>8. afterOwn \in Int /\ afterBoth \in Int
  BY SMTT(60), <1>3, <1>6, <1>7
<1>9. CASE /\ i > 0
           /\ pool' = [cached |-> [pool.cached EXCEPT ![lane] = SubSeq(own, 1, i - 1)],
                       live |-> afterOwn]
           /\ op' = [op EXCEPT ![th] = taken(own[i])]
  <2> DEFINE q == [pool.cached EXCEPT ![lane] = SubSeq(own, 1, i - 1)]
  <2>1. i \in 1..Len(own)
    BY SMTT(60), <1>6, <1>7, <1>9
  <2>2. SubSeq(own, 1, i - 1) \in Seq(Conns)
    BY ZenonT(60), <1>5, <2>1, PrefixFacts
  <2>3. q \in [Lanes -> Seq(Conns)] /\ q[lane] = SubSeq(own, 1, i - 1) /\ q[other] = oth
    BY ZenonT(60), <1>3, <1>4, <2>2
  <2>4. afterOwn = pool.live - (Len(own) - i) - (Len(oth) - Len(oth))
    BY SMTT(60), <1>3, <1>6, <1>7
  <2>5. pool' = [cached |-> q, live |-> afterOwn] /\ op' = [op EXCEPT ![th] = taken(own[i])]
    BY ZenonT(60), <1>9
  <2>6. oth \in {pool.cached[other], <<>>}
    BY ZenonT(60)
  <2> HIDE DEF q, afterOwn
  <2> QED
    BY ZenonT(60), <1>1, <1>3, <1>4, <1>8, <2>1, <2>3, <2>4, <2>5, <2>6, TakeCached
<1>10. CASE /\ i = 0 /\ j > 0
            /\ pool' = [cached |-> [pool.cached EXCEPT ![lane] = <<>>,
                                                       ![other] = SubSeq(oth, 1, j - 1)],
                        live |-> afterBoth]
            /\ op' = [op EXCEPT ![th] = taken(oth[j])]
  <2> DEFINE u == [pool.cached EXCEPT ![lane] = <<>>]
             q == [u EXCEPT ![other] = SubSeq(oth, 1, j - 1)]
  <2>1. j \in 1..Len(oth)
    BY SMTT(60), <1>6, <1>7, <1>10
  <2>2. SubSeq(oth, 1, j - 1) \in Seq(Conns)
    BY ZenonT(60), <1>5, <2>1, PrefixFacts
  <2>3. u \in [Lanes -> Seq(Conns)] /\ u[lane] = <<>>
    BY <1>3
  <2>4. pool' = [cached |-> q, live |-> afterBoth] /\ op' = [op EXCEPT ![th] = taken(oth[j])]
    BY ZenonT(60), <1>10
  <2> HIDE DEF u
  <2>5. q \in [Lanes -> Seq(Conns)] /\ q[other] = SubSeq(oth, 1, j - 1) /\ q[lane] = <<>>
    BY ZenonT(60), <1>3, <1>4, <2>2, <2>3
  <2>6. afterBoth = pool.live - (Len(oth) - j) - (Len(own) - Len(<<>>))
    <3>1. Len(<<>>) = 0
      OBVIOUS
    <3> QED
      BY <1>3, <1>6, <1>7, <1>10, <3>1
  <2>7. <<>> \in {pool.cached[lane], <<>>} /\ Lanes = {other, lane}
    BY ZenonT(60), <1>4
  <2> HIDE DEF q, afterBoth
  <2> QED
    BY ZenonT(60), <1>1, <1>3, <1>4, <1>8, <2>1, <2>4, <2>5, <2>6, <2>7, TakeCached
<1>11. ASSUME i = 0, j = 0
       PROVE  /\ afterBoth = pool.live - Cached /\ afterBoth \in Int /\ afterBoth + 1 \in Int
  <2>1. PICK m \in Nat : m = Len(own)
    BY ZenonT(60), <1>7
  <2>2. PICK n \in Nat : n = Len(oth)
    BY ZenonT(60), <1>7
  <2>3. afterBoth = pool.live - (m - 0) - (n - 0) /\ Cached = m + n
    BY ZenonT(60), <1>4, <1>11, <2>1, <2>2
  <2> QED
    BY SMTT(60), <1>3, <2>3
<1>12. CASE /\ i = 0 /\ j = 0 /\ afterBoth < plan.limit
            /\ pool' = [cached |-> [l \in Lanes |-> <<>>], live |-> afterBoth + 1]
            /\ op' = [op EXCEPT ![th] = [op[th] EXCEPT !.pc = "connect", !.gen = 0]]
  <2> HIDE DEF afterBoth
  <2> QED
    BY ZenonT(60), <1>1, <1>11, <1>12, TakeNone
<1>13. CASE /\ i = 0 /\ j = 0 /\ ~(afterBoth < plan.limit)
            /\ pool' = [cached |-> [l \in Lanes |-> <<>>], live |-> afterBoth]
            /\ op' = [op EXCEPT ![th] = [op[th] EXCEPT !.pc = "waiting"]]
  <2> HIDE DEF afterBoth
  <2> QED
    BY ZenonT(60), <1>1, <1>11, <1>13, TakeNone
<1> QED
  BY ZenonT(60), <1>2, <1>9, <1>10, <1>12, <1>13

-----------------------------------------------------------------------------
(* The gates. *)

\* An operation in flight that goes on, past a gate or not.
LEMMA FlightMove ==
    ASSUME ConnConstants, IInv, NEW th \in Threads, op[th].pc \in {"run", "leave"},
           NEW p \in {"queued", "body", "return", "failed"},
           p = "queued" => op[th].txn /\ plan.gates[op[th].lane] > 0,
           NEW r, r = [op[th] EXCEPT !.pc = p]
    PROVE  /\ OperationInv(r) /\ r \in Operations /\ r.pc = p
           /\ r.lane = op[th].lane /\ r.txn = op[th].txn
           /\ op[th] \in Operations /\ op[th].lane \in Lanes /\ op[th].txn \in BOOLEAN
<1>1. op[th] \in Operations /\ OperationOK(op[th]) /\ (plan.guard => Guarded(op[th]))
  BY ZenonT(60), MoverFacts
<1>2. p \in Pcs
  BY ZenonT(60) DEF Pcs, ConnPcs, FlightPcs
<1>3. /\ r \in Operations /\ r.pc = p /\ r.conn = op[th].conn
      /\ r.seen = op[th].seen /\ r.since = op[th].since
      /\ r.lane = op[th].lane /\ r.txn = op[th].txn
  BY SMTT(60), <1>1, <1>2, PcMoves
<1>4. OperationOK(r) /\ Looked(r)
  BY ZenonT(60), <1>1, <1>3 DEF OperationOK, Looked, ConnPcs, FlightPcs, EndPcs
<1>5. plan.guard => Guarded(r)
  BY ZenonT(60), <1>1, <1>3 DEF Guarded, ConnPcs, FlightPcs
<1>6. op[th].lane \in Lanes /\ op[th].txn \in BOOLEAN
  BY ZenonT(60), <1>1 DEF Operations
<1> QED
  BY ZenonT(60), <1>1, <1>3, <1>4, <1>5, <1>6 DEF OperationInv

\* A step that passes a gate, and the places of the threads that goes with it.
LEMMA GateStep ==
    ASSUME ConnConstants, IInv, MountStep, NEW th \in Threads, NEW r,
           UNCHANGED <<tgt, transition, pool, started>>,
           op'[th] = r, op' = [x \in Threads |-> op'[x]],
           \A x \in Threads \ {th} : Woken(x),
           OperationInv(r), op[th].pc \in {"run", "leave"},
           r.pc \in {"queued", "body", "return", "failed"},
           gates' \in [Lanes -> [active : Int, waiters : Seq(Threads)]],
           GateInv'
    PROVE  IInv'
<1> USE DEF IInv
<1>1. /\ tgt' \in TargetStates /\ started' \in Nat /\ transition' \in Threads \cup {0}
      /\ transition' = transition
      /\ pool' \in [cached : [Lanes -> Seq(Conns)], live : Int]
  BY ZenonT(60), TargetFacts DEF ConnTypes
<1>2. /\ r.pc \notin Critical /\ op'[th].pc # "waiting" /\ op[th].pc # "acquire"
      /\ (Holds(op'[th]) <=> Holds(op[th]))
      /\ (op'[th].pc \in FlightPcs <=> op[th].pc \in FlightPcs)
  BY ZenonT(60) DEF Critical, Holds, ConnPcs, FlightPcs, EndPcs, Unconnected
<1>3. ConnTypes'
  <2>1. op'[th] = Idle \/ (op'[th] \in Operations /\ OperationOK(op'[th]))
    BY ZenonT(60) DEF OperationInv
  <2> QED
    BY ZenonT(60), <1>1, <2>1, TypesStep
<1>4. Mutex'
  BY ZenonT(60), <1>1, <1>2, MutexStep
<1>5. GuardInv'
  <2>1. PrimaryKept /\ tgt'.inflight = tgt.inflight
    BY ZenonT(60) DEF PrimaryKept, Vacant
  <2>2. plan.guard /\ op'[th] # Idle => Guarded(op'[th])
    BY ZenonT(60) DEF OperationInv
  <2>3. \A lane \in Lanes : \A i \in 1..Len(pool'.cached[lane]) :
          plan.guard => Current(pool'.cached[lane][i])
    BY ZenonT(60) DEF GuardInv
  <2> QED
    BY ZenonT(60), <1>2, <2>1, <2>2, <2>3, GuardStep
<1>6. ScanInv'
  <2>1. op'[th] # Idle => Looked(op'[th])
    BY ZenonT(60) DEF OperationInv
  <2>2. tgt'.cluster = tgt.cluster
    OBVIOUS
  <2> QED
    BY ZenonT(60), <2>1, <2>2, ScanStep
<1>7. PoolInv'
  BY ZenonT(60), <1>2, PoolKept
<1> QED
  BY ZenonT(60), <1>3, <1>4, <1>5, <1>6, <1>7

\* Without a limit, or without a transaction, there is no gate.
LEMMA NoGateStep ==
    ASSUME ConnConstants, IInv, MountStep, NEW th \in Threads, NEW r,
           UNCHANGED <<tgt, transition, pool, started>>, UNCHANGED gates,
           op' = [op EXCEPT ![th] = r], op[th].pc \in {"run", "leave"},
           OperationInv(r), r.pc \in {"body", "return", "failed"},
           r.lane = op[th].lane, r.txn = op[th].txn, op[th] \in Operations,
           ~(op[th].txn /\ plan.gates[op[th].lane] > 0)
    PROVE  IInv'
<1>1. /\ op'[th] = r /\ op' = [x \in Threads |-> op'[x]]
      /\ \A x \in Threads \ {th} : op'[x] = op[x]
      /\ \A x \in Threads \ {th} : Woken(x)
  BY ZenonT(60), OneMoves DEF IInv
<1>2. \A lane \in Lanes :
         plan.gates[lane] > 0 => (th \in Inside(lane)' <=> th \in Inside(lane))
  BY ZenonT(60), <1>1 DEF Inside
<1>3. GateInv'
  <2>1. op[th].pc # "queued" /\ op'[th].pc # "queued"
    BY ZenonT(60), <1>1
  <2> QED
    BY ZenonT(60), <1>1, <1>2, <2>1, GateKept DEF IInv
<1>4. gates' \in [Lanes -> [active : Int, waiters : Seq(Threads)]]
  BY ZenonT(60) DEF IInv, ConnTypes
<1>5. r.pc \in {"queued", "body", "return", "failed"}
  OBVIOUS
<1> QED
  BY Zenon, <1>1, <1>3, <1>4, <1>5, GateStep

\* What a gate does when it admits: those of its queue that are no longer in it go in.
Among(x, v) == \E k \in 1..Len(v) : v[k] = x

Admitted(x, lane, v) == op[x].pc = "queued" /\ op[x].lane = lane /\ ~Among(x, v)

OthersAdmitted(th, lane, v) ==
    /\ op' = [x \in Threads |-> op'[x]]
    /\ \A x \in Threads \ {th} :
          op'[x] = IF Admitted(x, lane, v) THEN [op[x] EXCEPT !.pc = "body"] ELSE op[x]

GateRec(n, v) == [active |-> n, waiters |-> v]
Joined(lane, th) == ReserveNextWaiter([gates[lane] EXCEPT !.waiters = Append(@, th)],
                                      plan.gates[lane])
Left(lane) == ReserveNextWaiter([gates[lane] EXCEPT !.active = @ - 1], plan.gates[lane])
Admits(th, r, lane, gate) == Admit(lane, [op EXCEPT ![th] = r], gate)

GateBecomes(lane, n, v) ==
    gates' = [gates EXCEPT ![lane] = [active |-> n, waiters |-> v]]

LEMMA AdmitFacts ==
    ASSUME ConnTypes, NEW th \in Threads, NEW r, NEW lane \in Lanes, NEW n, NEW v,
           Admits(th, r, lane, GateRec(n, v))
    PROVE  /\ GateBecomes(lane, n, v) /\ OthersAdmitted(th, lane, v)
           /\ r.pc = "queued" /\ r.lane = lane /\ ~Among(th, v) => op'[th] = [r EXCEPT !.pc = "body"]
           /\ r.pc # "queued" \/ Among(th, v) => op'[th] = r
<1> DEFINE ops == [op EXCEPT ![th] = r]
<1>1. ops[th] = r /\ \A x \in Threads \ {th} : ops[x] = op[x]
  BY ZenonT(60) DEF ConnTypes
<1>0. PICK gate : gate = GateRec(n, v)
  OBVIOUS
<1> HIDE DEF ops
<1>2. /\ gates' = [gates EXCEPT ![lane] = gate]
      /\ op' = [x \in Threads |->
                 IF ops[x].pc = "queued" /\ ops[x].lane = lane
                    /\ \A k \in 1..Len(gate.waiters) : gate.waiters[k] # x
                 THEN [ops[x] EXCEPT !.pc = "body"] ELSE ops[x]]
  BY <1>0 DEF Admits, Admit, ops
<1>3. op' = [x \in Threads |-> op'[x]]
  BY ZenonT(60), <1>2
<1>4. \A x \in Threads :
         op'[x] = IF ops[x].pc = "queued" /\ ops[x].lane = lane
                     /\ \A k \in 1..Len(gate.waiters) : gate.waiters[k] # x
                  THEN [ops[x] EXCEPT !.pc = "body"] ELSE ops[x]
  BY ZenonT(60), <1>2
<1>5. gate.waiters = v
  BY ZenonT(60), <1>0 DEF GateRec
<1>6. \A x \in Threads :
         op'[x] = IF ops[x].pc = "queued" /\ ops[x].lane = lane /\ ~Among(x, v)
                  THEN [ops[x] EXCEPT !.pc = "body"] ELSE ops[x]
  BY ZenonT(60), <1>4, <1>5 DEF Among
<1>7. \A x \in Threads \ {th} :
         op'[x] = IF Admitted(x, lane, v) THEN [op[x] EXCEPT !.pc = "body"] ELSE op[x]
  BY ZenonT(60), <1>1, <1>6 DEF Admitted
<1>8. op'[th] = IF r.pc = "queued" /\ r.lane = lane /\ ~Among(th, v)
                THEN [r EXCEPT !.pc = "body"] ELSE r
  BY ZenonT(60), <1>1, <1>6
<1>9. GateBecomes(lane, n, v) /\ OthersAdmitted(th, lane, v)
  BY ZenonT(60), <1>0, <1>2, <1>3, <1>7 DEF GateBecomes, OthersAdmitted, GateRec
<1> QED
  BY ZenonT(60), <1>8, <1>9

\* The invariant after a gate was passed, from what is true of the gate.
LEMMA GatePassed ==
    ASSUME ConnConstants, IInv, MountStep, NEW th \in Threads, op[th].pc \in {"run", "leave"},
           UNCHANGED <<tgt, transition, pool, started>>,
           NEW lane \in Lanes, plan.gates[lane] > 0, op[th] \in Operations, op[th].lane = lane,
           NEW n \in Nat, NEW v \in Seq(Threads),
           GateBecomes(lane, n, v), OthersAdmitted(th, lane, v), OperationInv(op'[th]),
           op'[th].pc \in {"queued", "body", "return", "failed"},
           op'[th].lane = lane, op'[th].txn = op[th].txn,
           n = Cardinality(Inside(lane)'), n <= plan.gates[lane],
           v # <<>> => n = plan.gates[lane],
           \A i, j \in 1..Len(v) : v[i] = v[j] => i = j,
           \A x \in Threads : x \in Queued(lane)' <=> Among(x, v)
    PROVE  IInv'
<1>0. PICK gate : gate = [active |-> n, waiters |-> v]
  BY ZenonT(60)
<1>1. \A x \in Threads \ {th} : Woken(x)
  BY ZenonT(60) DEF Woken, Admitted, OthersAdmitted
<1>2. \A x \in Threads \ {th} :
         (op[x].pc = "queued" /\ op[x].lane # lane) \/ op[x].pc = "waiting" => op'[x] = op[x]
  BY ZenonT(60) DEF Admitted, OthersAdmitted
<1>3. /\ gate.active = n /\ gate.waiters = v /\ gates' = [gates EXCEPT ![lane] = gate]
      /\ gate \in [active : Int, waiters : Seq(Threads)]
  BY <1>0 DEF GateBecomes
<1>4. op'[th] \in Operations
  BY ZenonT(60) DEF OperationInv
<1>5. ConnTypes /\ GateInv
  BY ZenonT(60) DEF IInv
<1>6. gates' \in [Lanes -> [active : Int, waiters : Seq(Threads)]]
  BY ZenonT(60), <1>3, <1>5 DEF ConnTypes
<1>7. gates'[lane] = gate /\ \A l \in Lanes \ {lane} : gates'[l] = gates[l]
  BY ZenonT(60), <1>3, <1>5 DEF ConnTypes
<1>8. gates'[lane].active = n /\ gates'[lane].waiters = v /\ plan' = plan
  BY ONLY ZenonT(60), <1>3, <1>7, MountStep DEF MountStep
<1>9. GateOK(lane)'
  BY ONLY ZenonT(60), <1>8, n = Cardinality(Inside(lane)'), n <= plan.gates[lane],
          v # <<>> => n = plan.gates[lane],
          \A i, j \in 1..Len(v) : v[i] = v[j] => i = j,
          \A x \in Threads : x \in Queued(lane)' <=> Among(x, v)
     DEF GateOK, Among, Threads
<1>11. GateInv'
  BY ONLY ZenonT(60), ConnConstants, MountStep, th \in Threads, lane \in Lanes,
          op[th] \in Operations, op[th].lane = lane,
          op'[th].lane = lane, op'[th].txn = op[th].txn,
          <1>1, <1>2, <1>4, <1>5, <1>7, <1>9, GateMoves
<1>12. PICK r : r = op'[th]
  BY Zenon
<1>13. op' = [x \in Threads |-> op'[x]]
  BY ZenonT(60) DEF OthersAdmitted
<1> QED
  BY ONLY ZenonT(60), ConnConstants, IInv, MountStep, th \in Threads, op[th].pc \in {"run", "leave"},
          UNCHANGED <<tgt, transition, pool, started>>, <1>13,
          OperationInv(op'[th]), op'[th].pc \in {"queued", "body", "return", "failed"},
          <1>1, <1>6, <1>11, <1>12, GateStep

\* Nothing is among the members of an empty queue.
LEMMA AmongNone ==
    ASSUME NEW x, NEW v, Len(v) = 0
    PROVE  ~Among(x, v)
BY DEF Among

\* Nobody waits at a gate with an empty queue, so nobody else is let in.
LEMMA NobodyQueued ==
    ASSUME NEW lane, GateOK(lane), gates[lane].waiters = <<>>
    PROVE  \A x \in Threads : ~(op[x].pc = "queued" /\ op[x].lane = lane)
<1> PICK w : w = gates[lane].waiters
  BY Zenon
<1>1. \A x \in Threads : x \in Queued(lane) <=> Among(x, w)
  BY Zenon DEF GateOK, Among
<1>2. Len(w) = 0
  BY ZenonT(60), Len(<<>>) = 0
<1> QED BY Zenon, <1>1, <1>2, AmongNone DEF Queued

LEMMA OthersStay ==
    ASSUME NEW th \in Threads, NEW lane, NEW v, OthersAdmitted(th, lane, v),
           \A x \in Threads : ~(op[x].pc = "queued" /\ op[x].lane = lane)
    PROVE  \A x \in Threads \ {th} : op'[x] = op[x]
BY Zenon DEF Admitted, OthersAdmitted

\* A transaction that comes to a gate with room goes in.
LEMMA GateEntered ==
    ASSUME ConnConstants, IInv, MountStep, NEW th \in Threads, op[th].pc = "run",
           UNCHANGED <<tgt, transition, pool, started>>,
           NEW lane \in Lanes, plan.gates[lane] > 0, op[th] \in Operations, op[th].lane = lane,
           op[th].txn, gates[lane].active < plan.gates[lane],
           NEW n, n = gates[lane].active + 1, NEW v, v = << >>,
           GateBecomes(lane, n, v), OthersAdmitted(th, lane, v),
           OperationInv(op'[th]), op'[th].pc = "body",
           op'[th].lane = lane, op'[th].txn = op[th].txn
    PROVE  IInv'
<1>1. ConnTypes /\ GateInv /\ GateOK(lane)
  BY ZenonT(60) DEF IInv, GateInv
<1>2. /\ gates[lane].active \in Nat /\ plan.gates[lane] \in Nat
      /\ Inside(lane) \subseteq Threads /\ gates[lane].waiters \in Seq(Threads)
  BY ZenonT(60), <1>1, QueueFacts
<1>3. n \in Nat /\ n <= plan.gates[lane] /\ v \in Seq(Threads) /\ Len(v) = 0
  BY SMTT(60), <1>2
<1>4. gates[lane].waiters = <<>>
  BY SMTT(60), <1>1, <1>2 DEF GateOK
<1>5. \A x \in Threads : ~(op[x].pc = "queued" /\ op[x].lane = lane)
  BY Zenon, <1>1, <1>4, NobodyQueued
<1>6. \A x \in Threads \ {th} : op'[x] = op[x]
  BY Zenon, <1>5, OthersStay
<1>7. Inside(lane)' = Inside(lane) \cup {th} /\ th \notin Inside(lane) /\ Queued(lane)' = {}
  <2>1. op'[th].txn
    BY ZenonT(60)
  <2>2. th \notin Inside(lane)
    BY ONLY ZenonT(60), op[th].pc = "run" DEF Inside
  <2>3. Queued(lane)' = {}
    BY ONLY ZenonT(60), op'[th].pc = "body", <1>5, <1>6 DEF Queued
  <2>4. \A x \in Threads : x \in Inside(lane)' <=> x = th \/ x \in Inside(lane)
    BY ONLY ZenonT(60), op'[th].pc = "body", op'[th].lane = lane, th \in Threads, <1>6, <2>1
       DEF Inside
  <2>5. Inside(lane)' \subseteq Threads
    BY ZenonT(60) DEF Inside
  <2> QED
    BY ZenonT(60), <1>2, <2>2, <2>3, <2>4, <2>5
<1>8. n = Cardinality(Inside(lane)')
  <2>1. PICK T : T = Inside(lane)'
    BY Zenon
  <2>2. Cardinality(T) = Cardinality(Inside(lane)) + 1
    BY ZenonT(60), <1>2, <1>7, <2>1, OneMore
  <2> QED
    BY ZenonT(60), <1>1, <2>1, <2>2 DEF GateOK
<1>9. \A x \in Threads : x \in Queued(lane)' <=> Among(x, v)
  BY Zenon, <1>3, <1>7, AmongNone
<1>10. v # <<>> => n = plan.gates[lane]
  OBVIOUS
<1>11. \A i, j \in 1..Len(v) : v[i] = v[j] => i = j
  BY <1>3
<1>12. op[th].pc \in {"run", "leave"} /\ op'[th].pc \in {"queued", "body", "return", "failed"}
  BY ZenonT(60)
<1>13. n \in Nat /\ v \in Seq(Threads) /\ n <= plan.gates[lane]
  BY ZenonT(60), <1>3
<1> QED
  BY ONLY ZenonT(60), ConnConstants, IInv, MountStep, th \in Threads,
          UNCHANGED <<tgt, transition, pool, started>>, lane \in Lanes, plan.gates[lane] > 0,
          op[th] \in Operations, op[th].lane = lane, GateBecomes(lane, n, v),
          OthersAdmitted(th, lane, v), OperationInv(op'[th]), op'[th].lane = lane,
          op'[th].txn = op[th].txn,
          <1>8, <1>9, <1>10, <1>11, <1>12, <1>13, GatePassed

\* A transaction that comes to a full gate waits behind the others.
LEMMA GateQueued ==
    ASSUME ConnConstants, IInv, MountStep, NEW th \in Threads, op[th].pc = "run",
           UNCHANGED <<tgt, transition, pool, started>>,
           NEW lane \in Lanes, plan.gates[lane] > 0, op[th] \in Operations, op[th].lane = lane,
           gates[lane].active = plan.gates[lane],
           NEW n, n = gates[lane].active, NEW v, v = Append(gates[lane].waiters, th),
           GateBecomes(lane, n, v), OthersAdmitted(th, lane, v),
           OperationInv(op'[th]), op'[th].pc = "queued",
           op'[th].lane = lane, op'[th].txn = op[th].txn
    PROVE  IInv'
<1>1. ConnTypes /\ GateInv /\ GateOK(lane)
  BY ZenonT(60) DEF IInv, GateInv
<1>2. PICK w : w = gates[lane].waiters
  BY ZenonT(60)
<1>3. /\ gates[lane].active \in Nat /\ plan.gates[lane] \in Nat
      /\ Inside(lane) \subseteq Threads /\ w \in Seq(Threads)
  BY ZenonT(60), <1>1, <1>2, QueueFacts
<1>4. n \in Nat /\ n <= plan.gates[lane]
  BY SMTT(60), <1>3
<1>5. /\ v \in Seq(Threads) /\ Len(v) = Len(w) + 1 /\ v[Len(w) + 1] = th
      /\ \A i \in 1..Len(w) : v[i] = w[i]
      /\ Len(w) \in Nat
  BY SMTT(60), <1>2, <1>3
<1>6. /\ \A i, j \in 1..Len(w) : w[i] = w[j] => i = j
      /\ \A x \in Threads : x \in Queued(lane) <=> \E i \in 1..Len(w) : w[i] = x
  BY ZenonT(60), <1>1, <1>2 DEF GateOK
<1>7. th \notin Queued(lane)
  BY ZenonT(60) DEF Queued
<1>8. \A x \in Threads : Among(x, v) <=> x = th \/ x \in Queued(lane)
  BY ONLY SMTT(60), <1>5, <1>6, th \in Threads DEF Among
<1>9. \A x \in Threads \ {th} : op'[x] = op[x]
  BY ZenonT(60), <1>8 DEF Admitted, Queued, OthersAdmitted
<1>10. Inside(lane)' = Inside(lane)
  BY ZenonT(60), <1>9 DEF Inside
<1>11. \A x \in Threads : x \in Queued(lane)' <=> Among(x, v)
  <2>1. \A x \in Threads : x \in Queued(lane)' <=> x = th \/ x \in Queued(lane)
    BY ZenonT(60), <1>9 DEF Queued
  <2> QED
    BY ONLY ZenonT(60), <2>1, <1>8
<1>12. \A i, j \in 1..Len(v) : v[i] = v[j] => i = j
  <2>1. \A i \in 1..Len(w) : w[i] # th
    BY ZenonT(60), <1>6, <1>7
  <2> QED
    BY ONLY SMTT(60), <1>5, <1>6, <2>1
<1>13. n = Cardinality(Inside(lane)')
  BY ZenonT(60), <1>1, <1>10 DEF GateOK
<1>14. op[th].pc \in {"run", "leave"} /\ op'[th].pc \in {"queued", "body", "return", "failed"}
  BY ZenonT(60)
<1>15. v # <<>> => n = plan.gates[lane]
  OBVIOUS
<1> QED
  BY ZenonT(60), <1>4, <1>5, <1>11, <1>12, <1>13, <1>14, <1>15, GatePassed

LEMMA GateRecord ==
    ASSUME NEW n, NEW w, NEW x, NEW y
    PROVE  /\ [[active |-> n, waiters |-> w] EXCEPT !.waiters = x] = [active |-> n, waiters |-> x]
           /\ [[active |-> n, waiters |-> w] EXCEPT !.active = y] = [active |-> y, waiters |-> w]
BY SMTT(60)

\* What reserve_next_waiter makes of a gate that has been joined, or left.
LEMMA JoinedGate ==
    ASSUME ConnConstants, IInv, NEW th \in Threads, NEW lane \in Lanes, plan.gates[lane] > 0,
           NEW gate, gate = Joined(lane, th)
    PROVE  \/ /\ gates[lane].active < plan.gates[lane]
              /\ gate = GateRec(gates[lane].active + 1, << >>)
           \/ /\ gates[lane].active = plan.gates[lane]
              /\ gate = GateRec(gates[lane].active, Append(gates[lane].waiters, th))
<1>1. ConnTypes /\ GateInv /\ GateOK(lane)
  BY ZenonT(60) DEF IInv, GateInv
<1>2. PICK w, n : w = gates[lane].waiters /\ n = gates[lane].active
  BY ZenonT(60)
<1>3. /\ w \in Seq(Threads) /\ n \in Nat /\ plan.gates[lane] \in Nat
      /\ gates[lane] = [active |-> n, waiters |-> w]
  BY ZenonT(60), <1>1, <1>2, QueueFacts
<1>4. n <= plan.gates[lane] /\ (w # <<>> => n = plan.gates[lane])
  BY ZenonT(60), <1>1, <1>2 DEF GateOK
<1>5. PICK g : g = [gates[lane] EXCEPT !.waiters = Append(@, th)]
  BY ZenonT(60)
<1>6. g = [active |-> n, waiters |-> Append(w, th)]
  <2>1. g = [gates[lane] EXCEPT !.waiters = Append(w, th)]
    BY ZenonT(60), <1>2, <1>5
  <2>2. g = [[active |-> n, waiters |-> w] EXCEPT !.waiters = Append(w, th)]
    BY <1>3, <2>1, Zenon
  <2> QED
    BY <2>2, GateRecord, Zenon
<1>7. g.active = n /\ g.waiters = Append(w, th)
  BY ONLY ZenonT(60), <1>6
<1>8. gate = IF g.active >= plan.gates[lane] \/ g.waiters = <<>> THEN g
             ELSE [active |-> g.active + 1, waiters |-> Tail(g.waiters)]
  BY ONLY ZenonT(60), <1>5, gate = Joined(lane, th) DEF Joined, ReserveNextWaiter
<1>9. Append(w, th) # <<>>
  BY ONLY SMTT(60), <1>3, th \in Threads
<1>10. CASE n < plan.gates[lane]
  <2>1. w = <<>>
    BY SMTT(60), <1>3, <1>4, <1>10
  <2>2. Tail(Append(w, th)) = << >>
    BY ONLY SMTT(60), <2>1
  <2>3. ~(n >= plan.gates[lane])
    BY ONLY SMTT(60), <1>3, <1>10
  <2>4. gate = [active |-> n + 1, waiters |-> << >>]
    BY ONLY Zenon, <1>7, <1>8, <1>9, <2>2, <2>3
  <2> QED
    BY ZenonT(60), <1>2, <1>10, <2>4 DEF GateRec
<1>11. CASE ~(n < plan.gates[lane])
  <2>1. n = plan.gates[lane] /\ n >= plan.gates[lane]
    BY <1>3, <1>4, <1>11
  <2>2. gate = g
    BY ONLY ZenonT(60), <1>7, <1>8, <2>1
  <2> QED
    BY ONLY ZenonT(60), <1>2, <1>6, <2>1, <2>2 DEF GateRec
<1> QED
  BY ZenonT(60), <1>10, <1>11

LEMMA LeftGate ==
    ASSUME ConnConstants, IInv, NEW th \in Threads, NEW lane \in Lanes, plan.gates[lane] > 0,
           NEW gate, gate = Left(lane)
    PROVE  \/ /\ gates[lane].waiters = << >>
              /\ gate = GateRec(gates[lane].active - 1, << >>)
           \/ /\ gates[lane].waiters # << >>
              /\ gate = GateRec(gates[lane].active, Tail(gates[lane].waiters))
<1>1. ConnTypes /\ GateInv /\ GateOK(lane)
  BY ZenonT(60) DEF IInv, GateInv
<1>2. PICK w, n : w = gates[lane].waiters /\ n = gates[lane].active
  BY ZenonT(60)
<1>3. /\ w \in Seq(Threads) /\ n \in Nat /\ plan.gates[lane] \in Nat
      /\ gates[lane] = [active |-> n, waiters |-> w]
  BY ZenonT(60), <1>1, <1>2, QueueFacts
<1>4. n <= plan.gates[lane]
  BY ZenonT(60), <1>1, <1>2 DEF GateOK
<1>5. PICK g : g = [gates[lane] EXCEPT !.active = @ - 1]
  BY Zenon
<1>6. g = [active |-> n - 1, waiters |-> w]
  <2>1. g = [gates[lane] EXCEPT !.active = n - 1]
    BY ZenonT(60), <1>2, <1>5
  <2>2. g = [[active |-> n, waiters |-> w] EXCEPT !.active = n - 1]
    BY <1>3, <2>1, Zenon
  <2> QED
    BY <2>2, GateRecord, Zenon
<1>7. g.active = n - 1 /\ g.waiters = w
  BY ONLY ZenonT(60), <1>6
<1>8. gate = IF g.active >= plan.gates[lane] \/ g.waiters = <<>> THEN g
             ELSE [active |-> g.active + 1, waiters |-> Tail(g.waiters)]
  BY ONLY ZenonT(60), <1>5, gate = Left(lane) DEF Left, ReserveNextWaiter
<1>9. ~(n - 1 >= plan.gates[lane]) /\ n - 1 + 1 = n
  BY SMTT(60), <1>3, <1>4
<1>10. CASE w = <<>>
  <2>1. gate = g
    BY ONLY ZenonT(60), <1>7, <1>8, <1>10
  <2> QED
    BY ONLY ZenonT(60), <1>2, <1>6, <1>10, <2>1 DEF GateRec
<1>11. CASE w # <<>>
  <2>1. gate = [active |-> n, waiters |-> Tail(w)]
    BY ONLY ZenonT(60), <1>7, <1>8, <1>9, <1>11
  <2> QED
    BY ONLY ZenonT(60), <1>2, <1>11, <2>1 DEF GateRec
<1> QED
  BY ZenonT(60), <1>10, <1>11

\* A permit that nobody waits for.
LEMMA GateVacated ==
    ASSUME ConnConstants, IInv, MountStep, NEW th \in Threads, op[th].pc = "leave",
           UNCHANGED <<tgt, transition, pool, started>>,
           NEW lane \in Lanes, plan.gates[lane] > 0, op[th] \in Operations, op[th].lane = lane,
           op[th].txn, gates[lane].waiters = << >>,
           NEW n, n = gates[lane].active - 1, NEW v, v = << >>,
           GateBecomes(lane, n, v), OthersAdmitted(th, lane, v),
           OperationInv(op'[th]), op'[th].pc \in {"return", "failed"},
           op'[th].lane = lane, op'[th].txn = op[th].txn
    PROVE  IInv'
<1>1. ConnTypes /\ GateInv /\ GateOK(lane)
  BY ZenonT(60) DEF IInv, GateInv
<1>2. /\ gates[lane].active \in Nat /\ plan.gates[lane] \in Nat
      /\ Inside(lane) \subseteq Threads
  BY ZenonT(60), <1>1, QueueFacts
<1>3. v \in Seq(Threads) /\ Len(v) = 0
  OBVIOUS
<1>4. \A x \in Threads : ~(op[x].pc = "queued" /\ op[x].lane = lane)
  BY Zenon, <1>1, NobodyQueued
<1>5. \A x \in Threads \ {th} : op'[x] = op[x]
  BY Zenon, <1>4, OthersStay
<1>6. Inside(lane)' = Inside(lane) \ {th} /\ th \in Inside(lane) /\ Queued(lane)' = {}
  <2>1. th \in Inside(lane)
    BY ZenonT(60) DEF Inside
  <2>2. Queued(lane)' = {}
    BY ZenonT(60), <1>4, <1>5 DEF Queued
  <2>3. \A x \in Threads : x \in Inside(lane)' <=> x # th /\ x \in Inside(lane)
    BY ZenonT(60), <1>5 DEF Inside
  <2>4. Inside(lane)' \subseteq Threads
    BY ZenonT(60) DEF Inside
  <2> QED
    BY ZenonT(60), <1>2, <2>1, <2>2, <2>3, <2>4
<1>7. n = Cardinality(Inside(lane)')
  <2>1. PICK T : T = Inside(lane)'
    BY ZenonT(60)
  <2>2. Cardinality(T) = Cardinality(Inside(lane)) - 1
    BY ZenonT(60), <1>2, <1>6, <2>1, OneLess
  <2> QED
    BY ZenonT(60), <1>1, <2>1, <2>2 DEF GateOK
<1>8. n \in Nat
  <2>1. Inside(lane)' \subseteq Threads
    BY ZenonT(60), <1>2, <1>6
  <2> QED
    BY ZenonT(60), <1>7, <2>1, ThreadSets
<1>9. n <= plan.gates[lane]
  <2>1. gates[lane].active <= plan.gates[lane]
    BY Zenon, <1>1 DEF GateOK
  <2> QED BY ONLY n = gates[lane].active - 1, <1>2, <2>1, SMTT(60)
<1>10. \A x \in Threads : x \in Queued(lane)' <=> Among(x, v)
  BY Zenon, <1>3, <1>6, AmongNone
<1>11. v # <<>> => n = plan.gates[lane]
  OBVIOUS
<1>12. \A i, j \in 1..Len(v) : v[i] = v[j] => i = j
  BY SMTT(60), <1>3
<1>13. op[th].pc \in {"run", "leave"} /\ op'[th].pc \in {"queued", "body", "return", "failed"}
  BY ZenonT(60)
<1> QED
  BY ONLY Zenon, ConnConstants, IInv, MountStep, th \in Threads,
          UNCHANGED <<tgt, transition, pool, started>>, lane \in Lanes, plan.gates[lane] > 0,
          op[th] \in Operations, op[th].lane = lane, GateBecomes(lane, n, v),
          OthersAdmitted(th, lane, v), OperationInv(op'[th]), op'[th].lane = lane,
          op'[th].txn = op[th].txn,
          <1>3, <1>7, <1>8, <1>9, <1>10, <1>11, <1>12, <1>13, GatePassed

\* A permit that goes to the one who waits longest.
LEMMA GateHandedOn ==
    ASSUME ConnConstants, IInv, MountStep, NEW th \in Threads, op[th].pc = "leave",
           UNCHANGED <<tgt, transition, pool, started>>,
           NEW lane \in Lanes, plan.gates[lane] > 0, op[th] \in Operations, op[th].lane = lane,
           op[th].txn, NEW w, w = gates[lane].waiters, w # << >>,
           NEW n, n = gates[lane].active, NEW v, v = Tail(w),
           GateBecomes(lane, n, v), OthersAdmitted(th, lane, v),
           OperationInv(op'[th]), op'[th].pc \in {"return", "failed"},
           op'[th].lane = lane, op'[th].txn = op[th].txn
    PROVE  IInv'
<1>1. ConnTypes /\ GateInv /\ GateOK(lane)
  BY ZenonT(60) DEF IInv, GateInv
<1>2. /\ n \in Nat /\ plan.gates[lane] \in Nat /\ w \in Seq(Threads)
      /\ Inside(lane) \subseteq Threads
  BY ZenonT(60), <1>1, QueueFacts
<1>3. /\ v \in Seq(Threads) /\ Len(w) \in Nat \ {0} /\ Len(v) = Len(w) - 1
      /\ \A i \in 1..Len(v) : v[i] = w[i + 1]
      /\ w[1] \in Threads
  BY ONLY <1>2, w # << >>, v = Tail(w)
<1>4. PICK hd \in Threads : hd = w[1]
  BY Zenon, <1>3
<1>5. /\ n = Cardinality(Inside(lane)) /\ n = plan.gates[lane]
      /\ \A i, j \in 1..Len(w) : w[i] = w[j] => i = j
      /\ \A x \in Threads : x \in Queued(lane) <=> \E i \in 1..Len(w) : w[i] = x
  BY ZenonT(60), <1>1 DEF GateOK
<1>6. hd \in Queued(lane) /\ ~Among(hd, v)
  BY ONLY SMTT(60), <1>3, <1>4, <1>5 DEF Among
<1>7. \A x \in Threads \ {hd} : Among(x, v) <=> x \in Queued(lane)
  <2>1. \A i \in 1..Len(w) : w[i] # hd => i - 1 \in 1..Len(v) /\ v[i - 1] = w[i]
    BY ONLY SMTT(60), <1>3, <1>4
  <2>2. \A i \in 1..Len(v) : i + 1 \in 1..Len(w)
    BY ONLY SMTT(60), <1>3
  <2> QED
    BY ONLY SMTT(60), <1>3, <1>5, <2>1, <2>2 DEF Among
<1>8. hd # th /\ op[hd].pc = "queued" /\ op[hd].lane = lane /\ hd \notin Inside(lane)
  BY ZenonT(60), <1>6 DEF Queued, Inside
<1>9. op[hd] \in Operations /\ op[hd].txn
  BY ZenonT(60), <1>1, <1>8, Running DEF ConnTypes, OperationOK, Idle
<1>10. /\ op'[hd] = [op[hd] EXCEPT !.pc = "body"]
       /\ \A x \in Threads \ {th, hd} : op'[x] = op[x]
  <2>1. Admitted(hd, lane, v)
    BY ZenonT(60), <1>6, <1>8 DEF Admitted
  <2>2. \A x \in Threads \ {th, hd} : ~Admitted(x, lane, v)
    BY ZenonT(60), <1>7 DEF Admitted, Queued
  <2> QED
    BY ZenonT(60), <1>8, <2>1, <2>2 DEF OthersAdmitted
<1>11. op'[hd].pc = "body" /\ op'[hd].lane = lane /\ op'[hd].txn
  BY ZenonT(60), <1>8, <1>9, <1>10 DEF Operations
<1>12. n = Cardinality(Inside(lane)')
  <2>1. th \in Inside(lane)
    BY ZenonT(60) DEF Inside
  <2>2. \A x \in Threads : x \in Inside(lane)' <=> (x # th /\ x \in Inside(lane)) \/ x = hd
    BY ZenonT(60), <1>8, <1>10, <1>11 DEF Inside
  <2>3. Inside(lane)' \subseteq Threads
    BY ZenonT(60) DEF Inside
  <2>4. PICK S, T : S = Inside(lane) \ {th} /\ T = Inside(lane)'
    BY Zenon
  <2>5. T = S \cup {hd} /\ hd \notin S /\ S \subseteq Threads
    BY ZenonT(60), <1>2, <1>8, <2>2, <2>3, <2>4
  <2>6. Cardinality(S) = Cardinality(Inside(lane)) - 1
    BY ZenonT(60), <1>2, <2>1, <2>4, OneLess
  <2>7. Cardinality(T) = Cardinality(S) + 1
    BY ZenonT(60), <2>5, OneMore
  <2>8. n \in Nat /\ n = Cardinality(Inside(lane))
    BY ONLY ZenonT(60), <1>2, <1>5
  <2>9. n = Cardinality(T)
    BY ONLY SMTT(60), <2>6, <2>7, <2>8
  <2> QED
    BY ONLY ZenonT(60), <2>4, <2>9
<1>13. \A x \in Threads : x \in Queued(lane)' <=> Among(x, v)
  <2>1. \A x \in Threads : x \in Queued(lane)' <=> x # hd /\ x \in Queued(lane)
    BY ZenonT(60), <1>8, <1>10, <1>11 DEF Queued
  <2> QED
    BY ONLY ZenonT(60), <2>1, <1>6, <1>7
<1>14. \A i, j \in 1..Len(v) : v[i] = v[j] => i = j
  BY ONLY <1>3, <1>5
<1>15. (v # <<>> => n = plan.gates[lane]) /\ n <= plan.gates[lane]
  BY <1>2, <1>5
<1>16. op[th].pc \in {"run", "leave"} /\ op'[th].pc \in {"queued", "body", "return", "failed"}
  BY ZenonT(60)
<1> QED
  BY ONLY ZenonT(60), ConnConstants, IInv, MountStep, th \in Threads,
          UNCHANGED <<tgt, transition, pool, started>>, lane \in Lanes, plan.gates[lane] > 0,
          op[th] \in Operations, op[th].lane = lane, GateBecomes(lane, n, v),
          OthersAdmitted(th, lane, v), OperationInv(op'[th]), op'[th].lane = lane,
          op'[th].txn = op[th].txn,
          <1>2, <1>3, <1>12, <1>13, <1>14, <1>15, <1>16, GatePassed

LEMMA RunOK ==
    ASSUME ConnConstants, IInv, NEW th \in Threads, Run(th)
    PROVE  IInv'
<1>0. MountStep /\ UNCHANGED <<tgt, transition, pool, started>>
  BY ZenonT(60) DEF Run, MountStep
<1>1. op[th].pc = "run" /\ op[th] \in Operations /\ op[th].lane \in Lanes
  <2>1. op[th].pc = "run"
    BY ZenonT(60) DEF Run, At
  <2>2. op[th] \in Operations
    BY ZenonT(60), <2>1, MoverFacts
  <2> QED
    BY ZenonT(60), <2>1, <2>2 DEF Operations
<1>2. PICK b : b = [op[th] EXCEPT !.pc = "body"]
  BY Zenon
<1>3. /\ OperationInv(b) /\ b.pc = "body"
      /\ b.lane = op[th].lane /\ b.txn = op[th].txn
  BY <1>1, <1>2, FlightMove
<1>4. CASE ~(op[th].txn /\ plan.gates[op[th].lane] > 0)
  <2>1. UNCHANGED gates /\ op' = [op EXCEPT ![th] = b]
    BY ZenonT(60), <1>2, <1>4 DEF Run, Goto
  <2> QED
    BY ZenonT(60), <1>0, <1>1, <1>3, <1>4, <2>1, NoGateStep
<1>5. CASE op[th].txn /\ plan.gates[op[th].lane] > 0
  <2>1. PICK lane \in Lanes : lane = op[th].lane
    BY ZenonT(60), <1>1
  <2>2. PICK r : r = [op[th] EXCEPT !.pc = "queued"]
    BY ZenonT(60)
  <2>3. /\ OperationInv(r) /\ r.pc = "queued" /\ r.lane = lane /\ r.txn = op[th].txn
    <3>1. "queued" = "queued" => op[th].txn /\ plan.gates[op[th].lane] > 0
      BY ZenonT(60), <1>5
    <3>2. op[th].pc \in {"run", "leave"}
      BY ZenonT(60), <1>1
    <3>3. OperationInv(r) /\ r.pc = "queued" /\ r.lane = op[th].lane /\ r.txn = op[th].txn
      BY ONLY SMTT(60), ConnConstants, IInv, th \in Threads, <2>2, <3>1, <3>2, FlightMove
    <3> QED
      BY ZenonT(60), <2>1, <3>3
  <2>4. [r EXCEPT !.pc = "body"] = b
    BY ZenonT(60), <1>1, <1>2, <2>2 DEF Operations
  <2>5. [op EXCEPT ![th].pc = "queued"] = [op EXCEPT ![th] = r]
    BY ZenonT(60), <2>2
  <2>6. PICK gate : gate = Joined(lane, th)
    OBVIOUS
  <2>7. Admits(th, r, lane, gate)
    BY ZenonT(60), <1>5, <2>1, <2>5, <2>6 DEF Run, Admits, Joined
  <2>8. plan.gates[lane] > 0 /\ op[th].txn
    BY ZenonT(60), <1>5, <2>1
  <2>9. \/ /\ gates[lane].active < plan.gates[lane]
           /\ gate = GateRec(gates[lane].active + 1, << >>)
        \/ /\ gates[lane].active = plan.gates[lane]
           /\ gate = GateRec(gates[lane].active, Append(gates[lane].waiters, th))
    BY SMTT(60), <2>6, <2>8, JoinedGate
  <2>10. CASE /\ gates[lane].active < plan.gates[lane]
              /\ gate = GateRec(gates[lane].active + 1, << >>)
    <3>1. PICK n, v : n = gates[lane].active + 1 /\ v = << >>
      OBVIOUS
    <3>2. Admits(th, r, lane, GateRec(n, v))
      BY ONLY ZenonT(60), <2>7, <2>10, <3>1
    <3>3. /\ GateBecomes(lane, n, v) /\ OthersAdmitted(th, lane, v)
          /\ ~Among(th, v) => op'[th] = [r EXCEPT !.pc = "body"]
      <4>1. ConnTypes
        BY ZenonT(60) DEF IInv
      <4> QED
        BY ONLY ZenonT(60), <2>3, <3>2, <4>1, th \in Threads, lane \in Lanes, AdmitFacts
    <3>4. ~Among(th, v)
      BY ONLY <3>1 DEF Among
    <3>5. op'[th] = b
      BY ONLY ZenonT(60), <2>4, <3>3, <3>4
    <3> QED
      BY ONLY ZenonT(60), <1>0, <1>1, <1>3, <2>1, <2>8, <2>10, <3>1, <3>3, <3>5, ConnConstants, IInv,
              th \in Threads, GateEntered
  <2>11. CASE /\ gates[lane].active = plan.gates[lane]
              /\ gate = GateRec(gates[lane].active, Append(gates[lane].waiters, th))
    <3>1. PICK n, v : n = gates[lane].active /\ v = Append(gates[lane].waiters, th)
      BY Zenon
    <3>2. Admits(th, r, lane, GateRec(n, v))
      BY ONLY ZenonT(60), <2>7, <2>11, <3>1
    <3>0. ConnTypes
      BY ZenonT(60) DEF IInv
    <3>3. /\ GateBecomes(lane, n, v) /\ OthersAdmitted(th, lane, v)
          /\ Among(th, v) => op'[th] = r
      BY ONLY ZenonT(60), <3>2, <3>0, th \in Threads, lane \in Lanes, AdmitFacts
    <3>4. Among(th, v)
      <4>1. gates[lane].waiters \in Seq(Threads)
        BY ZenonT(60), <3>0 DEF ConnTypes
      <4>2. Len(v) \in Nat \ {0} /\ v[Len(v)] = th
        BY ONLY <3>1, <4>1, th \in Threads
      <4> QED
        BY ONLY <4>2 DEF Among
    <3>5. op'[th] = r
      BY ONLY ZenonT(60), <3>3, <3>4
    <3> QED
      BY ONLY ZenonT(60), <1>0, <1>1, <2>1, <2>3, <2>8, <2>11, <3>1, <3>3, <3>5, ConnConstants, IInv,
              th \in Threads, GateQueued
  <2> QED
    BY ZenonT(60), <2>9, <2>10, <2>11
<1> QED
  BY ZenonT(60), <1>4, <1>5

LEMMA LeaveGateOK ==
    ASSUME ConnConstants, IInv, NEW th \in Threads, LeaveGate(th)
    PROVE  IInv'
<1>0. MountStep /\ UNCHANGED <<tgt, transition, pool, started>>
  BY ZenonT(60) DEF LeaveGate, MountStep
<1>1. op[th].pc = "leave" /\ op[th] \in Operations /\ op[th].lane \in Lanes
  <2>1. op[th].pc = "leave"
    BY ZenonT(60) DEF LeaveGate, At
  <2>2. op[th] \in Operations
    BY ZenonT(60), <2>1, MoverFacts
  <2> QED
    BY ZenonT(60), <2>1, <2>2 DEF Operations
<1>2. PICK to \in {"return", "failed"} : to = IF op[th].out = "ok" THEN "return" ELSE "failed"
  OBVIOUS
<1>3. PICK r : r = [op[th] EXCEPT !.pc = to]
  BY Zenon
<1>4. /\ OperationInv(r) /\ r.pc \in {"return", "failed"}
      /\ r.lane = op[th].lane /\ r.txn = op[th].txn
  BY <1>1, <1>2, <1>3, FlightMove
<1>5. [op EXCEPT ![th].pc = to] = [op EXCEPT ![th] = r]
  BY ZenonT(60), <1>3
<1>6. CASE ~(op[th].txn /\ plan.gates[op[th].lane] > 0)
  <2>1. UNCHANGED gates /\ op' = [op EXCEPT ![th] = r]
    BY ZenonT(60), <1>2, <1>5, <1>6 DEF LeaveGate, Goto
  <2> QED
    BY ZenonT(60), <1>0, <1>1, <1>4, <1>6, <2>1, NoGateStep
<1>7. CASE op[th].txn /\ plan.gates[op[th].lane] > 0
  <2>1. PICK lane \in Lanes : lane = op[th].lane
    BY ZenonT(60), <1>1
  <2>2. PICK gate : gate = Left(lane)
    OBVIOUS
  <2>3. Admits(th, r, lane, gate)
    BY ZenonT(60), <1>2, <1>5, <1>7, <2>1, <2>2 DEF LeaveGate, Admits, Left
  <2>4. plan.gates[lane] > 0 /\ op[th].txn
    BY ZenonT(60), <1>7, <2>1
  <2>5. \/ /\ gates[lane].waiters = << >>
           /\ gate = GateRec(gates[lane].active - 1, << >>)
        \/ /\ gates[lane].waiters # << >>
           /\ gate = GateRec(gates[lane].active, Tail(gates[lane].waiters))
    BY SMTT(60), <2>2, <2>4, LeftGate
  <2>6. ConnTypes
    BY ZenonT(60) DEF IInv
  <2>7. CASE /\ gates[lane].waiters = << >>
             /\ gate = GateRec(gates[lane].active - 1, << >>)
    <3>1. PICK n, v : n = gates[lane].active - 1 /\ v = << >>
      OBVIOUS
    <3>2. Admits(th, r, lane, GateRec(n, v))
      BY ONLY ZenonT(60), <2>3, <2>7, <3>1
    <3>3. /\ GateBecomes(lane, n, v) /\ OthersAdmitted(th, lane, v)
          /\ r.pc # "queued" => op'[th] = r
      BY ONLY ZenonT(60), <2>6, <3>2, th \in Threads, lane \in Lanes, AdmitFacts
    <3>4. op'[th] = r
      BY ONLY ZenonT(60), <1>4, <3>3
    <3> QED
      BY ONLY ZenonT(60), <1>0, <1>1, <1>4, <2>1, <2>4, <2>7, <3>1, <3>3, <3>4, ConnConstants, IInv,
              th \in Threads, GateVacated
  <2>8. CASE /\ gates[lane].waiters # << >>
             /\ gate = GateRec(gates[lane].active, Tail(gates[lane].waiters))
    <3>1. PICK n, w, v : n = gates[lane].active /\ w = gates[lane].waiters /\ v = Tail(w)
      BY ZenonT(60)
    <3>2. Admits(th, r, lane, GateRec(n, v)) /\ w # << >>
      BY ONLY Zenon, <2>3, <2>8, <3>1
    <3>3. /\ GateBecomes(lane, n, v) /\ OthersAdmitted(th, lane, v)
          /\ r.pc # "queued" => op'[th] = r
      BY ONLY ZenonT(60), <2>6, <3>2, th \in Threads, lane \in Lanes, AdmitFacts
    <3>4. op'[th] = r
      BY ONLY ZenonT(60), <1>4, <3>3
    <3> QED
      BY ONLY ZenonT(60), <1>0, <1>1, <1>4, <2>1, <2>4, <3>1, <3>2, <3>3, <3>4, ConnConstants, IInv,
              th \in Threads, GateHandedOn
  <2> QED
    BY ZenonT(60), <2>5, <2>7, <2>8
<1> QED
  BY ZenonT(60), <1>6, <1>7

-----------------------------------------------------------------------------
(* The servers. *)

\* A step of the servers, or none at all.  What an operation has seen of the servers
\* is out of date once they change.
LEMMA OutsideStep ==
    ASSUME ConnConstants, IInv, UNCHANGED <<plan, tgt, transition, pool, gates, op, started>>,
           faults' \in Nat, faults <= faults', srv' \in [Servers -> Rows],
           faults' = faults => srv' = srv
    PROVE  IInv'
<1>1. faults \in Nat /\ op \in [Threads -> Operations \cup {Idle}]
  BY ZenonT(60) DEF IInv, ConnTypes
<1>2. \A th \in Threads : op[th] # Idle =>
         op[th] \in Operations /\ OperationOK(op[th]) /\ op[th].since \in Nat /\ op[th].since <= faults
  BY ZenonT(60), <1>1 DEF IInv, ConnTypes, OperationOK, Operations
<1>3. (Servers' = Servers) /\ (Targets' = Targets) /\ (Conns' = Conns) /\ (Candidates' = Candidates)
  BY ZenonT(60) DEF Servers, Targets, Conns, Candidates
<1>4. ConnTypes'
  <2>1. (TargetStates' = TargetStates) /\ (Operations' = Operations)
    BY ZenonT(60), <1>3 DEF TargetStates, Operations
  <2>2. \A th \in Threads : op[th] # Idle => OperationOK(op[th])'
    <3> SUFFICES ASSUME NEW th \in Threads, op[th] # Idle PROVE OperationOK(op[th])'
      OBVIOUS
    <3>1. op[th].since <= faults'
      BY SMTT(60), <1>1, <1>2
    <3>2. OperationOK(op[th])
      BY ZenonT(60), <1>2
    <3> QED
      BY ZenonT(60), <1>3, <3>1, <3>2 DEF OperationOK
  <2>3. /\ plan' \in Plans /\ started' \in Nat /\ tgt' \in TargetStates
        /\ transition' \in Threads \cup {0}
        /\ pool' \in [cached : [Lanes -> Seq(Conns)], live : Int]
        /\ gates' \in [Lanes -> [active : Int, waiters : Seq(Threads)]]
        /\ op' \in [Threads -> Operations \cup {Idle}]
    BY ZenonT(60) DEF IInv, ConnTypes
  <2>4. \A th \in Threads : op'[th] # Idle => OperationOK(op[th])'
    BY ZenonT(60), <2>2
  <2> QED
    BY ZenonT(60), <1>3, <2>1, <2>3, <2>4 DEF ConnTypes, Threads, Lanes, Idle, Rows
<1>5. Mutex'
  BY ZenonT(60) DEF IInv, Mutex, Threads, Critical, EndPcs
<1>6. GuardInv'
  <2>1. (Flying' = Flying) /\ (Vacant' = Vacant)
    BY ZenonT(60) DEF Flying, Vacant, Threads
  <2>2. \A c : Current(c)' <=> Current(c)
    BY ZenonT(60), <2>1 DEF Current
  <2>3. \A th \in Threads : Guarded(op[th])' <=> Guarded(op[th])
    BY ZenonT(60), <2>1 DEF Guarded, Current
  <2> QED
    BY ZenonT(60), <2>1, <2>2, <2>3 DEF IInv, GuardInv, Threads, Lanes
<1>7. ScanInv'
  <2>1. \A th \in Threads : op[th] # Idle => Looked(op[th])'
    <3> SUFFICES ASSUME NEW th \in Threads, op[th] # Idle PROVE Looked(op[th])'
      OBVIOUS
    <3>1. Looked(op[th])
      BY ZenonT(60) DEF IInv, ScanInv
    <3>2. CASE op[th].since # faults'
      BY ZenonT(60), <3>1, <3>2 DEF Looked
    <3>3. CASE op[th].since = faults'
      <4>1. faults' = faults /\ srv' = srv
        BY SMTT(60), <1>1, <1>2, <3>3
      <4> QED
        BY ZenonT(60), <1>3, <3>1, <4>1 DEF Looked, Writable
    <3> QED
      BY ZenonT(60), <3>2, <3>3
  <2> QED
    BY ZenonT(60), <2>1 DEF ScanInv
<1>8. PoolInv'
  BY Zenon DEF IInv, PoolInv, Holders, Holds, Acquirers, Cached, Threads
<1>9. GateInv'
  <2>1. \A lane \in Lanes : Inside(lane)' = Inside(lane) /\ Queued(lane)' = Queued(lane)
    BY ZenonT(60) DEF Inside, Queued, Threads
  <2>2. \A lane \in Lanes : GateOK(lane)' <=> GateOK(lane)
    BY SMTT(60), <2>1 DEF GateOK, Threads
  <2> QED
    BY ZenonT(60), <2>2 DEF IInv, GateInv, Lanes
<1> QED
  BY ZenonT(60), <1>4, <1>5, <1>6, <1>7, <1>8, <1>9 DEF IInv

LEMMA RowFacts ==
    ASSUME NEW o \in Rows
    PROVE  /\ [o EXCEPT !.up = ~@] \in Rows
           /\ [o EXCEPT !.up = TRUE, !.start = @ + 1] \in Rows
           /\ [o EXCEPT !.writable = TRUE] \in Rows
           /\ [o EXCEPT !.writable = FALSE, !.start = @ + 1] \in Rows
           /\ [o EXCEPT !.cluster = 2, !.writable = TRUE, !.start = @ + 1] \in Rows
<1>1. o.start + 1 \in Nat /\ 2 \in 1..2
  BY DEF Rows
<1>2. (~o.up) \in BOOLEAN
  OBVIOUS
<1>3. [o EXCEPT !.up = ~@] \in Rows
  BY Zenon, <1>2 DEF Rows
<1>4. [o EXCEPT !.writable = TRUE] \in Rows
  BY Zenon DEF Rows
<1>5. [o EXCEPT !.up = TRUE, !.start = @ + 1] \in Rows
  BY Zenon, <1>1 DEF Rows
<1>6. [o EXCEPT !.writable = FALSE, !.start = @ + 1] \in Rows
  BY Zenon, <1>1 DEF Rows
<1>7. [o EXCEPT !.cluster = 2, !.writable = TRUE, !.start = @ + 1] \in Rows
  BY ZenonT(60), <1>1 DEF Rows
<1> QED
  BY ZenonT(60), <1>3, <1>4, <1>5, <1>6, <1>7

LEMMA FaultOK ==
    ASSUME ConnConstants, IInv, NEW s \in Servers, NEW kind \in plan.kinds, Fault(s, kind)
    PROVE  IInv'
<1>1. PICK new : new \in Rows /\ Change(s, new)
  <2>1. srv[s] \in Rows
    BY ZenonT(60) DEF IInv, ConnTypes
  <2> QED
    BY ZenonT(60), <2>1, RowFacts DEF Fault
<1>2. /\ UNCHANGED <<plan, tgt, transition, pool, gates, op, started>>
      /\ faults' = faults + 1 /\ srv' = [srv EXCEPT ![s] = new]
  BY ZenonT(60), <1>1 DEF Change
<1>3. faults' \in Nat /\ faults <= faults' /\ faults' # faults /\ srv' \in [Servers -> Rows]
  BY SMTT(60), <1>1, <1>2 DEF IInv, ConnTypes
<1> QED
  BY ZenonT(60), <1>2, <1>3, OutsideStep

-----------------------------------------------------------------------------
(* The beginning. *)

LEMMA InitOK ==
    ASSUME ConnConstants, ConnInit
    PROVE  IInv
<1> USE DEF ConnInit
<1>1. \A th \in Threads : op[th] = Idle /\ op[th].pc = "idle"
  BY ZenonT(60) DEF Idle
<1>2. plan.route \in Seq(STRING) /\ Len(plan.route) \in Nat \ {0}
  <2>1. plan.route \in Seq(STRING) /\ plan.route # <<>>
    BY Zenon DEF ConnConstants
  <2> QED BY ONLY <2>1, SMTT(60)
<1>3. ConnTypes
  <2>1. tgt \in TargetStates
    BY SMTT(60), <1>2 DEF TargetStates, Targets
  <2>2. srv \in [Servers -> Rows]
    <3>1. ASSUME NEW s \in Servers
          PROVE  [up |-> TRUE, writable |-> s = plan.route[1], cluster |-> 1, start |-> 0] \in Rows
      <4>1. 1 \in 1..2 /\ 0 \in Nat
        BY ONLY SMTT(60)
      <4>2. TRUE \in BOOLEAN /\ (s = plan.route[1]) \in BOOLEAN
        BY Zenon
      <4> QED BY ZenonT(60), <4>1, <4>2 DEF Rows
    <3> QED BY ZenonT(60), <3>1
  <2>3. pool \in [cached : [Lanes -> Seq(Conns)], live : Int]
    BY SMTT(60)
  <2>4. gates \in [Lanes -> [active : Int, waiters : Seq(Threads)]]
    BY SMTT(60)
  <2> QED
    BY ZenonT(60), <1>1, <2>1, <2>2, <2>3, <2>4 DEF ConnTypes
<1>4. Mutex
  BY ZenonT(60), <1>1 DEF Mutex, Critical, EndPcs
<1>5. Cardinality({}) = 0
  BY ZenonT(60), FS_EmptySet
<1>6. GuardInv
  <2>1. Flying = {}
    BY ZenonT(60), <1>1 DEF Flying, FlightPcs
  <2>2. \A lane \in Lanes : Len(pool.cached[lane]) = 0
    BY ZenonT(60)
  <2>3. tgt.inflight = 0
    BY ZenonT(60)
  <2> QED
    BY SMTT(60), <1>1, <1>5, <2>1, <2>2, <2>3 DEF GuardInv
<1>7. ScanInv
  BY ZenonT(60), <1>1 DEF ScanInv
<1>8. PoolInv
  <2>1. Holders = {} /\ Acquirers = {}
    BY ZenonT(60), <1>1 DEF Holders, Acquirers, Holds, Unconnected, ConnPcs, FlightPcs, EndPcs
  <2>2. Cached = 0 /\ pool.live = 0
    BY SMTT(60) DEF Cached, Lanes
  <2>3. plan.limit \in Nat
    BY ZenonT(60) DEF ConnConstants
  <2>4. ~\E th \in Threads : op[th].pc = "waiting"
    BY ZenonT(60), <1>1
  <2> QED
    BY SMTT(60), <1>5, <2>1, <2>2, <2>3, <2>4 DEF PoolInv
<1>9. GateInv
  <2> SUFFICES ASSUME NEW lane \in Lanes, plan.gates[lane] > 0 PROVE GateOK(lane)
    BY ZenonT(60) DEF GateInv
  <2>1. Inside(lane) = {} /\ Queued(lane) = {}
    BY ZenonT(60), <1>1 DEF Inside, Queued
  <2>2. gates[lane].active = 0 /\ gates[lane].waiters = <<>> /\ Len(gates[lane].waiters) = 0
    BY ZenonT(60)
  <2>3. plan.gates[lane] \in Nat
    BY ZenonT(60) DEF ConnConstants
  <2> QED
    BY ONLY <1>5, <2>1, <2>2, <2>3, SMTT(60) DEF GateOK
<1> QED
  BY Zenon, <1>3, <1>4, <1>6, <1>7, <1>8, <1>9 DEF IInv

-----------------------------------------------------------------------------
(* The theorems. *)

\* Every step of a thread keeps the invariant.
LEMMA ThreadStep ==
    ASSUME ConnConstants, IInv, NEW th \in Threads, Step(th)
    PROVE  IInv'
<1>1. CASE ReadGeneration(th)
  BY ZenonT(60), <1>1, ReadGenerationOK
<1>2. CASE Acquire(th)
  BY ZenonT(60), <1>2, AcquireOK
<1>3. CASE LockTransition(th)
  BY ZenonT(60), <1>3, LockTransitionOK
<1>4. CASE TryTarget(th)
  BY ZenonT(60), <1>4, TryTargetOK
<1>5. CASE ProbeActive(th)
  BY ZenonT(60), <1>5, ProbeActiveOK
<1>6. CASE ScanTarget(th)
  BY ZenonT(60), <1>6, ScanTargetOK
<1>7. CASE Decide(th)
  BY ZenonT(60), <1>7, DecideOK
<1>8. CASE Install(th)
  BY ZenonT(60), <1>8, InstallOK
<1>9. CASE ReleaseUnconnectedSlot(th)
  BY ZenonT(60), <1>9, ReleaseUnconnectedSlotOK
<1>10. CASE Announce(th)
  BY ZenonT(60), <1>10, AnnounceOK
<1>11. CASE AdvanceAfterFailure(th)
  BY ZenonT(60), <1>11, AdvanceAfterFailureOK
<1>12. CASE MarkOperationConnectionFailure(th)
  BY ZenonT(60), <1>12, MarkOperationConnectionFailureOK
<1>13. CASE Replay(th)
  BY ZenonT(60), <1>13, ReplayOK
<1>14. CASE BeginOperation(th)
  BY ZenonT(60), <1>14, BeginOperationOK
<1>15. CASE ReturnStale(th)
  BY ZenonT(60), <1>15, ReturnStaleOK
<1>16. CASE Run(th)
  BY ZenonT(60), <1>16, RunOK
<1>17. CASE LeaveGate(th)
  BY ZenonT(60), <1>17, LeaveGateOK
<1>18. CASE ReturnCached(th)
  BY ZenonT(60), <1>18, ReturnCachedOK
<1>19. CASE ReleaseFailedOperation(th)
  BY ZenonT(60), <1>19, ReleaseFailedOperationOK
<1>20. CASE EndOperation(th)
  BY ZenonT(60), <1>20, EndOperationOK
<1>21. CASE \E out \in {"ok", "error", "lost"} : Body(th, out)
  BY ZenonT(60), <1>21, BodyOK
<1> QED
  BY ZenonT(60), <1>1, <1>2, <1>3, <1>4, <1>5, <1>6, <1>7, <1>8, <1>9, <1>10, <1>11, <1>12, <1>13, <1>14,
     <1>15, <1>16, <1>17, <1>18, <1>19, <1>20, <1>21 DEF Step

LEMMA NextOK ==
    ASSUME ConnConstants, IInv, [ConnNext]_connVars
    PROVE  IInv'
<1>1. ASSUME NEW th \in Threads, NEW x \in plan.starts, Start(th, x[1], x[2]) PROVE IInv'
  BY ZenonT(60), <1>1, StartOK
<1>2. ASSUME NEW th \in Threads, Step(th) PROVE IInv'
  BY ZenonT(60), <1>2, ThreadStep
<1>3. ASSUME NEW s \in Servers, NEW kind \in plan.kinds, Fault(s, kind) PROVE IInv'
  BY ZenonT(60), <1>3, FaultOK
<1>4. CASE UNCHANGED connVars
  <2>1. /\ UNCHANGED <<plan, tgt, transition, pool, gates, op, started>>
        /\ faults' = faults /\ srv' = srv
    BY ZenonT(60), <1>4 DEF connVars
  <2>2. faults' \in Nat /\ faults <= faults' /\ srv' \in [Servers -> Rows]
    BY <2>1 DEF IInv, ConnTypes
  <2> QED
    BY ZenonT(60), <2>1, <2>2, OutsideStep
<1> QED
  BY ZenonT(60), <1>1, <1>2, <1>3, <1>4 DEF ConnNext

\* The invariant of a mount's connections holds for any deployment.
THEOREM ConnectionInvariant ==
    ASSUME ConnConstants
    PROVE  ConnSpec => []IInv
<1>1. ConnInit => IInv
  BY ZenonT(60), InitOK
<1>2. IInv /\ [ConnNext]_connVars => IInv'
  BY ZenonT(60), NextOK
<1> QED
  BY <1>1, <1>2, PTL DEF ConnSpec

\* The target that is used is one of the list, the generations and the operations in
\* flight are counted without loss, and the pool is never larger than its limit
\* (DbRepoConnectionTargetState, acquire in pg.rs).
THEOREM ConnectionTypes ==
    ASSUME ConnConstants
    PROVE  ConnSpec => []ConnTypeOK
<1>1. IInv => ConnTypeOK
  <2> SUFFICES ASSUME IInv PROVE ConnTypeOK
    OBVIOUS
  <2>1. tgt.active \in Targets /\ tgt.gen \in Nat /\ transition \in Threads \cup {0}
    BY ZenonT(60) DEF IInv, ConnTypes, TargetStates
  <2>2. IsFiniteSet(Threads) /\ Cardinality(Threads) \in Nat
    BY ZenonT(60), ThreadSets
  <2>3. tgt.inflight \in 0..Cardinality(Threads)
    <3>1. CASE plan.guard
      <4>1. tgt.inflight = Cardinality(Flying) /\ Flying \subseteq Threads
        BY ZenonT(60), <3>1 DEF IInv, GuardInv, Flying
      <4>2. Cardinality(Flying) \in Nat /\ Cardinality(Flying) <= Cardinality(Threads)
        BY ZenonT(60), <2>2, <4>1, FS_Subset, ThreadSets
      <4> QED
        BY SMTT(60), <2>2, <4>1, <4>2
    <3>2. CASE ~plan.guard
      BY SMTT(60), <2>2, <3>2 DEF IInv, GuardInv
    <3> QED
      BY ZenonT(60), <3>1, <3>2
  <2>4. pool.live \in 0..plan.limit
    <3>1. plan.limit \in Nat
      BY ZenonT(60), PlanFacts DEF IInv
    <3>2. Cardinality(Holders) \in Nat
      BY ZenonT(60), ThreadSets DEF Holders
    <3>3. Cached \in Nat
      BY ZenonT(60), PoolFacts
    <3> QED
      BY SMTT(60), <3>1, <3>2, <3>3 DEF IInv, PoolInv
  <2> QED
    BY ZenonT(60), <2>1, <2>3, <2>4 DEF ConnTypeOK
<1> QED
  BY <1>1, ConnectionInvariant, PTL

\* The operations that run at one moment all run on one server, the recorded primary
\* of the recorded cluster, as it was when it was validated (begin_primary_operation,
\* wait_for_primary_operations).
THEOREM InFlightOnOneServer ==
    ASSUME ConnConstants
    PROVE  ConnSpec => []OneServerInFlight
<1>1. IInv => OneServerInFlight
  <2> SUFFICES ASSUME IInv, plan.guard, NEW th \in Threads, InFlight(th)
               PROVE  /\ op[th].conn.gen = tgt.gen
                      /\ <<op[th].conn.server, op[th].conn.start>> = tgt.print
                      /\ op[th].conn.cluster = tgt.cluster
    BY ZenonT(60) DEF OneServerInFlight
  <2>1. op[th].pc \in FlightPcs /\ op[th] # Idle
    BY SMTT(60) DEF InFlight, FlightPcs, Idle
  <2>2. Guarded(op[th])
    BY ZenonT(60), <2>1 DEF IInv, GuardInv
  <2> QED
    BY ZenonT(60), <2>1, <2>2 DEF Guarded, Current, ConnPcs
<1> QED
  BY <1>1, ConnectionInvariant, PTL

\* The pool counts exactly the connections that are cached or held, and the gates the
\* transactions inside; nobody waits for a connection or for a gate that could be had
\* (acquire, notify_one and reserve_next_waiter in pg.rs).
THEOREM CountsAreExact ==
    ASSUME ConnConstants
    PROVE  ConnSpec => []CountsExact
<1>1. IInv => PoolExact
  <2> SUFFICES ASSUME IInv PROVE PoolExact
    OBVIOUS
  <2>1. {th \in Threads : Holding(th)} = Holders
    BY ZenonT(60) DEF Holding, Holders, Holds, Unconnected, ConnPcs, FlightPcs, EndPcs
  <2>2. PICK h, a, c : h = Cardinality(Holders) /\ a = Cardinality(Acquirers) /\ c = Cached
    OBVIOUS
  <2>3. h \in Nat /\ a \in Nat
    BY ZenonT(60), <2>2, ThreadSets DEF Holders, Acquirers
  <2>4. c \in Nat
    BY ZenonT(60), <2>2, PoolFacts
  <2>5. plan.limit \in Nat
    BY ZenonT(60), PlanFacts DEF IInv
  <2>6. /\ pool.live = h + c /\ pool.live <= plan.limit
        /\ (\E th \in Threads : op[th].pc = "waiting") => h + a >= plan.limit
    BY ZenonT(60), <2>2 DEF IInv, PoolInv
  <2>7. (~\E th \in Threads : op[th].pc = "acquire") => a = 0
    <3>1. (~\E th \in Threads : op[th].pc = "acquire") => Acquirers = {}
      BY ZenonT(60) DEF Acquirers
    <3> QED
      BY ZenonT(60), <2>2, <3>1, FS_EmptySet
  <2>8. (\E th \in Threads : op[th].pc = "waiting") =>
           h = plan.limit \/ \E th \in Threads : op[th].pc = "acquire"
    BY SMTT(60), <2>3, <2>4, <2>5, <2>6, <2>7
  <2> QED
    BY ZenonT(60), <2>1, <2>2, <2>6, <2>8 DEF PoolExact, Cached, At
<1>2. IInv => AdmissionExact
  <2> SUFFICES ASSUME IInv, NEW lane \in Lanes, plan.gates[lane] > 0
               PROVE  /\ gates[lane].active = Cardinality(Inside(lane))
                      /\ gates[lane].active <= plan.gates[lane]
                      /\ gates[lane].waiters # <<>> => gates[lane].active = plan.gates[lane]
    BY ZenonT(60) DEF AdmissionExact, Inside
  <2> QED
    BY ZenonT(60) DEF IInv, GateInv, GateOK
<1>3. IInv => CountsExact
  BY ZenonT(60), <1>1, <1>2 DEF CountsExact
<1> QED
  BY <1>3, ConnectionInvariant, PTL

\* Only Install changes the cluster of the mount or ends an operation's wait at it.
Untouched ==
    /\ tgt'.cluster = tgt.cluster
    /\ \A x \in Threads : op[x].pc = "install" => op'[x].pc # "begin"

LEMMA OneTouched ==
    ASSUME IInv, NEW th \in Threads, op[th].pc # "install", tgt'.cluster = tgt.cluster,
           \E r : op' = [op EXCEPT ![th] = r]
    PROVE  Untouched
<1>1. op \in [Threads -> Operations \cup {Idle}]
  BY ZenonT(60) DEF IInv, ConnTypes
<1> QED
  BY ZenonT(60), <1>1 DEF Untouched

LEMMA NotifyUntouched ==
    ASSUME IInv, NEW th \in Threads, op[th].pc # "install", tgt'.cluster = tgt.cluster,
           NEW r, op' \in NotifyOne([op EXCEPT ![th] = r])
    PROVE  Untouched
<1> DEFINE ops == [op EXCEPT ![th] = r]
<1>1. op \in [Threads -> Operations \cup {Idle}]
  BY ZenonT(60) DEF IInv, ConnTypes
<1>2. /\ ops = [x \in Threads |-> ops[x]]
      /\ \A x \in Threads \ {th} : ops[x] = op[x]
  BY ZenonT(60), <1>1
<1>3. op' \in NotifyOne(ops)
  OBVIOUS
<1> HIDE DEF ops
<1>4. op' = ops \/ \E y \in Threads : ops[y].pc = "waiting" /\ op' = [ops EXCEPT ![y].pc = "acquire"]
  BY ZenonT(60), <1>3 DEF NotifyOne
<1>5. \A x \in Threads : ops[x].pc = "install" => op'[x] = ops[x]
  BY ZenonT(60), <1>2, <1>4
<1> QED
  BY ZenonT(60), <1>2, <1>5 DEF Untouched

LEMMA AdmitUntouched ==
    ASSUME IInv, NEW th \in Threads, op[th].pc # "install", tgt'.cluster = tgt.cluster,
           NEW r, NEW lane, NEW gate, Admit(lane, [op EXCEPT ![th] = r], gate)
    PROVE  Untouched
<1> DEFINE ops == [op EXCEPT ![th] = r]
<1>1. op \in [Threads -> Operations \cup {Idle}]
  BY ZenonT(60) DEF IInv, ConnTypes
<1>2. \A x \in Threads \ {th} : ops[x] = op[x]
  BY ZenonT(60), <1>1
<1>3. Admit(lane, ops, gate)
  OBVIOUS
<1> HIDE DEF ops
<1>4. \A x \in Threads : ops[x].pc = "install" => op'[x] = ops[x]
  BY ZenonT(60), <1>3 DEF Admit
<1> QED
  BY ZenonT(60), <1>2, <1>4 DEF Untouched

LEMMA OthersUntouched ==
    ASSUME ConnConstants, IInv, NEW th \in Threads, Step(th), ~Install(th)
    PROVE  Untouched
<1>0. tgt \in TargetStates
  BY ZenonT(60) DEF IInv, ConnTypes
<1>1. CASE ReadGeneration(th)
  BY Zenon, <1>1, OneTouched DEF ReadGeneration, At
<1>2. CASE Acquire(th)
  <2>1. op[th].pc = "acquire" /\ UNCHANGED tgt /\ \E r : op' = [op EXCEPT ![th] = r]
    BY Zenon, <1>2 DEF Acquire, At, Goto
  <2> QED
    BY Zenon, <2>1, OneTouched
<1>3. CASE LockTransition(th)
  BY Zenon, <1>3, OneTouched DEF LockTransition, At, Goto
<1>4. CASE TryTarget(th)
  <2>1. op[th].pc = "try" /\ tgt'.cluster = tgt.cluster
    BY ZenonT(60), <1>0, <1>4 DEF TryTarget, At, TargetStates
  <2>2. \E r : op' = [op EXCEPT ![th] = r]
    BY ZenonT(60), <1>4 DEF TryTarget, Connected, Goto
  <2> QED
    BY ZenonT(60), <2>1, <2>2, OneTouched
<1>5. CASE ProbeActive(th)
  <2>1. op[th].pc = "probe" /\ tgt'.cluster = tgt.cluster
    BY ZenonT(60), <1>5 DEF ProbeActive, At
  <2>2. \E r : op' = [op EXCEPT ![th] = r]
    BY ZenonT(60), <1>5 DEF ProbeActive, Connected
  <2> QED
    BY ZenonT(60), <2>1, <2>2, OneTouched
<1>6. CASE ScanTarget(th)
  BY Zenon, <1>6, OneTouched DEF ScanTarget, At
<1>7. CASE Decide(th)
  <2>1. op[th].pc = "decide" /\ tgt'.cluster = tgt.cluster
    BY ZenonT(60), <1>0, <1>7 DEF Decide, At, TargetStates
  <2>2. \E r : op' = [op EXCEPT ![th] = r]
    BY ZenonT(60), <1>7 DEF Decide
  <2> QED
    BY ZenonT(60), <2>1, <2>2, OneTouched
<1>8. CASE ReleaseUnconnectedSlot(th)
  BY ZenonT(60), <1>8, NotifyUntouched DEF ReleaseUnconnectedSlot, At
<1>9. CASE Announce(th)
  <2>1. op[th].pc # "install" /\ tgt'.cluster = tgt.cluster
    BY ZenonT(60), <1>0, <1>9 DEF Announce, TargetStates
  <2>2. \E r : op' = [op EXCEPT ![th] = r]
    BY ZenonT(60), <1>9 DEF Announce
  <2> QED
    BY Zenon, <2>1, <2>2, OneTouched
<1>10. CASE AdvanceAfterFailure(th)
  <2>1. op[th].pc = "fence" /\ tgt'.cluster = tgt.cluster
    BY ZenonT(60), <1>0, <1>10 DEF AdvanceAfterFailure, At, TargetStates
  <2>2. \E r : op' = [op EXCEPT ![th] = r]
    BY Zenon, <1>10 DEF AdvanceAfterFailure, Goto
  <2> QED
    BY Zenon, <2>1, <2>2, OneTouched
<1>11. CASE MarkOperationConnectionFailure(th)
  BY Zenon, <1>11, OneTouched DEF MarkOperationConnectionFailure, At
<1>12. CASE Replay(th)
  BY Zenon, <1>12, OneTouched DEF Replay, At
<1>13. CASE BeginOperation(th)
  <2>1. op[th].pc = "begin" /\ tgt'.cluster = tgt.cluster
    BY ZenonT(60), <1>0, <1>13 DEF BeginOperation, At, TargetStates
  <2>2. \E r : op' = [op EXCEPT ![th] = r]
    BY ZenonT(60), <1>13 DEF BeginOperation, Goto
  <2> QED
    BY Zenon, <2>1, <2>2, OneTouched
<1>14. CASE ReturnStale(th)
  BY ZenonT(60), <1>14, NotifyUntouched DEF ReturnStale, At
<1>15. CASE Run(th)
  <2>1. op[th].pc = "run" /\ tgt'.cluster = tgt.cluster
    BY ZenonT(60), <1>15 DEF Run, At
  <2>2. CASE op[th].txn /\ plan.gates[op[th].lane] > 0
    BY ZenonT(60), <1>15, <2>1, <2>2, AdmitUntouched DEF Run
  <2>3. CASE ~(op[th].txn /\ plan.gates[op[th].lane] > 0)
    BY ZenonT(60), <1>15, <2>1, <2>3, OneTouched DEF Run, Goto
  <2> QED
    BY ZenonT(60), <2>2, <2>3
<1>16. CASE LeaveGate(th)
  <2>1. op[th].pc = "leave" /\ tgt'.cluster = tgt.cluster
    BY ZenonT(60), <1>16 DEF LeaveGate, At
  <2>2. CASE op[th].txn /\ plan.gates[op[th].lane] > 0
    BY ZenonT(60), <1>16, <2>1, <2>2, AdmitUntouched DEF LeaveGate
  <2>3. CASE ~(op[th].txn /\ plan.gates[op[th].lane] > 0)
    BY ZenonT(60), <1>16, <2>1, <2>3, OneTouched DEF LeaveGate, Goto
  <2> QED
    BY ZenonT(60), <2>2, <2>3
<1>17. CASE ReturnCached(th)
  BY Zenon, <1>17, NotifyUntouched DEF ReturnCached, At
<1>18. CASE ReleaseFailedOperation(th)
  BY ZenonT(60), <1>18, NotifyUntouched DEF ReleaseFailedOperation, At
<1>19. CASE EndOperation(th)
  <2>1. op[th].pc = "ended" /\ tgt'.cluster = tgt.cluster
    BY ZenonT(60), <1>0, <1>19 DEF EndOperation, At, TargetStates
  <2>2. \E r : op' = [op EXCEPT ![th] = r]
    BY Zenon, <1>19 DEF EndOperation
  <2> QED
    BY Zenon, <2>1, <2>2, OneTouched
<1>20. CASE \E out \in {"ok", "error", "lost"} : Body(th, out)
  BY ZenonT(60), <1>20, OneTouched DEF Body, At
<1> QED
  BY ZenonT(60), <1>1, <1>2, <1>3, <1>4, <1>5, <1>6, <1>7, <1>8, <1>9, <1>10, <1>11, <1>12, <1>13, <1>14,
     <1>15, <1>16, <1>17, <1>18, <1>19, <1>20 DEF Step

\* A mount never leaves the cluster it was first connected to, and adopts a server only
\* as the one that can be written, unless the servers changed while it looked at them
\* (choose_safe_primary_candidate, connect_primary_guarded).
THEOREM AdoptsThePrimary ==
    ASSUME ConnConstants
    PROVE  ConnSpec => AdoptedIsPrimary
<1>1. ASSUME IInv, Untouched PROVE ClusterKept /\ AdoptedIsUnique
  BY ZenonT(60), <1>1 DEF Untouched, ClusterKept, AdoptedIsUnique, At
<1>2. ASSUME IInv, NEW th \in Threads, Install(th) PROVE ClusterKept /\ AdoptedIsUnique
  <2>1. PICK c : c = op[th].found[1]
    OBVIOUS
  <2>2. op[th].pc = "install" /\ op[th] # Idle
    BY SMTT(60), <1>2 DEF Install, At, Idle
  <2>3. /\ tgt.cluster # 0 => c.conn.cluster = tgt.cluster
        /\ op[th].since = faults => \A s \in Servers : Writable(s) => s = c.conn.server
    BY ZenonT(60), <1>2, <2>1, <2>2 DEF IInv, ScanInv, Looked
  <2>4. tgt \in TargetStates
    BY ZenonT(60), <1>2 DEF IInv, ConnTypes
  <2>5. tgt'.cluster = c.conn.cluster /\ tgt'.print = <<c.conn.server, c.conn.start>>
    BY ZenonT(60), <1>2, <2>1, <2>4 DEF Install, TargetStates
  <2>6. tgt'.print[1] = c.conn.server
    BY SMTT(60), <2>5
  <2>7. \A x \in Threads \ {th} : op'[x] = op[x]
    BY ZenonT(60), <1>2 DEF IInv, ConnTypes, Install, Connected
  <2>8. ClusterKept
    BY ZenonT(60), <2>3, <2>5 DEF ClusterKept
  <2>9. AdoptedIsUnique
    <3> SUFFICES ASSUME NEW x \in Threads, op[x].pc = "install", op'[x].pc = "begin",
                        op[x].since = faults, NEW s \in Servers, srv[s].up /\ srv[s].writable
                 PROVE  s = tgt'.print[1]
      BY ZenonT(60) DEF AdoptedIsUnique, At
    <3>1. x = th
      BY ZenonT(60), <2>7
    <3> QED
      BY ZenonT(60), <2>3, <2>6, <3>1 DEF Writable
  <2> QED
    BY ZenonT(60), <2>8, <2>9
<1>3. ASSUME IInv, [ConnNext]_connVars PROVE [ClusterKept /\ AdoptedIsUnique]_connVars
  <2>1. ASSUME NEW th \in Threads, NEW x \in plan.starts, Start(th, x[1], x[2]) PROVE Untouched
    BY ZenonT(60), <1>3, <2>1, OneTouched DEF Start, At
  <2>2. ASSUME NEW s \in Servers, NEW kind \in plan.kinds, Fault(s, kind) PROVE Untouched
    <3>1. UNCHANGED <<tgt, op>>
      BY ZenonT(60), <2>2 DEF Fault, Change
    <3> QED
      BY ZenonT(60), <3>1 DEF Untouched
  <2>3. ASSUME NEW th \in Threads, Step(th) PROVE ClusterKept /\ AdoptedIsUnique
    <3>1. CASE Install(th)
      BY ZenonT(60), <1>2, <1>3, <3>1
    <3>2. CASE ~Install(th)
      BY ZenonT(60), <1>1, <1>3, <2>3, <3>2, OthersUntouched
    <3> QED
      BY ZenonT(60), <3>1, <3>2
  <2> QED
    BY ZenonT(60), <1>1, <1>3, <2>1, <2>2, <2>3 DEF ConnNext
<1>4. IInv /\ [ConnNext]_connVars => [ClusterKept /\ AdoptedIsUnique]_connVars
  BY ZenonT(60), <1>3
<1> QED
  BY <1>4, ConnectionInvariant, PTL DEF ConnSpec, AdoptedIsPrimary
=============================================================================
