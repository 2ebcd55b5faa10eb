------------------------------ MODULE Connections ------------------------------
(***************************************************************************)
(* The database connections of one mount (pg.rs): the pool with its two    *)
(* lanes, the admission gates of the transactions, the connection targets  *)
(* with their generations, and the promotion guard that moves a mount from *)
(* one PostgreSQL server to another.                                       *)
(*                                                                         *)
(* A step is one critical section of the pool, of a gate or of the target  *)
(* state, or one exchange with a server.  transition is the mutex that     *)
(* connect_new and mark_operation_connection_failure hold throughout.      *)
(***************************************************************************)
EXTENDS Integers, Sequences, FiniteSets

CONSTANTS Plans,       \* deployments, see the variable plan
          MaxThreads   \* threads of the mount

VARIABLES plan,        \* one of Plans, never changed:
                       \*   route    server behind every target, in order
                       \*   guard    runtime failover with promotion guard
                       \*   limit    connections of the pool
                       \*   gates    admission limit of each lane, 0 for none
                       \*   threads  number of threads that use the pool
                       \*   starts   operations: lane, and whether with a transaction
                       \*   ops      how many of them are started
                       \*   faults   how many changes the servers see
                       \*   kinds    and of which kinds
          srv,         \* servers: reachable, writable, cluster, start of the postmaster
          faults,      \* changes so far
          tgt,         \* DbRepoConnectionTargetState
          transition,  \* holder of the transition mutex
          pool,        \* cached connections of both lanes, live connections
          gates,       \* admission state of both lanes
          op,          \* the operation of every thread
          started      \* operations so far

connVars == <<plan, srv, faults, tgt, transition, pool, gates, op, started>>

Lanes == {"write", "control"}

\* The deployments the theorems are about.
ConnConstants ==
    /\ MaxThreads \in Nat
    /\ \A p \in Plans :
          /\ p.route \in Seq(STRING) /\ p.route # <<>>
          /\ p.guard \in BOOLEAN
          /\ p.limit \in Nat
          /\ p.gates \in [Lanes -> Nat]
          /\ p.starts \subseteq Lanes \X BOOLEAN

Other(lane) == IF lane = "write" THEN "control" ELSE "write"
Targets == 1..Len(plan.route)
Threads == 1..MaxThreads
Servers == {plan.route[t] : t \in Targets}
Unset == "none"
Idle == [pc |-> "idle"]

\* What probe_connection_target tells of a server.
Fingerprint(s) == <<s, srv[s].start>>
Alive(c) == srv[c.server].up /\ srv[c.server].start = c.start

ConnInit ==
    /\ plan \in Plans
    /\ srv = [s \in Servers |-> [up |-> TRUE, writable |-> s = plan.route[1],
                                 cluster |-> 1, start |-> 0]]
    /\ faults = 0
    /\ tgt = [active |-> 1, gen |-> 1, cluster |-> 0, print |-> <<>>,
              revalidate |-> FALSE, failed |-> 0, inflight |-> 0, pending |-> FALSE]
    /\ transition = 0
    /\ pool = [cached |-> [l \in Lanes |-> <<>>], live |-> 0]
    /\ gates = [l \in Lanes |-> [active |-> 0, waiters |-> <<>>]]
    /\ op = [th \in Threads |-> Idle]
    /\ started = 0

At(th, pc) == op[th].pc = pc
Goto(th, pc) == op' = [op EXCEPT ![th].pc = pc]

-----------------------------------------------------------------------------
\* with_connection on one lane; txn is set when the operation runs a transaction.
Start(th, lane, txn) ==
    /\ At(th, "idle")
    /\ th <= plan.threads
    /\ started < plan.ops
    /\ started' = started + 1
    /\ op' = [op EXCEPT ![th] = [pc |-> "generation", lane |-> lane, txn |-> txn, gen |-> 0,
                                 conn |-> Unset, replayed |-> FALSE, found |-> <<>>, seen |-> 0,
                                 since |-> 0, after |-> Unset, out |-> Unset]]
    /\ UNCHANGED <<plan, srv, faults, tgt, transition, pool, gates>>

ReadGeneration(th) ==
    /\ At(th, "generation")
    /\ op' = [op EXCEPT ![th] = [@ EXCEPT !.gen = tgt.gen, !.pc = "acquire"]]
    /\ UNCHANGED <<plan, srv, faults, tgt, transition, pool, gates, started>>

\* take_cached pops until a connection of the generation turns up.
Taken(list, g) ==
    LET fit == {i \in 1..Len(list) : list[i].gen = g}
    IN  IF fit = {} THEN 0 ELSE CHOOSE i \in fit : \A j \in fit : j <= i

Acquire(th) ==
    LET lane == op[th].lane
        own == pool.cached[lane]
        other == pool.cached[Other(lane)]
        i == Taken(own, op[th].gen)
        j == Taken(other, op[th].gen)
        afterOwn == pool.live - (Len(own) - i)
        afterBoth == afterOwn - (Len(other) - j)
    IN  /\ At(th, "acquire")
        /\ \/ /\ i > 0
              /\ pool' = [cached |-> [pool.cached EXCEPT ![lane] = SubSeq(own, 1, i - 1)],
                          live |-> afterOwn]
              /\ op' = [op EXCEPT ![th] = [@ EXCEPT !.pc = "begin", !.gen = 0, !.conn = own[i]]]
           \/ /\ i = 0 /\ j > 0
              /\ pool' = [cached |-> [pool.cached EXCEPT ![lane] = <<>>,
                                         ![Other(lane)] = SubSeq(other, 1, j - 1)],
                          live |-> afterBoth]
              /\ op' = [op EXCEPT ![th] = [@ EXCEPT !.pc = "begin", !.gen = 0, !.conn = other[j]]]
           \/ /\ i = 0 /\ j = 0 /\ afterBoth < plan.limit
              /\ pool' = [cached |-> [l \in Lanes |-> <<>>], live |-> afterBoth + 1]
              /\ op' = [op EXCEPT ![th] = [@ EXCEPT !.pc = "connect", !.gen = 0]]
           \/ /\ i = 0 /\ j = 0 /\ ~(afterBoth < plan.limit)
              /\ pool' = [cached |-> [l \in Lanes |-> <<>>], live |-> afterBoth]
              /\ Goto(th, "waiting")
        /\ UNCHANGED <<plan, srv, faults, tgt, transition, gates, started>>

\* Mutant: the condition variable is not signalled.
NotifyNobody(ops) == {ops}

\* notify_one wakes any of the threads that wait for a connection.
NotifyOne(ops) ==
    LET waiting == {th \in Threads : ops[th].pc = "waiting"}
    IN  IF waiting = {} THEN {ops} ELSE {[ops EXCEPT ![th].pc = "acquire"] : th \in waiting}

-----------------------------------------------------------------------------
\* connect_new
LockTransition(th) ==
    /\ At(th, "connect")
    /\ transition = 0
    /\ transition' = th
    /\ Goto(th, CASE ~plan.guard -> "try"
                  [] plan.guard /\ (tgt.revalidate \/ tgt.cluster = 0) -> "scan"
                  [] OTHER -> "probe")
    /\ UNCHANGED <<plan, srv, faults, tgt, pool, gates, started>>

Connection(t) ==
    LET s == plan.route[t]
    IN  [server |-> s, start |-> srv[s].start, cluster |-> srv[s].cluster, gen |-> tgt.gen]

Connected(th, c) ==
    /\ transition' = 0
    /\ op' = [op EXCEPT ![th] = [@ EXCEPT !.pc = "begin", !.conn = c, !.found = <<>>,
                                          !.since = 0, !.after = Unset]]

\* Without the guard there is one target, and a failure only ends the generation.
TryTarget(th) ==
    LET s == plan.route[tgt.active]
    IN  /\ At(th, "try")
        /\ IF srv[s].up
           THEN Connected(th, Connection(tgt.active)) /\ UNCHANGED tgt
           ELSE /\ tgt' = [tgt EXCEPT !.gen = @ + 1]
                /\ transition' = 0
                /\ Goto(th, "unconnected")
        /\ UNCHANGED <<plan, srv, faults, pool, gates, started>>

\* A new connection to the known primary, which must still be that server.
ProbeActive(th) ==
    LET s == plan.route[tgt.active]
        same == srv[s].cluster = tgt.cluster /\ Fingerprint(s) = tgt.print
    IN  /\ At(th, "probe")
        /\ CASE srv[s].up /\ srv[s].writable /\ same ->
                  Connected(th, Connection(tgt.active))
             [] srv[s].up /\ srv[s].writable /\ ~same ->
                  op' = [op EXCEPT ![th] = [@ EXCEPT !.pc = "revalidate", !.gen = tgt.gen,
                                                    !.after = "scan"]]
                  /\ UNCHANGED transition
             [] OTHER ->
                  op' = [op EXCEPT ![th] = [@ EXCEPT !.pc = "advance", !.gen = tgt.gen,
                                                    !.after = "scan"]]
                  /\ UNCHANGED transition
        /\ UNCHANGED <<plan, srv, faults, tgt, pool, gates, started>>

\* connect_primary_guarded looks at every target, one after the other, and keeps
\* the connections to those that are writable.
ScanTarget(th) ==
    LET t == op[th].seen + 1
        s == plan.route[t]
    IN  /\ At(th, "scan")
        /\ op' = [op EXCEPT ![th] =
                  [@ EXCEPT !.seen = IF t = Len(plan.route) THEN 0 ELSE t,
                            !.since = IF t = 1 THEN faults ELSE op[th].since,
                            !.found = IF srv[s].up /\ srv[s].writable
                                      THEN Append(op[th].found, [t |-> t, conn |-> Connection(t)])
                                      ELSE op[th].found,
                            !.pc = IF t = Len(plan.route) THEN "decide" ELSE "scan"]]
        /\ UNCHANGED <<plan, srv, faults, tgt, transition, pool, gates, started>>

\* Mutant: more than one writable server is no reason to refuse.
SafeAnyServer(found) ==
    /\ found # <<>>
    /\ \A i \in 1..Len(found) :
          found[i].conn.cluster = (IF tgt.cluster = 0 THEN found[1].conn.cluster ELSE tgt.cluster)

\* choose_safe_primary_candidate: one cluster, the known one, and one server.
Safe(found) ==
    /\ found # <<>>
    /\ \A i \in 1..Len(found) :
          /\ found[i].conn.cluster = (IF tgt.cluster = 0 THEN found[1].conn.cluster ELSE tgt.cluster)
          /\ found[i].conn.server = found[1].conn.server
          /\ found[i].conn.start = found[1].conn.start

\* The first candidate, but not the target that failed if there is another one.
Chosen(found) ==
    LET fresh == {i \in 1..Len(found) : found[i].t # tgt.failed}
    IN  IF fresh = {} THEN 1 ELSE CHOOSE i \in fresh : \A j \in fresh : i <= j

Decide(th) ==
    LET found == op[th].found
        c == found[Chosen(found)]
    IN  /\ At(th, "decide")
        /\ IF ~Safe(found)
           THEN /\ tgt' = [tgt EXCEPT !.revalidate = TRUE]
                /\ transition' = 0
                /\ op' = [op EXCEPT ![th] = [@ EXCEPT !.pc = "unconnected", !.found = <<>>,
                                                    !.since = 0]]
           ELSE /\ tgt' = [tgt EXCEPT !.pending = c.t # tgt.active /\ ~tgt.revalidate]
                /\ op' = [op EXCEPT ![th] = [@ EXCEPT !.pc = "install", !.found = <<c>>]]
                /\ UNCHANGED transition
        /\ UNCHANGED <<plan, srv, faults, pool, gates, started>>

\* The new primary takes effect, once the operations on the old one have ended.
Install(th) ==
    LET c == op[th].found[1]
        g == tgt.gen + (IF c.t # tgt.active /\ ~tgt.revalidate THEN 1 ELSE 0)
    IN  /\ At(th, "install")
        /\ (tgt.pending => tgt.inflight = 0)
        /\ tgt' = [tgt EXCEPT !.active = c.t, !.gen = g, !.cluster = c.conn.cluster,
                              !.print = <<c.conn.server, c.conn.start>>, !.revalidate = FALSE,
                              !.failed = 0, !.pending = FALSE]
        /\ Connected(th, [c.conn EXCEPT !.gen = g])
        /\ UNCHANGED <<plan, srv, faults, pool, gates, started>>

\* release_unconnected_slot
ReleaseUnconnectedSlot(th) ==
    /\ At(th, "unconnected")
    /\ pool' = [pool EXCEPT !.live = @ - 1]
    /\ op' \in NotifyOne([op EXCEPT ![th] = Idle])
    /\ UNCHANGED <<plan, srv, faults, tgt, transition, gates, started>>

-----------------------------------------------------------------------------
\* The end of a generation.  wait_for_primary_operations announces it, so that no
\* operation begins, and waits for those that have begun.
Announce(th) ==
    /\ op[th].pc \in {"advance", "revalidate"}
    /\ IF op[th].gen # tgt.gen
       THEN UNCHANGED tgt /\ op' = [op EXCEPT ![th] = [@ EXCEPT !.pc = op[th].after, !.gen = 0]]
       ELSE /\ tgt' = [tgt EXCEPT !.pending = plan.guard]
            /\ op' = [op EXCEPT ![th] = [@ EXCEPT !.pc = "fence", !.gen = 0]]
    /\ UNCHANGED <<plan, srv, faults, transition, pool, gates, started>>

\* Mutant: the generation ends under the operations that still run in it.
AdvanceUnfenced(th) ==
    /\ At(th, "fence")
    /\ tgt' = [tgt EXCEPT !.gen = @ + 1, !.revalidate = plan.guard,
                          !.failed = IF plan.guard THEN tgt.active ELSE 0,
                          !.pending = FALSE]
    /\ Goto(th, op[th].after)
    /\ UNCHANGED <<plan, srv, faults, transition, pool, gates, started>>

\* advance_after_failure, mark_primary_revalidation
AdvanceAfterFailure(th) ==
    /\ At(th, "fence")
    /\ (plan.guard => tgt.inflight = 0)
    /\ tgt' = [tgt EXCEPT !.gen = @ + 1, !.revalidate = plan.guard,
                          !.failed = IF plan.guard THEN tgt.active ELSE 0,
                          !.pending = FALSE]
    /\ Goto(th, op[th].after)
    /\ UNCHANGED <<plan, srv, faults, transition, pool, gates, started>>

\* mark_operation_connection_failure: the transition mutex around the above.
MarkOperationConnectionFailure(th) ==
    /\ At(th, "mark")
    /\ transition = 0
    /\ transition' = th
    /\ op' = [op EXCEPT ![th] = [@ EXCEPT !.pc = "advance", !.after = "replay"]]
    /\ UNCHANGED <<plan, srv, faults, tgt, pool, gates, started>>

Replay(th) ==
    /\ At(th, "replay")
    /\ transition' = 0
    /\ op' = [op EXCEPT ![th] = [@ EXCEPT !.pc = "generation", !.replayed = TRUE, !.conn = Unset,
                                        !.after = Unset, !.out = Unset]]
    /\ UNCHANGED <<plan, srv, faults, tgt, pool, gates, started>>

-----------------------------------------------------------------------------
\* begin_primary_operation
BeginOperation(th) ==
    /\ At(th, "begin")
    /\ IF ~plan.guard
       THEN UNCHANGED tgt /\ Goto(th, "run")
       ELSE /\ ~tgt.pending
            /\ IF tgt.gen # op[th].conn.gen
               THEN UNCHANGED tgt /\ Goto(th, "stale")
               ELSE tgt' = [tgt EXCEPT !.inflight = @ + 1] /\ Goto(th, "run")
    /\ UNCHANGED <<plan, srv, faults, transition, pool, gates, started>>

\* A connection of an earlier generation is dropped and the operation starts over.
ReturnStale(th) ==
    /\ At(th, "stale")
    /\ pool' = [pool EXCEPT !.live = @ - 1]
    /\ op' \in NotifyOne([op EXCEPT ![th] = [@ EXCEPT !.pc = "generation", !.conn = Unset]])
    /\ UNCHANGED <<plan, srv, faults, tgt, transition, gates, started>>

\* reserve_next_waiter: the oldest waiter is admitted if there is room.
ReserveNextWaiter(gate, limit) ==
    IF gate.active >= limit \/ gate.waiters = <<>> THEN gate
    ELSE [active |-> gate.active + 1, waiters |-> Tail(gate.waiters)]

\* The threads the gate has just admitted go on with their transaction.
Admit(lane, ops, gate) ==
    /\ gates' = [gates EXCEPT ![lane] = gate]
    /\ op' = [th \in Threads |->
                IF ops[th].pc = "queued" /\ ops[th].lane = lane
                   /\ \A i \in 1..Len(gate.waiters) : gate.waiters[i] # th
                THEN [ops[th] EXCEPT !.pc = "body"] ELSE ops[th]]

\* The operation itself; a transaction passes the gate of its lane first.
Run(th) ==
    LET lane == op[th].lane
    IN  /\ At(th, "run")
        /\ IF op[th].txn /\ plan.gates[lane] > 0
           THEN Admit(lane, [op EXCEPT ![th].pc = "queued"],
                      ReserveNextWaiter([gates[lane] EXCEPT !.waiters = Append(@, th)],
                                        plan.gates[lane]))
           ELSE Goto(th, "body") /\ UNCHANGED gates
        /\ UNCHANGED <<plan, srv, faults, tgt, transition, pool, started>>

\* It ends well, with an error, or with the loss of its connection; only the last
\* may be replayed, and not after a COMMIT whose outcome the caller must know.
Body(th, out) ==
    /\ At(th, "body")
    /\ (out \in {"ok"} => Alive(op[th].conn))
    /\ (out \in {"lost"} => ~Alive(op[th].conn))
    /\ op' = [op EXCEPT ![th] = [@ EXCEPT !.out = out, !.pc = "leave"]]
    /\ UNCHANGED <<plan, srv, faults, tgt, transition, pool, gates, started>>

\* The permit is dropped, which admits the next waiter.
LeaveGate(th) ==
    LET lane == op[th].lane
        to == IF op[th].out = "ok" THEN "return" ELSE "failed"
    IN  /\ At(th, "leave")
        /\ IF op[th].txn /\ plan.gates[lane] > 0
           THEN Admit(lane, [op EXCEPT ![th].pc = to],
                      ReserveNextWaiter([gates[lane] EXCEPT !.active = @ - 1], plan.gates[lane]))
           ELSE Goto(th, to) /\ UNCHANGED gates
        /\ UNCHANGED <<plan, srv, faults, tgt, transition, pool, started>>

\* A good connection goes back to its lane, unless its generation has ended.
ReturnCached(th) ==
    LET c == op[th].conn
    IN  /\ At(th, "return")
        /\ pool' = IF c.gen = tgt.gen
                   THEN [pool EXCEPT !.cached[op[th].lane] = Append(@, c)]
                   ELSE [pool EXCEPT !.live = @ - 1]
        /\ op' \in NotifyOne([op EXCEPT ![th].pc = "ended"])
        /\ UNCHANGED <<plan, srv, faults, tgt, transition, gates, started>>

\* release_failed_operation: a failed operation gives its connection up.
ReleaseFailedOperation(th) ==
    /\ At(th, "failed")
    /\ pool' = [pool EXCEPT !.live = @ - 1]
    /\ op' \in NotifyOne([op EXCEPT ![th].pc = "ended"])
    /\ UNCHANGED <<plan, srv, faults, tgt, transition, gates, started>>

\* finish_primary_operation, then the reply or the one replay of a lost connection.
EndOperation(th) ==
    /\ At(th, "ended")
    /\ tgt' = [tgt EXCEPT !.inflight = @ - (IF plan.guard THEN 1 ELSE 0)]
    /\ op' = [op EXCEPT ![th] =
                IF op[th].out = "lost" /\ ~op[th].replayed
                THEN [op[th] EXCEPT !.pc = "mark", !.gen = op[th].conn.gen]
                ELSE Idle]
    /\ UNCHANGED <<plan, srv, faults, transition, pool, gates, started>>

-----------------------------------------------------------------------------
\* The servers: loss of contact, contact again, restart, promotion, demotion, and
\* a server of another cluster in the place of one.
Change(s, new) ==
    /\ faults < plan.faults
    /\ new # srv[s]
    /\ faults' = faults + 1
    /\ srv' = [srv EXCEPT ![s] = new]
    /\ UNCHANGED <<plan, tgt, transition, pool, gates, op, started>>

Fault(s, kind) ==
    \/ kind = "contact" /\ Change(s, [srv[s] EXCEPT !.up = ~@])
    \/ kind = "restart" /\ Change(s, [srv[s] EXCEPT !.up = TRUE, !.start = @ + 1])
    \/ kind = "promote" /\ Change(s, [srv[s] EXCEPT !.writable = TRUE])
    \/ kind = "demote" /\ Change(s, [srv[s] EXCEPT !.writable = FALSE, !.start = @ + 1])
    \/ kind = "replace" /\ Change(s, [srv[s] EXCEPT !.cluster = 2, !.writable = TRUE,
                                                    !.start = @ + 1])

Step(th) ==
    \/ ReadGeneration(th) \/ Acquire(th) \/ LockTransition(th) \/ TryTarget(th)
    \/ ProbeActive(th) \/ ScanTarget(th) \/ Decide(th) \/ Install(th)
    \/ ReleaseUnconnectedSlot(th) \/ Announce(th) \/ AdvanceAfterFailure(th)
    \/ MarkOperationConnectionFailure(th) \/ Replay(th) \/ BeginOperation(th)
    \/ ReturnStale(th) \/ Run(th) \/ LeaveGate(th) \/ ReturnCached(th)
    \/ ReleaseFailedOperation(th) \/ EndOperation(th)
    \/ \E out \in {"ok", "error", "lost"} : Body(th, out)

ConnNext ==
    \/ \E th \in Threads :
          \/ \E x \in plan.starts : Start(th, x[1], x[2])
          \/ Step(th)
    \/ \E s \in Servers, kind \in plan.kinds : Fault(s, kind)

\* Threads run, mutexes are handed on, and an operation ends: a dead connection is
\* reported by TCP, a live server answers.
ConnFairness == \A th \in Threads : WF_connVars(Step(th)) /\ SF_connVars(LockTransition(th))

ConnSpec == ConnInit /\ [][ConnNext]_connVars /\ ConnFairness

-----------------------------------------------------------------------------
Holding(th) == op[th].pc \in {"connect", "try", "probe", "scan", "decide", "install", "unconnected",
                              "begin", "stale", "run", "queued", "body", "leave", "return", "failed"}
               \/ (op[th].pc \in {"advance", "revalidate", "fence"} /\ op[th].after = "scan")
InFlight(th) == op[th].pc \in {"run", "queued", "body", "leave", "return", "failed", "ended"}

ConnTypeOK ==
    /\ tgt.active \in Targets /\ tgt.gen \in Nat /\ tgt.inflight \in 0..Cardinality(Threads)
    /\ pool.live \in 0..plan.limit
    /\ transition \in Threads \cup {0}

\* The operations that run at one moment all run on one server, the recorded
\* primary of the recorded cluster, as it was when it was validated: the fence lets
\* none of the old primary outlive the switch to another (begin_primary_operation,
\* wait_for_primary_operations).
OneServerInFlight ==
    plan.guard =>
        \A th \in Threads : InFlight(th) =>
            /\ op[th].conn.gen = tgt.gen
            /\ <<op[th].conn.server, op[th].conn.start>> = tgt.print
            /\ op[th].conn.cluster = tgt.cluster

\* A mount never leaves the cluster it was first connected to.
ClusterKept == tgt.cluster # 0 => tgt'.cluster = tgt.cluster

\* A mount adopts a server only as the one that is writable: if the servers did not
\* change while it looked at them, no other one could be reached and written
\* (choose_safe_primary_candidate).
AdoptedIsUnique ==
    \A th \in Threads :
        At(th, "install") /\ op'[th].pc = "begin" /\ op[th].since = faults =>
            \A s \in Servers : srv[s].up /\ srv[s].writable => s = tgt'.print[1]

\* A mount never leaves the cluster it was first connected to, and adopts a server only
\* as the one of it that can be reached and written.
AdoptedIsPrimary == [][ClusterKept /\ AdoptedIsUnique]_connVars

\* The pool counts exactly the connections that are cached or held, and nobody
\* waits for one while one could be had (notify_one at every release).
PoolExact ==
    LET held == Cardinality({th \in Threads : Holding(th)})
        idle == Len(pool.cached["write"]) + Len(pool.cached["control"])
    IN  /\ pool.live = held + idle
        /\ (\E th \in Threads : At(th, "waiting")) =>
              held = plan.limit \/ \E th \in Threads : At(th, "acquire")

\* A gate admits no more transactions than its limit and lets nobody wait below it.
AdmissionExact ==
    \A lane \in Lanes :
        LET inside == {th \in Threads : op[th].pc \in {"body", "leave"} /\ op[th].lane = lane
                                        /\ op[th].txn}
        IN  plan.gates[lane] > 0 =>
              /\ gates[lane].active = Cardinality(inside)
              /\ gates[lane].active <= plan.gates[lane]
              /\ gates[lane].waiters # <<>> => gates[lane].active = plan.gates[lane]

\* The pool counts exactly the connections that are cached or held, a gate admits no more
\* transactions than its limit, and nobody waits for either while one could be had
\* (notify_one at every release, reserve_next_waiter).
CountsExact == PoolExact /\ AdmissionExact

\* Every operation ends: the fence, the transition mutex, the pool and the gates
\* are never all waiting for one another, whatever the servers do.
OperationsFinish == \A th \in Threads : ~At(th, "idle") ~> At(th, "idle")
=============================================================================
