------------------------------ MODULE ReplicaReads ------------------------------
(***************************************************************************)
(* Reads from replicas (with_read_connection in pg.rs): the WAL position a *)
(* replica must have replayed before it may answer, the choice between the *)
(* replicas with its circuit breakers, and the fall back to the primary.   *)
(*                                                                         *)
(* WAL positions are counted in commits.  The pool of the primary and its  *)
(* failover are in module Connections; here the primary always answers.    *)
(***************************************************************************)
EXTENDS Integers, Sequences, FiniteSets

CONSTANTS Routes,      \* deployments, see the variable route
          MaxWorkers,  \* threads of the mount
          Threshold    \* REPLICA_CIRCUIT_BREAKER_FAILURE_THRESHOLD

VARIABLES route,       \* one of Routes, never changed:
                       \*   workers   threads that read and write
                       \*   replicas  number of replica targets
                       \*   faults    failures of connections and statements
                       \*   remote    commits of other mounts happen
                       \*   lsn       the last commit
                       \*   gens      generation in which no read starts and no score moves the mount
          wal,         \* pg_current_wal_lsn of the primary
          replayed,    \* pg_last_wal_replay_lsn of every replica
          barrier,     \* ReplicaReadConsistencyState: required LSN (0 for none), force_primary
          rt,          \* DbRepoConnectionTargetState of the replicas
          idle,        \* cached connections of the replica pool
          job,         \* what every thread does
          done,        \* WAL position of the last acknowledged write
          owed,        \* what was acknowledged when the position in force was asked for
          failures     \* faults so far

routeVars == <<route, wal, replayed, barrier, rt, idle, job, done, owed, failures>>

\* What the results below assume of the constants.
RouteConstants ==
    /\ Routes \subseteq [workers : Nat, replicas : Nat \ {0}, faults : Nat, remote : BOOLEAN,
                         lsn : Nat \ {0}, gens : Nat]
    /\ MaxWorkers \in Nat
    /\ Threshold \in Nat \ {0}

Workers == 1..MaxWorkers
Replicas == 1..route.replicas
Free == [pc |-> "free"]
Healthy == [failures |-> 0, open |-> FALSE]

RouteInit ==
    /\ route \in Routes
    /\ wal = 1
    /\ replayed = [t \in Replicas |-> 1]
    /\ barrier = [lsn |-> 0, force |-> FALSE]
    /\ rt = [active |-> 1, gen |-> 1, metric |-> [t \in Replicas |-> Healthy]]
    /\ idle = <<>>
    /\ job = [w \in Workers |-> Free]
    /\ done = 0
    /\ owed = 0
    /\ failures = 0

In(w, pc) == job[w].pc = pc
Become(w, pc) == job' = [job EXCEPT ![w].pc = pc]

Fails == failures < route.faults /\ failures' = failures + 1

-----------------------------------------------------------------------------
\* A write: a commit on the primary, then its position is asked for ...
Asking(wrote) == [pc |-> "capture", wrote |-> wrote, lsn |-> 0, base |-> 0]

StartWrite(w) ==
    /\ In(w, "free")
    /\ w <= route.workers
    /\ wal < route.lsn
    /\ wal' = wal + 1
    /\ job' = [job EXCEPT ![w] = Asking(wal + 1)]
    /\ UNCHANGED <<route, replayed, barrier, rt, idle, done, owed, failures>>

\* ... as after any other statement of the Write lane, such as the one by which
\* the reload thread looks for runtime overrides every two seconds.
StartStatement(w) ==
    /\ In(w, "free")
    /\ w <= route.workers
    /\ job' = [job EXCEPT ![w] = Asking(0)]
    /\ UNCHANGED <<route, wal, replayed, barrier, rt, idle, done, owed, failures>>

Acknowledged(w) == IF job[w].wrote > done THEN job[w].wrote ELSE done

\* refresh_primary_wal_lsn: the statement.  base is what the answer is sure to
\* cover: the own commit, and what had been acknowledged when it was asked for.
CaptureLsn(w) ==
    /\ In(w, "capture")
    /\ \/ /\ job' = [job EXCEPT ![w].pc = "record", ![w].lsn = wal, ![w].base = Acknowledged(w)]
          /\ UNCHANGED failures
       \/ job' = [job EXCEPT ![w].pc = "record", ![w].lsn = 0] /\ Fails
    /\ UNCHANGED <<route, wal, replayed, barrier, rt, idle, done, owed>>

\* Mutant: a failed capture leaves the old barrier in force.
RecordKeepsBarrier(w) ==
    /\ In(w, "record")
    /\ barrier' = IF job[w].lsn > 0 THEN [lsn |-> job[w].lsn, force |-> FALSE] ELSE barrier
    /\ owed' = IF job[w].lsn > 0 THEN job[w].base ELSE Acknowledged(w)
    /\ job' = [job EXCEPT ![w] = Free]
    /\ done' = Acknowledged(w)
    /\ UNCHANGED <<route, wal, replayed, rt, idle, failures>>

\* and the barrier: the position, whatever the barrier was, or the primary only if
\* it is not known.  Then the operation is answered.
RecordLsn(w) ==
    /\ In(w, "record")
    /\ barrier' = IF job[w].lsn > 0 THEN [lsn |-> job[w].lsn, force |-> FALSE]
                                    ELSE [barrier EXCEPT !.force = TRUE]
    /\ owed' = IF job[w].lsn > 0 THEN job[w].base ELSE Acknowledged(w)
    /\ job' = [job EXCEPT ![w] = Free]
    /\ done' = Acknowledged(w)
    /\ UNCHANGED <<route, wal, replayed, rt, idle, failures>>

-----------------------------------------------------------------------------
\* What the barrier stands for, now or once a position on its way is recorded.
Positions == {owed} \cup {job[v].base : v \in {v \in Workers : In(v, "record") /\ job[v].lsn > 0}}

\* with_read_connection.  floor is what the mount has acknowledged so far, owed the
\* least that any barrier in force from now on stands for.
StartRouted(w) ==
    /\ In(w, "free")
    /\ w <= route.workers
    /\ rt.gen < route.gens
    /\ \E least \in Positions :
          /\ \A p \in Positions : least <= p
          /\ job' = [job EXCEPT ![w] = [pc |-> IF barrier.force THEN "primary" ELSE "prepare",
                                        floor |-> done, owed |-> least, required |-> 0, slipped |-> FALSE,
                                        tries |-> 0, attempts |-> 0, gen |-> 0, conn |-> [t |-> 0, gen |-> 0]]]
    /\ UNCHANGED <<route, wal, replayed, barrier, rt, idle, done, owed, failures>>

\* A loaded replica pool sends the read to the primary.
PreferPrimary(w) ==
    /\ In(w, "prepare")
    /\ job[w].tries = 0
    /\ Become(w, "primary")
    /\ UNCHANGED <<route, wal, replayed, barrier, rt, idle, done, owed, failures>>

Usable(r, t) == ~r.metric[t].open

\* select_scored_replica_locked: the best replica that is not cooling down; scores
\* follow latencies, so any of them may be the best.  Forced, or with the current one
\* cooling down, the mount moves to it; else it may also stay (hysteresis).
Selections(r, excludeCurrent, force) ==
    LET best == {t \in Replicas : Usable(r, t) /\ (excludeCurrent => t # r.active)}
        moved == {[r EXCEPT !.active = t, !.gen = @ + 1] : t \in best \ {r.active}}
    IN  CASE (force \/ ~Usable(r, r.active)) /\ best # {} -> moved
          [] ~force /\ Usable(r, r.active) /\ r.gen < route.gens -> moved \cup {r}
          [] OTHER -> {r}

\* prepare_scored_replica
Prepare(w) ==
    /\ In(w, "prepare")
    /\ IF job[w].tries = route.replicas
       THEN UNCHANGED rt /\ Become(w, "primary")
       ELSE /\ rt' \in Selections(rt, FALSE, FALSE)
            /\ job' = [job EXCEPT ![w].pc = IF Usable(rt', rt'.active) THEN "acquire" ELSE "primary",
                                  ![w].gen = rt'.gen, ![w].tries = @ + 1]
    /\ UNCHANGED <<route, wal, replayed, barrier, idle, done, owed, failures>>

\* A cached connection of the generation; those popped before it are closed.
AcquireReplica(w) ==
    LET fit == {i \in 1..Len(idle) : idle[i].gen = job[w].gen}
        i == CHOOSE i \in fit : \A j \in fit : j <= i
    IN  /\ In(w, "acquire")
        /\ IF fit = {}
           THEN idle' = <<>> /\ job' = [job EXCEPT ![w].pc = "connect", ![w].gen = 0]
           ELSE /\ idle' = SubSeq(idle, 1, i - 1)
                /\ job' = [job EXCEPT ![w].pc = "check", ![w].gen = 0, ![w].conn = idle[i]]
        /\ UNCHANGED <<route, wal, replayed, barrier, rt, done, owed, failures>>

\* record_failure, and the breaker that opens at the threshold
Failed(m) == [failures |-> IF m.failures < Threshold THEN m.failures + 1 ELSE m.failures,
              open |-> m.open \/ m.failures + 1 >= Threshold]

\* advance_after_failure: a new generation, and another replica if there is one.
AdvanceReplica(r, g) ==
    IF r.gen # g THEN {r}
    ELSE {[x EXCEPT !.gen = g + 1] : x \in Selections([r EXCEPT !.metric[r.active] = Failed(@)], TRUE, TRUE)}

\* connect_new under the transition mutex: the choice is made again, and every
\* target is tried at most once.
ConnectReplica(w) ==
    /\ In(w, "connect")
    /\ \E r \in Selections(rt, FALSE, FALSE) :
          \/ /\ Usable(r, r.active)
             /\ rt' = [r EXCEPT !.metric[r.active] = Healthy]
             /\ job' = [job EXCEPT ![w].pc = "check", ![w].attempts = 0,
                                   ![w].conn = [t |-> r.active, gen |-> r.gen]]
             /\ UNCHANGED failures
          \/ /\ Usable(r, r.active)
             /\ Fails
             /\ rt' \in AdvanceReplica(r, r.gen)
             /\ IF job[w].attempts + 1 = route.replicas THEN Become(w, "primary")
                ELSE job' = [job EXCEPT ![w].attempts = @ + 1]
          \/ ~Usable(r, r.active) /\ rt' = r /\ Become(w, "primary") /\ UNCHANGED failures
    /\ UNCHANGED <<route, wal, replayed, barrier, idle, done, owed>>

\* A lagging connection is given back; another replica is tried if the lag moved
\* the mount to one (record_replica_replay), else the primary answers.
Lagging(w) ==
    LET c == job[w].conn
    IN  /\ rt' \in IF rt.gen = c.gen THEN Selections(rt, TRUE, TRUE) ELSE {rt}
        /\ idle' = IF rt'.gen = c.gen THEN Append(idle, c) ELSE idle
        /\ job' = [job EXCEPT ![w].conn = [t |-> 0, gen |-> 0],
                              ![w].pc = IF rt'.active # rt.active THEN "prepare" ELSE "primary"]

\* replica_is_caught_up: a look whether the primary is forced, a look at the required
\* position, which is none when the primary has been forced in between, and the
\* position of the replica, which is asked for only if one is required.
LookForced(w) ==
    /\ In(w, "check")
    /\ IF barrier.force THEN Lagging(w) ELSE Become(w, "require") /\ UNCHANGED <<rt, idle>>
    /\ UNCHANGED <<route, wal, replayed, barrier, done, owed, failures>>

Required == IF barrier.force THEN 0 ELSE barrier.lsn

LookRequired(w) ==
    /\ In(w, "require")
    /\ job' = [job EXCEPT ![w].pc = IF Required = 0 THEN "query" ELSE "compare",
                          ![w].required = Required, ![w].slipped = barrier.force]
    /\ UNCHANGED <<route, wal, replayed, barrier, rt, idle, done, owed, failures>>

CompareReplay(w) ==
    /\ In(w, "compare")
    /\ IF replayed[job[w].conn.t] >= job[w].required
       THEN Become(w, "query") /\ UNCHANGED <<rt, idle>>
       ELSE Lagging(w)
    /\ UNCHANGED <<route, wal, replayed, barrier, done, owed, failures>>

\* The statement on the replica, which answers the read ...
QueryReplica(w) ==
    LET c == job[w].conn
    IN  /\ In(w, "query")
        /\ idle' = IF c.gen = rt.gen THEN Append(idle, c) ELSE idle
        /\ rt' = IF c.gen = rt.gen THEN [rt EXCEPT !.metric[rt.active] = Healthy] ELSE rt
        /\ job' = [job EXCEPT ![w] = [pc |-> "answered", lsn |-> replayed[c.t], floor |-> job[w].floor,
                                      owed |-> job[w].owed, slipped |-> job[w].slipped]]
        /\ UNCHANGED <<route, wal, replayed, barrier, done, owed, failures>>

\* ... or fails, as the check of its position may; then the next one is tried.
ReplicaFails(w) ==
    /\ job[w].pc \in {"compare", "query"}
    /\ Fails
    /\ rt' \in AdvanceReplica(rt, job[w].conn.gen)
    /\ job' = [job EXCEPT ![w].pc = "prepare", ![w].conn = [t |-> 0, gen |-> 0]]
    /\ UNCHANGED <<route, wal, replayed, barrier, idle, done, owed>>

\* The primary answers; the operation refreshes the barrier like any other.
QueryPrimary(w) ==
    /\ In(w, "primary")
    /\ job' = [job EXCEPT ![w] = Asking(0)]
    /\ UNCHANGED <<route, wal, replayed, barrier, rt, idle, done, owed, failures>>

EndRouted(w) ==
    /\ In(w, "answered")
    /\ job' = [job EXCEPT ![w] = Free]
    /\ UNCHANGED <<route, wal, replayed, barrier, rt, idle, done, owed, failures>>

-----------------------------------------------------------------------------
\* Other mounts commit, replicas replay, and breakers close after their cooldown.
OtherCommit ==
    /\ route.remote
    /\ wal < route.lsn
    /\ wal' = wal + 1
    /\ UNCHANGED <<route, replayed, barrier, rt, idle, job, done, owed, failures>>

ReplicaReplays(t) ==
    /\ replayed[t] < wal
    /\ replayed' = [replayed EXCEPT ![t] = @ + 1]
    /\ UNCHANGED <<route, wal, barrier, rt, idle, job, done, owed, failures>>

CoolDown(t) ==
    /\ rt.metric[t].open
    /\ rt' = [rt EXCEPT !.metric[t].open = FALSE]
    /\ UNCHANGED <<route, wal, replayed, barrier, idle, job, done, owed, failures>>

RouteNext ==
    \/ \E w \in Workers :
          \/ StartWrite(w) \/ StartStatement(w) \/ CaptureLsn(w) \/ RecordLsn(w)
          \/ StartRouted(w) \/ PreferPrimary(w) \/ Prepare(w) \/ AcquireReplica(w)
          \/ ConnectReplica(w) \/ LookForced(w) \/ LookRequired(w) \/ CompareReplay(w) \/ QueryReplica(w) \/ ReplicaFails(w)
          \/ QueryPrimary(w) \/ EndRouted(w)
    \/ OtherCommit
    \/ \E t \in Replicas : ReplicaReplays(t) \/ CoolDown(t)

RouteSpec == RouteInit /\ [][RouteNext]_routeVars

-----------------------------------------------------------------------------
RouteTypeOK ==
    /\ wal \in 1..route.lsn /\ done \in 0..wal /\ barrier.lsn \in 0..wal
    /\ rt.active \in Replicas

\* Read-after-write, as conclusions.md promises it: a read never returns less than the
\* mount had acknowledged when it began, however many threads move the barrier
\* (ReplicaReadConsistency, with_read_connection).
AnswersCurrent ==
    \A w \in Workers : In(w, "answered") => job[w].lsn >= job[w].floor

\* What the barrier gives with any number of threads: a read from a replica sees
\* every write that was acknowledged before the position it was held against was asked
\* for (refresh_primary_wal_lsn), and none is asked while that position is unknown,
\* unless the primary is forced between the two looks of replica_is_caught_up.
AnswersOwed ==
    \A w \in Workers : In(w, "answered") /\ ~job[w].slipped => job[w].lsn >= job[w].owed

InUse == {"check", "require", "compare", "query"}

\* The connections that are cached, and those a thread has in use.
OpenConns ==
    {idle[i] : i \in 1..Len(idle)} \cup {job[w].conn : w \in {w \in Workers : job[w].pc \in InUse}}

\* The connections of one generation all lead to one replica, the active one while
\* the generation lasts: lag and failures are charged to the replica that had them
\* (prepare_scored_replica, record_replica_replay, advance_after_failure).
GenerationOneReplica ==
    \A c \in OpenConns :
        /\ (c.gen = rt.gen => c.t = rt.active)
        /\ \A d \in OpenConns : d.gen = c.gen => d.t = c.t

\* With any number of threads the barrier holds for every read from a replica, and lag
\* is charged to the replica that had it.
BarrierHonoured == GenerationOneReplica /\ AnswersOwed
=============================================================================
