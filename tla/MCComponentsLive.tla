--------------------------- MODULE MCComponentsLive ---------------------------
(***************************************************************************)
(* Liveness of the components of MCComponents, on fewer and smaller        *)
(* deployments, under the fairness each component states.                  *)
(***************************************************************************)
EXTENDS Integers, Sequences, FiniteSets

CONSTANTS
    Hidden,  \* a name .fod-unlinked-...
    NoRow    \* no row, no transaction

VARIABLES part,
    setup, db, epoch, cacheEpoch, gate, cache, recent, limit, reload, flights, rd, wr, changes, acked, settled,
    plan, srv, faults, tgt, transition, pool, gates, op, started,
    lockConf, leases, edges, session, up, mirror, lockOwners, call, beat, lockFaults, held,
    import, source, planRow, planLock, dirs, made, aliases, importer, cleaning, mishaps,
    file, links, linkSeq, sessionTtl, lease, tx, running, handle, serving, todo, lapsed,
    adm, schema, standby, tool, mount, clients, touched, trouble

-----------------------------------------------------------------------------
CacheBase == [files |-> {1}, last |-> 0, lru |-> FALSE, direct |-> FALSE, reads |-> {<<0, 0>>},
              limits |-> {1}, reloads |-> 1, writers |-> {"w1"}, changes |-> 1, kinds |-> {"flush", "punch"},
              remote |-> FALSE]
CacheSetups == {CacheBase}

ConnBase == [route |-> <<"a", "b">>, guard |-> TRUE, limit |-> 2, threads |-> 2,
             gates |-> [write |-> 0, control |-> 0], starts |-> {<<"write", TRUE>>}, ops |-> 2,
             faults |-> 2, kinds |-> {}]
BothLanes == {<<"write", TRUE>>, <<"control", TRUE>>}
ConnPlans ==
    {[ConnBase EXCEPT !.kinds = {"contact", "promote"}],
     [ConnBase EXCEPT !.kinds = {"promote", "demote"}, !.limit = 1],
     [ConnBase EXCEPT !.threads = 3, !.gates = [write |-> 1, control |-> 1], !.starts = BothLanes,
                      !.faults = 0, !.ops = 3]}

Lock(typ, start, end, wait) == [typ |-> typ, file |-> "f", start |-> start, end |-> end, wait |-> wait]
Byte(n) == Lock("W", n, n, TRUE)
LockBase == [mount |-> [p1 |-> "m1", p2 |-> "m2"], process |-> [p1 |-> 1, p2 |-> 2], threads |-> 1,
             requests |-> [p1 |-> {Byte(0), Byte(1)}, p2 |-> {Byte(0), Byte(1)}],
             clock |-> "none", closes |-> TRUE, crash |-> FALSE, faults |-> 0, interrupts |-> FALSE]
LockSetups ==
    {LockBase,
     [LockBase EXCEPT !.threads = 2, !.interrupts = TRUE,
                      !.requests = [p1 |-> {Byte(0)}, p2 |-> {Byte(0)}]]}

\* An import of two files with a crash, a lost connection and an edit; an operator who
\* keeps asking for the cleanup until it is done.
ImportSetups ==
    {[data |-> [a |-> "x", b |-> "x"], edits |-> {"y"}, persistent |-> TRUE,
      mishaps |-> [edits |-> 1, links |-> 0, faults |-> 1, crashes |-> 1, cleanups |-> 0]]}

\* An upgrade that is killed twice, against a mount that may register and go; the last
\* migration can be applied again, or not.
AdmSetups ==
    {[replica |-> FALSE, from |-> 1, needs |-> <<1, 3>>, once |-> once, lease |-> 3,
      tools |-> [a |-> [action |-> "upgrade", ver |-> 2, password |-> "pw"]],
      mounts |-> [x |-> [ver |-> 1, role |-> "primary", degraded |-> FALSE]],
      trouble |-> [deaths |-> 2, lost |-> 0, pauses |-> 0, outages |-> 0, reachable |-> TRUE]] :
     once \in {{}, {3}}}

cacheVars == <<setup, db, epoch, cacheEpoch, gate, cache, recent, limit, reload, flights, rd, wr,
               changes, acked, settled>>
connVars == <<plan, srv, faults, tgt, transition, pool, gates, op, started>>
lockVars == <<lockConf, leases, edges, session, up, mirror, lockOwners, call, beat, lockFaults, held>>
importVars == <<import, source, planRow, planLock, dirs, made, aliases, importer, cleaning, mishaps>>
fileVars == <<file, links, linkSeq, sessionTtl, lease, tx, running, handle, serving, todo, lapsed>>
admVars == <<adm, schema, standby, tool, mount, clients, touched, trouble>>
vars == <<part, cacheVars, connVars, lockVars, importVars, fileVars, admVars>>

Readers == {"r1", "r2"}
RC == INSTANCE ReadCache WITH Writers <- {"w1"}, Setups <- CacheSetups, MaxCommits <- 1
CN == INSTANCE Connections WITH Plans <- ConnPlans, MaxThreads <- 3
PL == INSTANCE PosixLocks WITH Deployments <- LockSetups, Ttl <- 2, MaxByte <- 1
MT == INSTANCE Materialization WITH Imports <- ImportSetups, Order <- <<"a", "b">>,
    Under <- [a |-> ".", b |-> "d"], Operators <- {"o"}
LC == INSTANCE FileLifecycle WITH Mounts <- {"m1", "m2"}, Survivors <- {"m1"},
    Keepers <- {"m1"}, Names <- {"a"}, MaxFiles <- 1, MaxLinks <- 0, Handles <- {"h"}, TTL <- 1,
    None <- NoRow, session <- sessionTtl, up <- running, call <- serving
SA == INSTANCE SchemaAdmission

-----------------------------------------------------------------------------
CacheOff ==
    /\ setup = "off" /\ db = "off" /\ epoch = "off" /\ cacheEpoch = "off" /\ gate = "off"
    /\ cache = "off" /\ recent = "off" /\ limit = "off" /\ reload = "off" /\ flights = "off"
    /\ rd = "off" /\ wr = "off" /\ changes = "off" /\ acked = "off" /\ settled = "off"
ConnOff ==
    /\ plan = "off" /\ srv = "off" /\ faults = "off" /\ tgt = "off" /\ transition = "off"
    /\ pool = "off" /\ gates = "off" /\ op = "off" /\ started = "off"
LockOff ==
    /\ lockConf = "off" /\ leases = "off" /\ edges = "off" /\ session = "off" /\ up = "off"
    /\ mirror = "off" /\ lockOwners = "off" /\ call = "off" /\ beat = "off" /\ lockFaults = "off"
    /\ held = "off"
ImportOff ==
    /\ import = "off" /\ source = "off" /\ planRow = "off" /\ planLock = "off" /\ dirs = "off"
    /\ made = "off" /\ aliases = "off" /\ importer = "off" /\ cleaning = "off" /\ mishaps = "off"
FileOff ==
    /\ file = "off" /\ links = "off" /\ linkSeq = "off" /\ sessionTtl = "off" /\ lease = "off"
    /\ tx = "off" /\ running = "off" /\ handle = "off" /\ serving = "off" /\ todo = "off"
    /\ lapsed = "off"
AdmOff ==
    /\ adm = "off" /\ schema = "off" /\ standby = "off" /\ tool = "off" /\ mount = "off"
    /\ clients = "off" /\ touched = "off" /\ trouble = "off"

Init ==
    \/ part = "cache" /\ RC!CacheInit /\ ConnOff /\ LockOff /\ ImportOff /\ FileOff /\ AdmOff
    \/ part = "connections" /\ CN!ConnInit /\ CacheOff /\ LockOff /\ ImportOff /\ FileOff /\ AdmOff
    \/ part = "locks" /\ PL!LockInit /\ CacheOff /\ ConnOff /\ ImportOff /\ FileOff /\ AdmOff
    \/ part = "import" /\ MT!ImportInit /\ CacheOff /\ ConnOff /\ LockOff /\ FileOff /\ AdmOff
    \/ part = "lifecycle" /\ LC!Init /\ CacheOff /\ ConnOff /\ LockOff /\ ImportOff /\ AdmOff
    \/ part = "admission" /\ SA!Init(AdmSetups) /\ CacheOff /\ ConnOff /\ LockOff /\ ImportOff /\ FileOff

Next ==
    \/ part = "cache" /\ RC!CacheNext /\ UNCHANGED <<part, connVars, lockVars, importVars, fileVars, admVars>>
    \/ part = "connections" /\ CN!ConnNext /\ UNCHANGED <<part, cacheVars, lockVars, importVars, fileVars, admVars>>
    \/ part = "locks" /\ PL!LockNext /\ UNCHANGED <<part, cacheVars, connVars, importVars, fileVars, admVars>>
    \/ part = "import" /\ MT!ImportNext /\ UNCHANGED <<part, cacheVars, connVars, lockVars, fileVars, admVars>>
    \/ part = "lifecycle" /\ LC!Next /\ UNCHANGED <<part, cacheVars, connVars, lockVars, importVars, admVars>>
    \/ part = "admission" /\ SA!Next /\ UNCHANGED <<part, cacheVars, connVars, lockVars, importVars, fileVars>>

\* The strongly fair steps, numbered: a behaviour has one part only, so that steps of
\* different parts under one number are never enabled in the same behaviour.
Insistent(n) ==
    \/ part = "connections" /\ n <= 3 /\ CN!LockTransition(n) /\ UNCHANGED <<lockVars, fileVars>>
    \/ part = "locks" /\ n <= 2 /\ PL!TryUndisturbed(<<"p1", "p2">>[n]) /\ UNCHANGED <<connVars, fileVars>>
    \/ part = "locks" /\ n > 2 /\ PL!RegisterUndisturbed(<<"p1", "p2">>[n - 2]) /\ UNCHANGED <<connVars, fileVars>>
    \/ part = "lifecycle" /\ n = 1 /\ LC!PurgeOrphan("m1") /\ UNCHANGED <<connVars, lockVars>>
    \/ part = "lifecycle" /\ n = 2 /\ LC!Remove(<<"m1", "maintenance">>) /\ UNCHANGED <<connVars, lockVars>>
    \/ part = "lifecycle" /\ n = 3 /\ LC!Commit(<<"m1", "maintenance">>) /\ UNCHANGED <<connVars, lockVars>>

Fairness ==
    /\ \A r \in Readers : WF_cacheVars(part = "cache" /\ RC!ReadStep(r))
    /\ WF_cacheVars(part = "cache" /\ RC!ChangeStep("w1"))
    /\ WF_cacheVars(part = "cache" /\ RC!InvalidateAll)
    /\ \A th \in 1..3 : WF_connVars(part = "connections" /\ CN!Step(th))
    /\ \A c \in {"p1", "p2"} : WF_lockVars(part = "locks" /\ PL!RequestStep(c))
    /\ \A n \in 1..4 : SF_<<connVars, lockVars, fileVars>>(Insistent(n))
    /\ WF_importVars(part = "import" /\ MT!ImporterLives)
    /\ WF_importVars(part = "import" /\ MT!LeaseLeft)
    /\ WF_importVars(part = "import" /\ MT!CleanupGoesOn("o"))
    /\ WF_fileVars(part = "lifecycle" /\ LC!Tick)
    /\ \A m \in {"m1", "m2"} :
         WF_fileVars(part = "lifecycle" /\ (LC!Remove(<<m, "fuse">>) \/ LC!Commit(<<m, "fuse">>) \/ LC!Abort(<<m, "fuse">>)))
    /\ WF_fileVars(part = "lifecycle" /\ LC!PruneSessions("m1"))
    /\ WF_fileVars(part = "lifecycle" /\ LC!SelectOrphans("m1"))
    /\ WF_admVars(part = "admission" /\ SA!ToolStep("a"))
    /\ WF_admVars(part = "admission" /\ SA!Expire)

Spec == Init /\ [][Next]_vars /\ Fairness

-----------------------------------------------------------------------------
\* Whoever waits is let go.  Every read is answered once no new reads arrive: a waiter is
\* woken by the fill it waits for, also when that fill fails, and the rounds a fill loses to
\* invalidations end with them (ReadFillCoordinator, read_block_map); while new reads keep
\* coming a waiter may lose every round to them.  Every database operation ends: the fence,
\* the transition mutex, the pool and the gates are never all waiting for one another,
\* whatever the servers do.  An interrupted F_SETLKW ends (interrupt, PendingLockWait).  Two
\* processes that wait in F_SETLKW for each other's lock do not wait for ever: while edges
\* come and go with every poll, one of them is told EDEADLK
\* (register_lock_wait_and_detect_deadlock); each mount has a thread for the request.
EveryWaitEnds ==
    /\ <>[][part = "cache" => RC!NoNewRead]_cacheVars
         => \A r \in Readers : []<>(part = "cache" => rd[r].pc = "idle")
    /\ \A th \in 1..3 : []<>(part = "connections" => op[th].pc = "idle")
    /\ \A c \in {"p1", "p2"} : []<>(part = "locks" => ~call[c].cancelled)
    /\ []<>(part = "locks" => ~PL!Deadlocked)

Unfinished ==
    \/ part = "import" /\ MT!Listed
    \/ part = "lifecycle" /\ LC!Orphan(1)
    \/ part = "admission" /\ SA!GateClosed /\ SA!Resumable

Finished ==
    \/ part = "import" /\ MT!Settled
    \/ part = "lifecycle" /\ ~LC!Exists(1)
    \/ part = "admission" /\ (SA!GateOpen \/ SA!CutOff)

\* What a process that failed or died left unfinished is finished by another in the end.
\* A plan that was inserted ends completed or cleaned, for an operator who retries and a
\* lease that runs out (cleanup_failed_materialization).  An unlinked file whose open leases,
\* if any, belong to mounts that are gone is deleted by the maintenance thread of a surviving
\* mount, also when no lease row is left of it (purge_orphaned_unlinked_files).  An upgrade
\* that closed the gate to mounts opens it again, for an operator who runs it again: the
\* sessions it waits for run out, and the second run takes up the work of the first
\* (begin_schema_upgrade, apply_migration), unless it dies after a migration that cannot
\* be applied again and before the version row is written.
LeftoversFinished == Unfinished ~> Finished
=============================================================================
