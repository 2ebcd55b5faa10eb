----------------------------- MODULE MCComponents -----------------------------
(***************************************************************************)
(* One model for the components of a mount process that are checked on     *)
(* their own: part names the one that moves, the others rest in a state    *)
(* they start from, or stay off.                                           *)
(***************************************************************************)
EXTENDS ReadCache, Connections, ReplicaReads, PosixLocks

VARIABLES part,
    bufferConf, stored, opened, states, recentBlocks, callback, posix, seen, fails, crashes

-----------------------------------------------------------------------------
CacheBase == [files |-> {1}, last |-> 0, lru |-> FALSE, direct |-> FALSE, reads |-> {<<0, 0>>},
              limits |-> {0, 1}, reloads |-> 1, writers |-> {"w1"}, changes |-> 1, kinds |-> {"flush", "punch", "buffer"},
              remote |-> FALSE]
\* Two changes of one block may be under way together.
Overlapping == [CacheBase EXCEPT !.direct = TRUE, !.limits = {1}, !.kinds = {"flush", "punch"}, !.changes = 2,
                                 !.writers = {"w1", "w2"}, !.reloads = 0]
CacheSetups ==
    {CacheBase,
     [CacheBase EXCEPT !.direct = TRUE, !.limits = {1}, !.kinds = {"flush", "punch"}, !.remote = TRUE],
     Overlapping,
     [CacheBase EXCEPT !.last = 1, !.reads = {<<1, 1>>}, !.limits = {1}, !.direct = TRUE, !.lru = TRUE,
                       !.kinds = {"flush"}],
     [CacheBase EXCEPT !.files = {1, 2}, !.limits = {1}, !.lru = TRUE, !.kinds = {"flush"}]}

ConnBase == [route |-> <<"a", "b">>, guard |-> TRUE, limit |-> 2, threads |-> 2,
             gates |-> [write |-> 0, control |-> 0], starts |-> {<<"write", TRUE>>}, ops |-> 2,
             faults |-> 2, kinds |-> {}]
BothLanes == {<<"write", TRUE>>, <<"control", TRUE>>}
ConnPlans ==
    {[ConnBase EXCEPT !.kinds = {"contact", "promote"}, !.ops = 3],
     [ConnBase EXCEPT !.kinds = {"contact", "restart"}, !.route = <<"a", "a">>],
     [ConnBase EXCEPT !.kinds = {"promote", "demote"}, !.limit = 1, !.ops = 3],
     [ConnBase EXCEPT !.kinds = {"replace"}],
     [ConnBase EXCEPT !.kinds = {"contact", "restart"}, !.route = <<"a">>, !.guard = FALSE, !.limit = 1,
                      !.starts = {<<"write", TRUE>>, <<"control", FALSE>>}],
     [ConnBase EXCEPT !.threads = 3, !.limit = 3, !.gates = [write |-> 1, control |-> 1],
                      !.starts = BothLanes, !.ops = 3],
     [ConnBase EXCEPT !.threads = 3, !.starts = BothLanes, !.ops = 3]}

RouteBase == [workers |-> 1, replicas |-> 2, faults |-> 2, remote |-> TRUE, lsn |-> 3, gens |-> 3]
TwoWorkers == [RouteBase EXCEPT !.workers = 2, !.remote = FALSE, !.faults = 0, !.lsn = 2, !.gens = 2]
RouteSetups ==
    {RouteBase,
     TwoWorkers,
     [TwoWorkers EXCEPT !.replicas = 1, !.faults = 1],
     [TwoWorkers EXCEPT !.replicas = 1, !.lsn = 3],
     [TwoWorkers EXCEPT !.faults = 1, !.lsn = 1]}

Lock(typ, start, end, wait) == [typ |-> typ, file |-> "f", start |-> start, end |-> end, wait |-> wait]
Byte(n) == Lock("W", n, n, TRUE)
LockBase == [mount |-> [p1 |-> "m1", p2 |-> "m2"], process |-> [p1 |-> 1, p2 |-> 2], threads |-> 1,
             requests |-> [p1 |-> {Byte(0), Byte(1)}, p2 |-> {Byte(0), Byte(1)}],
             clock |-> "timely", closes |-> TRUE, crash |-> FALSE, faults |-> 0, interrupts |-> FALSE]
LockSetups ==
    {[LockBase EXCEPT !.mount = [p1 |-> "m1", p2 |-> "m1"]],
     [LockBase EXCEPT !.crash = TRUE,
                      !.requests = [p1 |-> {Lock("W", 0, 1, TRUE)}, p2 |-> {Byte(0), Lock("R", 0, 1, FALSE)}]],
     [LockBase EXCEPT !.closes = FALSE, !.faults = 1,
                      !.requests = [p1 |-> {Lock("W", 0, 2, FALSE), Lock("R", 1, 1, FALSE), Lock("U", 1, 1, FALSE)},
                                    p2 |-> {Lock("R", 0, 1, FALSE)}]],
     [LockBase EXCEPT !.threads = 2, !.interrupts = TRUE,
                      !.requests = [p1 |-> {Byte(0), Lock("G", 0, 1, FALSE)}, p2 |-> {Byte(0)}]],
     [LockBase EXCEPT !.mount = [p1 |-> "m1", p2 |-> "m2", p3 |-> "m3"],
                      !.process = [p1 |-> 1, p2 |-> 2, p3 |-> 3], !.clock = "none", !.closes = FALSE,
                      !.requests = [p1 |-> {Byte(0), Byte(1)}, p2 |-> {Byte(1), Byte(2)},
                                    p3 |-> {Byte(2), Byte(0)}]],
     [LockBase EXCEPT !.clock = "late", !.closes = FALSE, !.requests = [p1 |-> {Byte(0)}, p2 |-> {Lock("W", 0, 0, FALSE)}]]}

\* One file of at most three bytes in blocks of two: there is a whole block and one
\* that ends inside, and writes cover a block, a part of one, or cross into the next.
FewWrites == {<<0, <<1>>>>, <<1, <<1>>>>, <<2, <<1>>>>}
AllWrites == {<<0, <<1, 1>>>>, <<0, <<2>>>>, <<1, <<1>>>>, <<2, <<1>>>>, <<1, <<2, 2>>>>}
Holes == {<<0, 2>>, <<1, 1>>}
BufferBase == [flushBytes |-> 0, recent |-> 4, staging |-> TRUE, handles |-> {"h1"}, writes |-> FewWrites,
               sizes |-> {}, pathSizes |-> {}, truncates |-> FALSE, holes |-> {}, copies |-> {},
               faults |-> {}, maxFails |-> 0]
BufferSetups ==
    {[BufferBase EXCEPT !.handles = {"h1", "h2"}, !.writes = AllWrites, !.sizes = {1}, !.truncates = TRUE],
     [BufferBase EXCEPT !.handles = {"h1", "h2"}, !.holes = Holes, !.faults = {"abort"}, !.maxFails = 2],
     [BufferBase EXCEPT !.flushBytes = 1, !.pathSizes = {1}, !.holes = Holes, !.truncates = TRUE],
     [BufferBase EXCEPT !.sizes = {1}, !.holes = Holes, !.copies = {<<0, 2, 1>>, <<0, 1, 1>>, <<1, 0, 1>>}],
     [BufferBase EXCEPT !.recent = 0, !.sizes = {1}, !.faults = {"load", "abort", "unknown"}, !.maxFails = 2]}

bufferVars == <<bufferConf, stored, opened, states, recentBlocks, callback, posix, seen, fails, crashes>>
vars == <<part, cacheVars, connVars, routeVars, lockVars, bufferVars>>

BF == INSTANCE WriteBuffer WITH Mounts <- {"m1"}, Handles <- {"h1", "h2"}, Threads <- {"t1"}, MaxSize <- 3, BlockSize <- 2,
    BufferedCap <- 1, ReadRanges <- {<<0, 2>>, <<1, 2>>}, Settings <- BufferSetups, MaxCrashes <- 1, Path <- "path",
    conf <- bufferConf, db <- stored, recent <- recentBlocks, cb <- callback

\* What the proofs assume of the constants of a part holds of the ones it is given here.
ASSUME ConstantsOK ==
    CacheConstants /\ ConnConstants /\ RouteConstants /\ LockConstants

-----------------------------------------------------------------------------
CacheRests == CacheInit /\ setup = CacheBase /\ limit = 1
ConnRests == ConnInit /\ plan = CHOOSE p \in ConnPlans : TRUE
RouteRests == RouteInit /\ route = RouteBase
LockRests == LockInit /\ lockConf = CHOOSE d \in LockSetups : TRUE
BufferOff ==
    /\ bufferConf = "off" /\ stored = "off" /\ opened = "off" /\ states = "off" /\ recentBlocks = "off"
    /\ callback = "off" /\ posix = "off" /\ seen = "off" /\ fails = "off" /\ crashes = "off"

Init ==
    \/ part = "cache" /\ CacheInit /\ ConnRests /\ RouteRests /\ LockRests /\ BufferOff
    \/ part = "connections" /\ ConnInit /\ CacheRests /\ RouteRests /\ LockRests /\ BufferOff
    \/ part = "replicas" /\ RouteInit /\ CacheRests /\ ConnRests /\ LockRests /\ BufferOff
    \/ part = "locks" /\ LockInit /\ CacheRests /\ ConnRests /\ RouteRests /\ BufferOff
    \/ part = "buffer" /\ BF!Init /\ CacheRests /\ ConnRests /\ RouteRests /\ LockRests

Next ==
    \/ part = "cache" /\ CacheNext /\ UNCHANGED <<part, connVars, routeVars, lockVars, bufferVars>>
    \/ part = "connections" /\ ConnNext /\ UNCHANGED <<part, cacheVars, routeVars, lockVars, bufferVars>>
    \/ part = "replicas" /\ RouteNext /\ UNCHANGED <<part, cacheVars, connVars, lockVars, bufferVars>>
    \/ part = "locks" /\ LockNext /\ UNCHANGED <<part, cacheVars, connVars, routeVars, bufferVars>>
    \/ part = "buffer" /\ BF!Next /\ UNCHANGED <<part, cacheVars, connVars, routeVars, lockVars>>

Spec == Init /\ [][Next]_vars

-----------------------------------------------------------------------------
(* The properties of the modules above are checked as they stand there; these are the   *)
(* ones of the write buffer, which is off in the other parts.                              *)

\* Every variable of a component has its type.
TypeOK ==
    /\ CacheTypeOK /\ ConnTypeOK /\ RouteTypeOK /\ LocksTypeOK
    /\ (part = "buffer" => BF!TypeOK)

\* Once no callback runs and no buffer holds changes, PostgreSQL stores what the replies
\* of write, setattr, fallocate and copy_file_range promised, through partial writes,
\* merged siblings, failed flushes, holes, copies and a crash; and the recently written
\* blocks never hide what is stored from the only writer (store_recent_write_blocks).
NothingLost == part = "buffer" => BF!NothingLost /\ BF!RecentAgrees

\* A read that succeeds returns the acknowledged bytes, whichever layer they come from: the
\* handle's buffer, a sibling's, recent_write_blocks or the stored rows.  It fails only where
\* recent blocks are remembered and a file is truncated inside one (read_from_write_state).
ReadsMatch == part = "buffer" => BF!ReadsMatch
=============================================================================
