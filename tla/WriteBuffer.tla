----------------------------- MODULE WriteBuffer -----------------------------
(***************************************************************************)
(* The write buffers of one file.  Every mount keeps, for each open handle *)
(* of the file, at most one write state (write_states), and the blocks it  *)
(* flushed last (recent_write_blocks).  FUSE event threads run the         *)
(* callbacks write, read, flush/fsync, release, setattr(size), fallocate   *)
(* and copy_file_range; each is split where it lets go of the table of     *)
(* write states or of the database.  write, flush, fsync, release and a    *)
(* setattr through a handle hold the handle's operation lock, the others   *)
(* do not.                                                                 *)
(*                                                                         *)
(* Write ownership (see WriteOwnership) lets one mount at a time have      *)
(* writable handles of the file.                                           *)
(*                                                                         *)
(* posix is the reference: for the size and for every byte of the file,    *)
(* the values that the replies given so far allow.  A callback that        *)
(* succeeds leaves one value, one that fails leaves the old and the new    *)
(* value possible.                                                         *)
(***************************************************************************)
EXTENDS BlockOverlay, FiniteSetsExt

CONSTANTS
    Mounts, Handles,
    Threads,        \* the event threads of a mount (FOD_FUSE_EVENT_THREADS)
    MaxSize,        \* bound: the largest file, in bytes
    ReadRanges,     \* pairs <<offset, length>>
    Settings,       \* the deployments that are looked at, see below
    MaxCrashes,     \* bound: mounts that die
    Path            \* stands for the missing handle of a path truncate

\* A deployment is a record:
\*   flushBytes  write_flush_threshold_bytes
\*   recent      most recently written blocks kept; 0: no read cache
\*   staging     copy_binary_staging, or else binary_bytea and legacy_hex
\*   handles     the handles the applications use
\*   writes      the writes that are tried: pairs <<offset, data>>
\*   sizes       sizes set through a handle (ftruncate)
\*   pathSizes   sizes set through a path (truncate)
\*   truncates   an open may carry O_TRUNC
\*   holes       pairs <<offset, length>> punched by fallocate
\*   copies      triples <<source, destination, length>> within the file
\*   faults      how the database may fail: "load", "abort", "unknown"
\*   maxFails    bound: how often it does

VARIABLES
    conf,       \* the deployment; never changes
    db,         \* the stored file: size and rows
    opened,     \* the writable handles of each mount
    states,     \* write_states of each mount: a function of some handles
    recent,     \* recent_write_blocks of each mount
    cb,         \* the callback each event thread is in
    posix,      \* the reference content
    seen,       \* how the last read ended
    fails, crashes

vars == <<conf, db, opened, states, recent, cb, posix, seen, fails, crashes>>

Positions == 0..(MaxSize - 1)

Idle == [op |-> "idle"]
Dead == [op |-> "dead"]     \* the thread panicked

Init ==
    /\ conf \in Settings
    /\ db = [size |-> 0, rows |-> NoBlocks]
    /\ opened = [m \in Mounts |-> {}]
    /\ states = [m \in Mounts |-> [h \in {} |-> <<>>]]
    /\ recent = [m \in Mounts |-> NoBlocks]
    /\ cb = [m \in Mounts |-> [t \in Threads |-> Idle]]
    /\ posix = [size |-> {0}, byte |-> [p \in Positions |-> {0}]]
    /\ seen = "ok"
    /\ fails = 0
    /\ crashes = 0

-----------------------------------------------------------------------------
\* The reference.

\* A reply of success: the byte values of f replace the old ones; a failure
\* leaves both possible.
PosixWrite(off, data, ok) ==
    LET end == off + Len(data)
        in(p) == off <= p /\ p < end
    IN  [size |-> {MaxOf(z, end) : z \in posix.size} \cup (IF ok THEN {} ELSE posix.size),
         byte |-> [p \in Positions |->
            IF in(p) THEN {data[p - off + 1]} \cup (IF ok THEN {} ELSE posix.byte[p])
            ELSE posix.byte[p]]]

PosixTruncate(n, ok) ==
    [size |-> {n} \cup (IF ok THEN {} ELSE posix.size),
     byte |-> [p \in Positions |->
        IF p >= n THEN {0} \cup (IF ok THEN {} ELSE posix.byte[p]) ELSE posix.byte[p]]]

PosixPunch(off, n, ok) ==
    [posix EXCEPT !.byte = [p \in Positions |->
        IF off <= p /\ p < off + n THEN {0} \cup (IF ok THEN {} ELSE posix.byte[p])
        ELSE posix.byte[p]]]

\* The bytes n of the source, clipped to the file, as sets of values.
PosixCopy(src, dst, n, ok) ==
    LET len == MinOf(n, Max(posix.size) - src)
    IN  [size |-> {MaxOf(z, dst + len) : z \in posix.size} \cup (IF ok THEN {} ELSE posix.size),
         byte |-> [p \in Positions |->
            IF dst <= p /\ p < dst + len
            THEN posix.byte[src + p - dst] \cup (IF ok THEN {} ELSE posix.byte[p])
            ELSE posix.byte[p]]]

\* The stored file is one that the replies allow.
StoredAllowed ==
    /\ db.size \in posix.size
    /\ \A p \in 0..(db.size - 1) : StoredSlice(db, p, p + 1)[1] \in posix.byte[p]

ReadAllowed(data, off, n) ==
    /\ \E z \in posix.size : Len(data) = MaxOf(0, MinOf(off + n, z) - off)
    /\ \A k \in 1..Len(data) : data[k] \in posix.byte[off + k - 1]

-----------------------------------------------------------------------------
\* The table of write states and the handles' operation locks.

Remove(m, hs) == [states EXCEPT ![m] = Restrict(states[m], DOMAIN states[m] \ hs)]

PendingSiblings(m, h) ==
    {g \in DOMAIN states[m] \ {h} : HasPendingChanges(states[m][g])}

OpenCount(m) ==
    Cardinality(opened[m]) + Cardinality({t \in Threads :
        cb[m][t].op = "setsize" /\ cb[m][t].h = Path})

Locking == {"write", "sync", "close", "setsize"}

Locked(m, h) == \E t \in Threads :
    cb[m][t].op \in Locking /\ cb[m][t].h = h /\ h # Path

\* The kernel uses a handle once its open was answered.
Usable(m, h) ==
    /\ h \in opened[m]
    /\ \A u \in Threads : cb[m][u].op \in {"open", "opentrunc", "trunc"} => cb[m][u].h # h

\* The kernel holds the inode lock while one of these is answered (no
\* writeback cache, no FOPEN_PARALLEL_DIRECT_WRITES); the others overlap.
InodeLocked == {"write", "setsize", "punch", "copy", "opentrunc", "trunc"}

Begin(m, t, callback) ==
    /\ cb[m][t] = Idle
    /\ callback.op \in InodeLocked => \A u \in Threads : cb[m][u].op \notin InodeLocked
    /\ cb' = [cb EXCEPT ![m][t] = callback]

BeginLocked(m, t, callback) == ~Locked(m, callback.h) /\ Begin(m, t, callback)

Done(m, t) == cb' = [cb EXCEPT ![m][t] = Idle]

At(m, t, op, at) == cb[m][t].op = op /\ cb[m][t].at = at

Fails(where) == where \in conf.faults /\ fails < conf.maxFails /\ fails' = fails + 1

\* A transaction that would store new is rolled back, or is committed and
\* the answer is lost for good.
FailsWith(new) ==
    \/ Fails("abort") /\ UNCHANGED db
    \/ Fails("unknown") /\ db' = new

\* flush_write_state up to its transaction, which also reads the old size.
Prepared(m, s) == PrepareTruncateBoundary(s, recent[m], db)

\* The stored file after the transaction of a flush.
Stored(s) == PersistBlocks(s, db, conf.staging)

-----------------------------------------------------------------------------
\* write

\* take_write_states_for_file_except, under the table's mutex.
WriteTake(m, t, h, w) ==
    /\ Usable(m, h)
    /\ LET sib == PendingSiblings(m, h)
           own == IF h \in DOMAIN states[m] THEN {h} ELSE {}
       IN  /\ BeginLocked(m, t, [op |-> "write", at |-> "taken", h |-> h, arg |-> w,
                                 own |-> Restrict(states[m], own),
                                 sib |-> Restrict(states[m], sib)])
           /\ states' = Remove(m, {h} \cup sib)
    /\ UNCHANGED <<db, opened, recent, posix, seen, fails, crashes>>

\* The size known to the request, before its own data.
ExistingSize(c) ==
    LET mine == IF c.own = <<>> THEN db.size ELSE c.own[c.h].size
    IN  Max({mine} \cup {c.sib[g].size : g \in DOMAIN c.sib})

\* The write changes nothing that is stored, and no buffer is in the way.
Unchanged(c) ==
    LET off == c.arg[1]
        end == off + Len(c.arg[2])
    IN  /\ c.own = <<>> /\ c.sib = <<>>
        /\ end <= ExistingSize(c)
        /\ StoredSlice(db, off, end) = c.arg[2]

Merged(c) ==
    LET first == IF c.own = <<>> THEN NewWriteState(ExistingSize(c), FALSE)
                 ELSE c.own[c.h]
    IN  FoldSet(LAMBDA g, s : MergeWriteState(s, c.sib[g]), first, DOMAIN c.sib)

WriteUnchanged(m, t) ==
    LET c == cb[m][t]
    IN  /\ At(m, t, "write", "taken")
        /\ Unchanged(c)
        /\ posix' = PosixWrite(c.arg[1], c.arg[2], TRUE)
        /\ Done(m, t)
        /\ UNCHANGED <<db, opened, states, recent, seen, fails, crashes>>

WriteApply(m, t) ==
    LET c    == cb[m][t]
        data == c.arg[2]
    IN  /\ At(m, t, "write", "taken")
        /\ ~Unchanged(c)
        /\ LET s == CountBuffered(
                        UpdateWriteBuffer(Merged(c), recent[m], db.rows, c.arg[1], data),
                        Len(data))
               at == IF ShouldFlush(s, OpenCount(m), conf.flushBytes) THEN "ready" ELSE "kept"
           IN  cb' = [cb EXCEPT ![m][t] =
                        [op |-> "write", at |-> at, h |-> c.h, arg |-> c.arg,
                         st |-> s, sib |-> c.sib]]
        /\ UNCHANGED <<db, opened, states, recent, posix, seen, fails, crashes>>

\* Loading a block failed: what was taken is put back as one state.
WriteLoadFails(m, t) ==
    LET c == cb[m][t]
    IN  /\ At(m, t, "write", "taken")
        /\ ~Unchanged(c)
        /\ NeedsRow(Merged(c), recent[m], c.arg[1], c.arg[2])
        /\ Fails("load")
        /\ states' = [states EXCEPT ![m] = (c.h :> Merged(c)) @@ states[m]]
        /\ Done(m, t)
        /\ UNCHANGED <<db, opened, recent, posix, seen, crashes>>

\* The reply: the siblings' entries go, the own entry stays unless flushed.
WriteReply(m, t) ==
    LET c    == cb[m][t]
        left == Remove(m, DOMAIN c.sib)[m]
    IN  /\ c.op = "write"
        /\ \/ /\ c.at = "kept"
              /\ states' = [states EXCEPT ![m] = (c.h :> c.st) @@ left]
              /\ UNCHANGED recent
           \/ /\ c.at = "stored"
              /\ states' = [states EXCEPT ![m] = Restrict(left, DOMAIN left \ {c.h})]
              /\ recent' = [recent EXCEPT ![m] = StoreRecent(recent[m], c.st, conf.recent)]
        /\ posix' = PosixWrite(c.arg[1], c.arg[2], TRUE)
        /\ Done(m, t)
        /\ UNCHANGED <<db, opened, seen, fails, crashes>>

-----------------------------------------------------------------------------
\* The transaction of a flush, whatever callback it belongs to.

Persist(m, t) ==
    LET c == cb[m][t]
        s == Prepared(m, c.st)
    IN  /\ c.op \in Locking \cup {"copy", "trunc"} /\ c.at = "ready"
        /\ db' = Stored(s)
        /\ cb' = [cb EXCEPT ![m][t].at = "stored", ![m][t].st = s]
        /\ UNCHANGED <<opened, states, recent, posix, seen, fails, crashes>>

\* It fails before, or with, its COMMIT; the callback answers with an error.
\* A write keeps the data it could not store; a release drops them.
PersistFails(m, t) ==
    LET c == cb[m][t]
        s == Prepared(m, c.st)
    IN  /\ c.op \in Locking \cup {"copy", "trunc"} /\ c.at = "ready"
        /\ FailsWith(Stored(s))
        /\ states' = CASE c.op = "write" ->
                            [states EXCEPT ![m] = (c.h :> s) @@ c.sib @@ states[m]]
                       [] c.op = "close" -> Remove(m, {c.h})
                       [] OTHER -> states
        /\ opened' = IF c.op \in {"close", "trunc"} THEN [opened EXCEPT ![m] = @ \ {c.h}] ELSE opened
        /\ posix' = CASE c.op = "write" -> PosixWrite(c.arg[1], c.arg[2], FALSE)
                      [] c.op \in {"setsize", "trunc"} -> PosixTruncate(c.arg, FALSE)
                      [] c.op = "copy" -> PosixCopy(c.arg[1], c.arg[2], c.arg[3], FALSE)
                      [] c.op = "close" ->
                            [size |-> posix.size \cup {db.size},
                             byte |-> [p \in Positions |-> posix.byte[p] \cup
                                IF p < db.size THEN {StoredSlice(db, p, p + 1)[1]} ELSE {0}]]
                      [] OTHER -> posix
        /\ Done(m, t)
        /\ UNCHANGED <<recent, seen, crashes>>

-----------------------------------------------------------------------------
\* flush and fsync (sync), release (close), setattr with a size (setsize)

SyncBegin(m, t, h) ==
    /\ Usable(m, h) /\ h \in DOMAIN states[m]
    /\ HasPendingChanges(states[m][h])
    /\ BeginLocked(m, t, [op |-> "sync", at |-> "ready", h |-> h, st |-> states[m][h]])
    /\ UNCHANGED <<db, opened, states, recent, posix, seen, fails, crashes>>

SyncReply(m, t) ==
    LET c == cb[m][t]
    IN  /\ At(m, t, "sync", "stored")
        /\ recent' = [recent EXCEPT ![m] = StoreRecent(recent[m], c.st, conf.recent)]
        /\ states' = Remove(m, {c.h})
        /\ Done(m, t)
        /\ UNCHANGED <<db, opened, posix, seen, fails, crashes>>

\* The kernel releases a handle after its last request was answered.
CloseBegin(m, t, h) ==
    /\ h \in opened[m]
    /\ \A u \in Threads : cb[m][u].op \notin {"idle", "dead"} => cb[m][u].h # h
    /\ IF h \in DOMAIN states[m] /\ HasPendingChanges(states[m][h])
       THEN /\ BeginLocked(m, t, [op |-> "close", at |-> "ready", h |-> h,
                                  st |-> states[m][h]])
            /\ UNCHANGED <<opened, states>>
       ELSE /\ cb[m][t] = Idle
            /\ opened' = [opened EXCEPT ![m] = @ \ {h}]
            /\ states' = Remove(m, {h})
            /\ UNCHANGED cb
    /\ UNCHANGED <<db, recent, posix, seen, fails, crashes>>

\* Mutant: the released handle leaves its write state behind.
CloseReplyKeeps(m, t) ==
    LET c == cb[m][t]
    IN  /\ At(m, t, "close", "stored")
        /\ recent' = [recent EXCEPT ![m] = StoreRecent(recent[m], c.st, conf.recent)]
        /\ opened' = [opened EXCEPT ![m] = @ \ {c.h}]
        /\ Done(m, t)
        /\ UNCHANGED <<db, states, posix, seen, fails, crashes>>

CloseReply(m, t) ==
    LET c == cb[m][t]
    IN  /\ At(m, t, "close", "stored")
        /\ recent' = [recent EXCEPT ![m] = StoreRecent(recent[m], c.st, conf.recent)]
        /\ states' = Remove(m, {c.h})
        /\ opened' = [opened EXCEPT ![m] = @ \ {c.h}]
        /\ Done(m, t)
        /\ UNCHANGED <<db, posix, seen, fails, crashes>>

NoOtherWriter(m) == \A n \in Mounts \ {m} : opened[n] = {}

\* Through a handle the handle's buffer is cut; through a path a buffer of
\* its own is flushed and no other buffer is looked at.
SetSizeBegin(m, t, h, n) ==
    /\ \/ Usable(m, h) /\ n \in conf.sizes
       \/ h = Path /\ n \in conf.pathSizes /\ NoOtherWriter(m)
    /\ LET s == IF h \in DOMAIN states[m] THEN states[m][h] ELSE NewWriteState(n, TRUE)
       IN  BeginLocked(m, t, [op |-> "setsize", at |-> "ready", h |-> h, arg |-> n,
                              st |-> [s EXCEPT !.size = n, !.trunc = TRUE]])
    /\ UNCHANGED <<db, opened, states, recent, posix, seen, fails, crashes>>

SetSizeReply(m, t) ==
    LET c == cb[m][t]
    IN  /\ c.op \in {"setsize", "trunc"} /\ c.at = "stored"
        /\ recent' = [recent EXCEPT ![m] = StoreRecent(recent[m], c.st, conf.recent)]
        /\ states' = Remove(m, {c.h})
        /\ posix' = PosixTruncate(c.arg, TRUE)
        /\ Done(m, t)
        /\ UNCHANGED <<db, opened, seen, fails, crashes>>

-----------------------------------------------------------------------------
\* open, read and fallocate publish the buffers of other handles first
\* (flush_pending_write_states_for_file_except): copies are taken under the
\* table's mutex and flushed one after the other.

DrainBegin(m, t, op, h, arg, pending) ==
    Begin(m, t, [op |-> op, at |-> "drain", h |-> h, arg |-> arg,
                 todo |-> Restrict(states[m], pending)])

OpenBegin(m, t, h, op) ==
    /\ h \notin opened[m]
    /\ NoOtherWriter(m)
    /\ opened' = [opened EXCEPT ![m] = @ \cup {h}]
    /\ op = "opentrunc" => conf.truncates
    /\ DrainBegin(m, t, op, h, <<>>,
                  IF OpenCount(m) > 0 THEN PendingSiblings(m, Path) ELSE {})
    /\ UNCHANGED <<db, states, recent, posix, seen, fails, crashes>>

ReadBegin(m, t, h) ==
    /\ Usable(m, h)
    /\ DrainBegin(m, t, "read", h, <<>>, PendingSiblings(m, h))
    /\ UNCHANGED <<db, opened, states, recent, posix, seen, fails, crashes>>

PunchBegin(m, t, h, hole) ==
    /\ Usable(m, h)
    /\ DrainBegin(m, t, "punch", h, hole, PendingSiblings(m, Path))
    /\ UNCHANGED <<db, opened, states, recent, posix, seen, fails, crashes>>

Draining(m, t) == cb[m][t].op \in {"open", "opentrunc", "read", "punch"}

DrainPersist(m, t) ==
    /\ Draining(m, t) /\ cb[m][t].at = "drain"
    /\ \E g \in DOMAIN cb[m][t].todo :
        LET s == Prepared(m, cb[m][t].todo[g])
        IN  /\ db' = Stored(s)
            /\ cb' = [cb EXCEPT ![m][t].at = g, ![m][t].todo[g] = s]
    /\ UNCHANGED <<opened, states, recent, posix, seen, fails, crashes>>

DrainPublish(m, t) ==
    LET c == cb[m][t]
    IN  /\ Draining(m, t) /\ c.at \in Handles
        /\ recent' = [recent EXCEPT ![m] = StoreRecent(recent[m], c.todo[c.at], conf.recent)]
        /\ states' = Remove(m, {c.at})
        /\ cb' = [cb EXCEPT ![m][t].at = "drain",
                            ![m][t].todo = Restrict(c.todo, DOMAIN c.todo \ {c.at})]
        /\ UNCHANGED <<db, opened, posix, seen, fails, crashes>>

\* The callback answers with the error; a failed open gives the handle back.
DrainFails(m, t) ==
    LET c == cb[m][t]
    IN  /\ Draining(m, t) /\ c.at = "drain"
        /\ \E g \in DOMAIN c.todo : FailsWith(Stored(Prepared(m, c.todo[g])))
        /\ opened' = IF c.op \in {"open", "opentrunc"} THEN [opened EXCEPT ![m] = @ \ {c.h}] ELSE opened
        /\ Done(m, t)
        /\ UNCHANGED <<states, recent, posix, seen, crashes>>

Drained(m, t, op) == cb[m][t].op = op /\ cb[m][t].at = "drain" /\ cb[m][t].todo = <<>>

OpenReply(m, t) ==
    /\ Drained(m, t, "open")
    /\ Done(m, t)
    /\ UNCHANGED <<db, opened, states, recent, posix, seen, fails, crashes>>

\* O_TRUNC: a buffer of its own is flushed before the open is answered.
OpenTruncate(m, t) ==
    /\ Drained(m, t, "opentrunc")
    /\ cb' = [cb EXCEPT ![m][t] = [op |-> "trunc", at |-> "ready", h |-> cb[m][t].h,
                                  arg |-> 0, st |-> NewWriteState(0, TRUE)]]
    /\ UNCHANGED <<db, opened, states, recent, posix, seen, fails, crashes>>

ReadReply(m, t, r) ==
    LET h   == cb[m][t].h
        res == IF h \in DOMAIN states[m]
               THEN ReadFromWriteState(states[m][h], recent[m], db.rows, r[1], r[2])
               ELSE ReadFromRepo(db, recent[m], r[1], r[2])
    IN  /\ Drained(m, t, "read")
        /\ seen' = IF res.how = "ok" /\ ~ReadAllowed(res.data, r[1], r[2])
                   THEN "wrong" ELSE res.how
        /\ cb' = [cb EXCEPT ![m][t] = IF res = SliceOutOfBounds THEN Dead ELSE Idle]
        /\ UNCHANGED <<db, opened, states, recent, posix, fails, crashes>>

PunchReply(m, t) ==
    LET hole == cb[m][t].arg
    IN  /\ Drained(m, t, "punch")
        /\ db' = PunchRows(db, hole[1], hole[2])
        /\ recent' = [recent EXCEPT ![m] = NoBlocks]
        /\ posix' = PosixPunch(hole[1], hole[2], TRUE)
        /\ Done(m, t)
        /\ UNCHANGED <<opened, states, seen, fails, crashes>>

PunchFails(m, t) ==
    LET hole == cb[m][t].arg
    IN  /\ Drained(m, t, "punch")
        /\ FailsWith(PunchRows(db, hole[1], hole[2]))
        /\ posix' = PosixPunch(hole[1], hole[2], FALSE)
        /\ Done(m, t)
        /\ UNCHANGED <<opened, states, recent, seen, crashes>>

-----------------------------------------------------------------------------
\* copy_file_range within the file, from handle g to handle h.  Neither
\* operation lock is taken and no other buffer is published.

CopyData(m, g, c) ==
    LET size == IF g \in DOMAIN states[m] THEN states[m][g].size ELSE db.size
        end  == MinOf(c[1] + c[3], size)
    IN  IF g \in DOMAIN states[m]
        THEN ReadFromWriteState(states[m][g], recent[m], db.rows, c[1], c[3])
        ELSE Result("ok", StoredSlice(db, c[1], MaxOf(end, c[1])))

\* What the destination holds now, zero-filled: compared chunk by chunk.
CopyCurrent(m, h, dst, n) ==
    IF h \in DOMAIN states[m]
    THEN LET s == [states[m][h] EXCEPT !.size = MaxOf(@, dst + n)]
         IN  ReadFromWriteState(s, recent[m], db.rows, dst, n)
    ELSE Result("ok", StoredSlice(db, dst, MaxOf(MinOf(dst + n, db.size), dst)))

\* Without a comparison the data are laid over the destination's buffer at
\* once; with one the size grows first, then the chunks that differ follow.
CopyOver(m, s, dst, data, compared, chunks) ==
    LET Chunk(k) == SubSeq(data, k * BlockSize + 1, MinOf((k + 1) * BlockSize, Len(data)))
        Lay(acc, off, d) ==
            CountBuffered(UpdateWriteBuffer(acc, recent[m], db.rows, off, d), Len(d))
    IN  IF compared
        THEN FoldSet(LAMBDA k, acc : Lay(acc, dst + k * BlockSize, Chunk(k)),
                     [s EXCEPT !.size = MaxOf(@, dst + Len(data))], chunks)
        ELSE Lay(s, dst, data)

CopyBegin(m, t, g, h, c, dedupe) ==
    LET from == CopyData(m, g, c)
        data == from.data
        dst  == c[2]
        s    == IF h \in DOMAIN states[m] THEN states[m][h] ELSE NewWriteState(db.size, FALSE)
        compared == dedupe /\ dst < s.size
        now  == CopyCurrent(m, h, dst, Len(data))
        chunks == ChangedChunks(data, now.data)
    IN  /\ Usable(m, g) /\ Usable(m, h)
        /\ cb[m][t] = Idle
        /\ from.how = "ok" /\ Len(data) > 0
        /\ compared => now.how = "ok"
        /\ IF compared /\ chunks = {} /\ dst + Len(data) <= s.size
           THEN /\ posix' = PosixCopy(c[1], dst, c[3], TRUE)
                /\ UNCHANGED cb
           ELSE /\ Begin(m, t, [op |-> "copy", at |-> "ready", h |-> h, arg |-> c,
                                st |-> CopyOver(m, s, dst, data, compared, chunks)])
                /\ UNCHANGED posix
        /\ UNCHANGED <<db, opened, states, recent, seen, fails, crashes>>

\* The flushed state, now without changes, stays in the table.
CopyReply(m, t) ==
    LET c == cb[m][t]
    IN  /\ At(m, t, "copy", "stored")
        /\ recent' = [recent EXCEPT ![m] = StoreRecent(recent[m], c.st, conf.recent)]
        /\ states' = [states EXCEPT ![m] = (c.h :> Flushed(c.st)) @@ states[m]]
        /\ posix' = PosixCopy(c.arg[1], c.arg[2], c.arg[3], TRUE)
        /\ Done(m, t)
        /\ UNCHANGED <<db, opened, seen, fails, crashes>>

-----------------------------------------------------------------------------
\* A mount dies, or its last event thread did: what it had not stored is
\* gone, with the replies for it.
Crash(m) ==
    /\ \/ crashes < MaxCrashes /\ crashes' = crashes + 1
       \/ (\A t \in Threads : cb[m][t] = Dead) /\ UNCHANGED crashes
    /\ opened' = [opened EXCEPT ![m] = {}]
    /\ states' = Remove(m, Handles)
    /\ recent' = [recent EXCEPT ![m] = NoBlocks]
    /\ cb' = [cb EXCEPT ![m] = [t \in Threads |-> Idle]]
    /\ posix' = [size |-> {db.size},
                 byte |-> [p \in Positions |->
                    IF p < db.size THEN {StoredSlice(db, p, p + 1)[1]} ELSE {0}]]
    /\ UNCHANGED <<db, seen, fails>>

HandleCallback(m, t, h) ==
    \/ \E w \in conf.writes : WriteTake(m, t, h, w)
    \/ SyncBegin(m, t, h)
    \/ CloseBegin(m, t, h)
    \/ \E n \in conf.sizes : SetSizeBegin(m, t, h, n)
    \/ \E op \in {"open", "opentrunc"} : OpenBegin(m, t, h, op)
    \/ ReadBegin(m, t, h)
    \/ \E hole \in conf.holes : PunchBegin(m, t, h, hole)
    \/ \E g \in conf.handles, c \in conf.copies, dedupe \in BOOLEAN : CopyBegin(m, t, g, h, c, dedupe)

ThreadStep(m, t) ==
    \/ WriteUnchanged(m, t) \/ WriteApply(m, t) \/ WriteLoadFails(m, t)
    \/ WriteReply(m, t)
    \/ Persist(m, t) \/ PersistFails(m, t)
    \/ SyncReply(m, t) \/ CloseReply(m, t) \/ SetSizeReply(m, t)
    \/ DrainPersist(m, t) \/ DrainPublish(m, t) \/ DrainFails(m, t)
    \/ OpenReply(m, t) \/ OpenTruncate(m, t) \/ \E r \in ReadRanges : ReadReply(m, t, r)
    \/ PunchReply(m, t) \/ PunchFails(m, t)
    \/ CopyReply(m, t)

Next ==
    /\ UNCHANGED conf
    /\ \E m \in Mounts :
        \/ \E t \in Threads : ThreadStep(m, t)
        \/ \E t \in Threads, h \in conf.handles : HandleCallback(m, t, h)
        \/ \E t \in Threads, n \in conf.pathSizes : SetSizeBegin(m, t, Path, n)
        \/ Crash(m)

Spec == Init /\ [][Next]_vars

-----------------------------------------------------------------------------
WriteStateOK(s) ==
    /\ s.size \in 0..MaxSize
    /\ s.trunc \in BOOLEAN
    /\ s.buffered \in 0..BufferedCap
    /\ \A i \in DOMAIN s.blocks : i * BlockSize < MaxSize /\ Len(s.blocks[i]) <= BlockSize

\* The stored rows are whole blocks, the layers above them hold at most whole
\* blocks, and only open handles have a write state.
TypeOK ==
    /\ db.size \in 0..MaxSize
    /\ \A i \in DOMAIN db.rows : Len(db.rows[i]) = BlockSize
    /\ \A m \in Mounts :
        /\ DOMAIN states[m] \subseteq opened[m] /\ opened[m] \subseteq Handles
        /\ \A h \in DOMAIN states[m] : WriteStateOK(states[m][h])
        /\ \A i \in DOMAIN recent[m] : Len(recent[m][i]) <= BlockSize
    /\ posix.size \subseteq 0..MaxSize
    /\ fails \in 0..conf.maxFails /\ crashes \in 0..MaxCrashes

Quiet ==
    \A m \in Mounts :
        /\ \A t \in Threads : cb[m][t] \in {Idle, Dead}
        /\ \A h \in DOMAIN states[m] : ~HasPendingChanges(states[m][h])

\* Once no callback runs and no buffer holds changes, PostgreSQL stores the
\* file that the replies of write, setattr, fallocate and copy_file_range
\* promised: no acknowledged byte is lost, none comes back after a
\* truncation, bytes nobody wrote read as zeroes (update_write_buffer,
\* prepare_truncate_boundary_blocks, merge_write_state_into).
NothingLost == Quiet => StoredAllowed

\* A truncation inside a block can leave a recently written block shorter
\* than its row; a later read inside it fails (read_from_write_state).
ShortensRecent == conf.recent > 0 /\ (conf.sizes # {} \/ conf.pathSizes # {})

\* A read never returns bytes other than the acknowledged ones, whichever
\* layer they come from: the handle's buffer, a sibling's buffer published
\* by the read itself, recent_write_blocks or the stored rows.  And it
\* succeeds, the range that an extension exposes reading as zeroes, unless
\* the mount remembers recent blocks and a file is truncated inside one.
ReadsMatch ==
    /\ seen # "wrong"
    /\ seen \in {"panic", "EIO"} => ShortensRecent

\* A read inside the file succeeds when the database answers.
ReadsSucceed == seen \notin {"panic", "EIO"}

\* The recently written blocks never hide what is stored from their mount
\* while it is the only writer: each agrees with its row up to its length
\* (store_recent_write_blocks against persist_file_blocks).
RecentAgrees ==
    \A m \in Mounts :
        (\A t \in Threads : cb[m][t] \in {Idle, Dead}) =>
            \A i \in DOMAIN recent[m] :
                LET used == MinOf(Len(recent[m][i]), MaxOf(db.size - i * BlockSize, 0))
                IN  \A k \in 1..used :
                        recent[m][i][k] = StoredSlice(db, i * BlockSize, (i + 1) * BlockSize)[k]
=============================================================================
