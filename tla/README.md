# TLA+ models of FOD

FOD is a FUSE filesystem that keeps its namespace, file content, locks and
leases in PostgreSQL. Any number of mounts (processes, usually on different
hosts) serve the same filesystem at once, so its correctness rests on what
PostgreSQL transactions, advisory locks and expiring leases make of the
interleavings of all of them. These modules model that coordination, check it
with TLC on small instances, and prove its central safety properties with TLAPS
for every instance.

## The system

| part | code | state | operations | module |
|------|------|-------|------------|--------|
| write ownership, sessions | `pg.rs`, `fs.rs` | `destination_write_leases`, `file_write_leases`, `client_sessions`, the handle table | acquire, share, heartbeat, fenced persist, release | `WriteOwnership`, `FencedFile` |
| open leases, unlink, purge | `pg.rs`, `fs.rs` | `files`, `hardlinks`, `file_open_leases` | open, create, link, rename, unlink, promote, purge | `FileLifecycle` |
| write buffer | `write_buffer.rs`, `fs.rs`, persist plans | one `WriteState` per handle, recently written blocks | write, merge siblings, flush, truncate, punch, copy | `BlockOverlay`, `WriteBuffer` |
| read cache | `read_cache.rs`, `fs.rs` | blocks, generations, fill flights | read, fill, invalidate, reload | `ReadCache` |
| pool, admission, promotion | `pg.rs`, `pg_lanes.rs` | connections, permits, the recorded primary | acquire, run, replay, fail over | `Connections` |
| replica reads | `pg.rs` | required WAL position, replica scores | read behind a barrier, fall back | `ReplicaReads` |
| record locks | `pg.rs`, `fs.rs` | `lock_range_leases`, `lock_wait_edges`, mirrors | setlk, getlk, interrupt, heartbeat | `PosixLocks` |
| whole-file locks | `pg.rs` | `lock_leases`, request tokens | acquire, replay, release, heartbeat | `FlockLeases` |
| directory tree | `pg.rs` | directories, symlinks, special files | mkdir, rmdir, symlink, mknod, link, unlink, rename | `DirectoryTree` |
| data objects and quota | `pg.rs` | block rows, reference counts, reservations | persist, import, adopt, punch, purge, clean up | `DataObjects` |
| import | `rust_indexer` | plan row with lease and token, import tree | validate, materialize, roll back, clean up | `Materialization` |
| catalogue | `rust_indexer` | indexed files, hashes, duplicate sets, snapshots | scan, hash, plan, clean, read, snapshot | `IndexCatalog` |
| schema administration | `rust_mkfs`, `pg/startup.rs` | schema version and marker, sessions | init, upgrade, clean, admit a mount | `SchemaAdmission` |

Everything a mount does to the database runs on a connection of `Connections`
(or a read of `ReplicaReads`); a write goes from `WriteBuffer` through a
transaction fenced by `WriteOwnership` into the rows of `DataObjects`, and
invalidates `ReadCache`; names are in `DirectoryTree` and, for regular files
with hard links and open leases, in `FileLifecycle`; every lease hangs on a
session that `SchemaAdmission` admits. The parts are modelled apart: each module
takes from its neighbours what they promise (one writing mount at a time, a
commit that may succeed without its answer) and leaves out how.

What is hard about the system: event threads of one mount interleave on shared
tables; heartbeats work on snapshots of those tables; leases expire while a
callback is between two steps; processes die in the middle of a transaction; a
COMMIT may succeed without its acknowledgement arriving, after which the body
runs again; and a decision made from a row is acted on after the row changed.

## Modules

`FencedFile` is the abstract specification of what write ownership promises about
the content of a file. Each file has an epoch that every grant raises; `held` is
the set of files whose ownership is in force; `writer[f]` is the epoch that last
replaced the content. A grant needs the file not to be held. Only the newest
grantee replaces the content, perhaps after its ownership lapsed but never after
a later grant; unfenced callers do so only while nobody holds the file.

`WriteOwnership` is the protocol that implements it.

| state | code |
|-------|------|
| `process`, `session` | the mount process and its `client_sessions` row |
| `destLease`, `fileLease`, `destSeq`, `fileSeq` | the lease tables and their BIGSERIAL sequences |
| `lock` | holder of the advisory transaction lock `fod:write:file:{id}` |
| `content` | token of the last committed replacement of the content |
| `table`, `nextFh` | `fh_table` with the ownership of each handle, `next_handle` |
| `dirty` | handles with a pending `WriteState` |
| `pc` | how far the callback on a handle has got |
| `beat` | ownerships the heartbeat thread has copied and not renewed yet |
| `granted`, `kept` | history: newest token of a file; files whose lease a failed release left |

Each action is one transaction or one critical section of the code:
`OpenAcquire`, `OpenRollback`, `OpenBusy` and `OpenShare` are the outcomes of
`create_writable_handle_with_ownership`, which holds `write_ownership_gate` for
all of its steps; `HeartbeatCollect` and `HeartbeatOwnership` are the two halves
of `heartbeat_active_write_ownerships`; `PersistBegin` takes the advisory lock
and validates the fence, `PersistCommit`, `PersistCommitLost` and `PersistAbort`
end the transaction; `ReleaseStart` to `RemoveHandle` are the steps of `release`
(flush, give ownership back under the gate, drop the handle outside it). A
crashed mount leaves its open transactions to PostgreSQL, which commits or rolls
them back later.

Abstractions. `lease_expires_at` is kept as the time left to it; `Tick` ages all
rows together, as they are compared with the one server clock. The content is
the token that wrote it. A path is identified with its file, since the namespace
does not change here. Handles opened read-only carry no ownership and are left
out; what they cause on other handles (a read publishes pending data) is part of
`FlushStart`. A truncate by path is an open that persists, and then a release.
A loop that publishes several buffers is several callbacks, since each buffer is
a transaction of its own. While a write persists what it took from other
handles, their buffers still count as pending, as they are put back on failure.

`FileLifecycle` is the life of regular files that several mounts name, open and
remove.

| state | code |
|-------|------|
| `file` | `files` rows: `unlinked` flag and name; a deleted id is never reused |
| `links`, `linkSeq` | `hardlinks` rows and their sequence |
| `session`, `lease` | time left to `client_sessions` and `file_open_leases` rows |
| `tx` | open transaction of a FUSE or maintenance thread: advisory locks held and what its commit will do |
| `up`, `handle` | running mounts, `fh_table` |
| `call` | how far the FUSE callback of a mount has got, with what it resolved |
| `todo` | ids that `purge_orphaned_unlinked_files` selected and has not purged yet |
| `lapsed` | history: open handles whose lease or session has expired |

Callbacks resolve names in one step and act in a later one, as the code does;
what they act on is checked again under the locks. A transaction whose decision
depends on open leases is split: one step takes the locks and decides
(`UnlinkBegin`, `RenameBegin`, `CallPurge`, `PurgeOrphan`), `Remove` is the
second look that every purge takes in
`remove_primary_file_or_promote_hardlink_on_conn`, and `Commit` or `Abort` ends
it. Leases are released and renewed, sessions revived and time passes in between,
since none of these takes the lifecycle lock. Transactions that decide on the
namespace alone (`Create`, `LinkCommit`, `RegisterLease`) are one step that needs
their locks free. `CreateReply` and `CreateFails` are the end of a create;
`RollbackPromote` and `CallPurge` are the two transactions of its rollback.

Abstractions. All names are in one directory. Advisory locks are requested in
sorted order or tried, so a transaction gets all of them in one step. Write
ownership, permissions, the inode-seed lock and connection errors appear only as
`CallFails`. The release of the data object by a purge, and the effects of a
COMMIT that is replayed long after it succeeded, are left out (a
lost acknowledgement is part of `Create` and `RegisterLost`, where it changes
what the callback does next). The batch limit of 64 orphans is above the number
of files. A mount serves one callback at a time (one event thread).

`BlockOverlay` holds the pure algorithms of a buffered write: how a byte range is
laid over blocks, what a truncation does to the last block, which blocks a flush
stores and in which form (the persist plan, with unchanged chunks left out), and
how a read puts the layers together. Bytes are values, a block is a sequence of
them. `WriteBuffer` runs these algorithms in the callbacks of event threads.

| state | code |
|-------|------|
| `db` | size and `data_blocks` rows of the file |
| `opened`, `states` | writable handles and `write_states` of each mount |
| `recent` | `recent_write_blocks` |
| `cb` | the callback of each event thread, split where it lets go of the table of states or of the database |
| `posix` | reference: the size and, for every byte, the values that the replies given so far allow |

A callback that succeeds leaves one value possible, one that fails leaves the old
and the new one. One mount at a time has writable handles, which is what
`WriteOwnership` provides.

`ReadCache` is the block cache of a mount: reads with `ReadFillCoordinator`, the
generation gate (`epoch`, `cacheEpoch`), `recent_write_blocks`, local changes with
their invalidation, commits of other mounts, and the reload of the limit. Changes
overlap, also of one block: a flush holds only the lock of its handle (`fs.rs`
10247). The content of a block is the number of its last commit; `acked` is the
newest one that a local reply promised, `settled` the newest one promised by a
change that met no other change of the block.

`Connections` is the shared pool with its two lanes, the admission gates, the
targets with their generations and the promotion guard. `srv` are the servers,
which become unreachable, restart, are promoted, demoted or replaced by one of
another cluster (`Fault`); `tgt` is `DbRepoConnectionTargetState`; `transition`
the mutex that `connect_new` and `mark_operation_connection_failure` hold; `pool`
and `gates` the counters with their waiters; `op` how far the operation of each
thread has got. A step is one critical section or one exchange with a server.

`ReplicaReads` counts WAL positions in commits. `barrier` is the position that a
replica must have replayed, or the order to use the primary; `rt` the scored
replicas with circuit breakers; `done` the position of the last acknowledged
write, `owed` what was acknowledged when the position in force was asked for.
Asking and recording are two steps, and so are the two looks of
`replica_is_caught_up` at the barrier. `StartStatement` is a statement that changes
nothing and asks all the same, such as those of the runtime-reload thread. The
primary always answers here; its failover is in `Connections`.

`PosixLocks` has the rows of `lock_range_leases` as the authority, the mirror
and the owners of each mount, the heartbeat thread that renews what both name,
and the polling of `F_SETLKW` with its wait edges. A row carries its age; one of
age `Ttl` has expired. `held` is the reference: what POSIX says each client
holds, byte by byte: more when a request is answered, less when the transaction
of an unlock or of a downgrade commits, or at a close. `FlockLeases` is the whole-file lease: one transaction under
a try-lock, whose outcome is stored under the request token that a replay reads.

`DirectoryTree` has directories, symlinks with their aliases and special files
as rows. A call resolves names in statements of its own, then takes the advisory
keys of the names, looks again and changes rows. `names` is the reference: the
names that the committed calls leave by POSIX; `answers` what creating calls did
and were told. Permissions are left out, and so are row locks that only delay.

`DataObjects` has files that refer to shared objects with counters, and the
payload quota. A transaction reads counters without a lock, takes row locks one
by one and holds them, like its advisory locks, to its end; the server may make
it a deadlock victim. `truth` is what the committed calls make of each file.

`Materialization` imports files of a source directory: validation, the plan row
with lease and fencing token, one fenced transaction per step with a replay after
a lost connection, rollback, and `cleanup-failed` by an operator, while the
source is edited, processes die and mounts link imported files from outside. An
edit may empty a file: a reference that is found empty gets no payload.
`IndexCatalog` has the commands before that: scan, hash (of all files, or
with `--candidates-only`), duplicate sets, dry-run plan of one source or of all, and
clean, revalidated reads and snapshots of the catalogue; every statement outside a
transaction commits by itself. A content has a size and a sample, which different
contents may share.

`SchemaAdmission` has runs of `mkfs.fod` (init, upgrade, clean), statement by
statement, against mounts that resolve their route, read a snapshot of the
schema, create runtime objects and register a session, with a standby that
replays late. What a migration does to the tables is one level; `once` are the
migrations that fail when they are applied a second time (0033, 0034, 0036 and 0039
add a constraint or a column without `IF NOT EXISTS`).

`MCWriteOwnership` and `MCFileLifecycle` add symmetry sets; `MCWriteBuffer`,
`MCDirectoryTree`, `MCReplicaReads` and `MCSchemaAdmission` the deployments of
violations. `MCComponents` and
`MCDatabase` compose the modules of a mount process and those of the shared
database into one model each: a variable `part`, chosen at the start, says which
of them moves, and the deployments that each is looked at in are listed there. In
`MCComponents` the other parts rest in an initial state, so that their invariants
are looked at as they stand; the write buffer, and in `MCDatabase` all but the
tree and the whole-file leases, are switched off instead. `MCComponentsLive` does the same for liveness. The `...Proofs` modules hold the
theorems.

## Runs

| run | instance | checks | result |
|-----|----------|--------|--------|
| `ownership` | 2 mounts, 2 opens in all, 1 file, 1 event thread, TTL 2 | `TypeOK`, `InFlightIsCurrent`, `LegacyExcluded`, `ReleaseExact`, `FencedContent`, `OrphanBecomesFree` | hold, 0.5 million states |
| `ownership_threads` | 2 event threads, 2 opens, TTL 1 | `ReleaseExact` | violated |
| `lifecycle` | 2 mounts, 2 names, 2 files, 1 hard link, no crash or maintenance | `TypeOK`, `InodeKept`, `NamesSound` | hold, 1.4 million states |
| `lifecycle_crash` | 2 mounts, one may crash, 2 names, 1 file, 2 hard links, maintenance on both | `InodeKept`, `SelectedIsNameless`, `HardlinkSurvives` | hold, 1.7 million states |
| `lifecycle_rollback` | 2 mounts, 2 names, 1 file | `NameLossSerialized` | violated |
| `components` | the deployments in `MCComponents` | the properties of a mount's parts, below | hold, 1.3 million states |
| `database` | the deployments in `MCDatabase` | the properties of the shared database, below | hold, 0.8 million states |
| `components_live` | the deployments in `MCComponentsLive` | `EveryWaitEnds`, `LeftoversFinished` | hold, 0.1 million states |
| `buffer_remount` | 2 mounts, one after the other, partial writes | `NothingLost` | violated |
| `tree_cycle` | 2 mounts, 2 directories | `TreeAcyclic` | violated |
| `replica_stale` | 2 threads, 1 replica, no fault | `AnswersCurrent` | violated |
| `upgrade_rerun` | an upgrade over two migrations, the second not applicable twice, which may die once | `RerunClearsGate` | violated |

Write ownership:

- `InFlightIsCurrent`: a persist transaction that has validated its fence carries
  the newest token of the file until it ends, whatever expires or dies meanwhile.
- `LegacyExcluded`: an unfenced transaction never overlaps a live lease.
- `ReleaseExact`: the lease of a running mount belongs to an open handle of it,
  unless a release failed (`LeaseHasHandle`), and no other handle carries an
  ownership that was given back (`ReturnedNotShared`).
- `FencedContent`: the specification implements `FencedFile`.
- `OrphanBecomesFree`: a file whose newest token no open handle of a running
  process carries becomes free.

Files:

- `InodeKept`: an open handle whose lease and session have not expired keeps its
  `files` row, whatever other mounts unlink, replace, roll back or purge.
- `NamesSound`: no name stands for two entries, although `files` and `hardlinks`
  have no common unique index, and an unlinked file never gets a name back.
- `SelectedIsNameless`: what maintenance has selected is still unlinked when it is
  purged, although the flag is not read again.
- `HardlinkSurvives`: deleting a `files` row never takes a hard link with it by
  cascade.
- `NameLossSerialized`: a file loses a name only under the lock of that name, or
  to the rollback of the create that gave it.

The parts of a mount (`components`):

- `NothingLost`: once nothing is pending PostgreSQL stores what the replies promised.
- `ReadsMatch`: a read that is answered with bytes returns the acknowledged ones, from
  whichever layer they come; and no read fails, or brings its thread down, except
  where a truncation may have shortened a block that is remembered as recently
  written (`ShortensRecent`, see below).
- `CacheCoherent`: no cached block is older than a change this mount has answered; no
  reply is older than the last change that was answered before the read began and did
  not overlap another change of the block; and a cache that was turned off stays
  empty.
- `OneServerInFlight`: the operations that run at one moment run on one server,
  the recorded primary as it was when it was validated.
- `AdoptedIsPrimary`: a mount never leaves its cluster, and adopts a server only as
  the one that can be reached and written, if the servers did not change meanwhile.
- `CountsExact`: the counters of pool and gates are exact, and nobody waits for
  what could be had.
- `BarrierHonoured`: with any number of threads a read from a replica returns no less
  than what the mount had acknowledged when the position in force was asked for, unless
  the primary is forced between the two looks at the barrier; and lag is charged to the
  replica that had it. `AnswersCurrent`, that a read returns no less than what the
  mount had acknowledged when it began, is violated (`replica_stale`).
- `HeldExclusive`: no byte is held by two clients of which one may write it.
- `RangesExact`: each byte that a client outside a request holds is covered by one
  live row of the right type, and without a failed commit there are no other rows.
- `EdgesAcyclic`: the recorded wait graph has no cycle.

The shared database (`database`):

- `NamesExact`: the rows show exactly the names that the committed calls leave, each
  once.
- `CreatedOnce`: a call told "created" made its entry once, one told EEXIST made none.
- `RmdirAnswered`: nothing visible is in a directory that rmdir has locked.
- `FlockExclusive`: an exclusive whole-file lease is held alone.
- `CopyOnWrite`, `RefsExact`, `QuotaKept`: files that share an object do not see
  each other's changes, counters count, the quota holds and reserved space is not
  refused.
- `PlanTruthful`: a completed plan has every file whole (a reference whose source was
  found empty is empty), a cleaned one owns nothing, and hard links from outside
  survive.
- `CatalogueTrue`, `PlanAliasesEqual`: a hash is that of the indexed bytes, and aliases
  are equal, also across sources.
- `SnapshotKept`: a snapshot keeps the rows it took. A replay of its statement adds
  none to it when one indexer runs; beside others it adds only rows of scans that had
  taken their ids and not committed when it was taken.
- `AdmissionSafe`: an admitted mount reads a schema its release was made for, and
  the marker tells of an upgrade that died.

Liveness (`components_live`):

- `EveryWaitEnds`: reads, database operations and interrupted lock waits end, and a
  cycle of lock waits is broken.
- `LeftoversFinished`: a plan, an unlinked file and an upgrade that a dead process
  left are finished by another. An upgrade is, unless it died after a migration that
  cannot be applied twice and before the version row (`CutOff`); `RerunClearsGate`, the
  same without the exception, is violated (`upgrade_rerun`).

Deadlock is checked in the lifecycle runs. Elsewhere it is off or never reached:
in `WriteOwnership` time always passes, and in the composed models a deployment
ends when its bounded operations are done.

### Bounds

`MaxHandles` bounds the opens of all mounts together. Two are enough for two handles
that share an ownership on one mount, and for a takeover by the other mount; every
safety property of the run is proved for any number. With a TTL of two ticks a
heartbeat can come before expiry and extend a lease. No symmetry is used, as the run
checks liveness too.

The lifecycle runs split what one instance would hold (two files, a hard link,
crashes and maintenance together are 20 million states): two files are needed for
a rename that replaces an open or linked file, two hard links for a promotion
that leaves one behind. `Survivors` are the mounts that do not crash, so that
somebody is left; `Keepers` those whose maintenance thread is scheduled. One
handle per mount is enough for opens on both mounts, since leases of one mount
and of two are alike to every decision. TTL 1 separates live from expired, and a
heartbeat revives an expired session as in the code.

The write buffer is checked on one file of at most three bytes in blocks of two:
there is a whole block and one that ends inside, and writes cover a block, a part
of one, or cross into the next. Two readers, one local change and one remote
commit per block are what a stale fill needs, two writers what overlapping changes
need; two threads, two servers and two
faults what a switch of the primary under a running operation needs, three
threads what queues at a gate need. Locks are taken on two or three bytes by two
or three clients (a cycle of three). Three clients work on files of at most two
blocks, two of which share an object. Two source files are imported, with one
edit, one lost connection, one link from outside and one crash. Faults (lost
connections, failed statements, crashes) are bounded by one or two per behaviour;
two are enough for a replay that fails again.

### Fairness

`Tick` is weakly fair in `WriteOwnership`: time passes. So is the end of every
persist transaction: PostgreSQL finishes or rolls back what a client has begun.
Nothing is assumed of the mounts there: not that they call, heartbeat, prune or
release.

In `MCComponentsLive` the steps of a running thread are weakly fair. Strong
fairness is assumed where the code tries again and again: for the transition
mutex, which the platform's mutex gives to each waiter in the end; for a parked
lock request, which polls after every `park_timeout` and sooner or later polls
when no other transaction disturbs it; and for the maintenance thread of a mount
that stays up (`fs.rs` 639-695), whose loop comes back after every error. An
operator who runs `cleanup-failed` or `mkfs.fod upgrade` again until it succeeds
is part of `LeftoversFinished`. Reads end once no new reads arrive: while they do,
a waiter may lose every round to them.

## What the violated runs show

Two event threads. The code's default is one event thread (`startup.rs` 219), for
which `ReleaseExact` holds; the shipped configurations ask for eight
(`fod_config.example.ini` 61, `fod_config.ini` 44). With more than one it fails in two
ways:

- `release` gives the leases back under `write_ownership_gate`, but
  `take_handle_state` removes the handle afterwards without it. An `open` in
  between shares the ownership that is gone. Its writes are refused by the fence,
  so content stays safe, but the open should have acquired anew. This is the trace
  that `ownership_threads` reports.
- Two releases of handles that share an ownership can each see the other handle
  in the table, so neither releases. The lease stays until its TTL passes. TLC
  reports it when the conjunct `LeaseHasHandle` is checked alone.

`FencedContent`, `InFlightIsCurrent` and `LegacyExcluded` are proved for any
number of event threads.

Rollback of a create. When the open lease of a new file cannot be registered,
`create` removes the file again: `remove_primary_file_or_promote_hardlink`
promotes a hard link in one transaction and otherwise purges in a second. Both
hold only the lifecycle lock of the file. `lifecycle_rollback` shows a rename by
another mount that succeeds in between and then loses the file under its new
name. `docs/FOD_ARCHITECTURE_INVARIANTS.md` (47-48) rules such sequences out.

Two directories moved into one another. The search for the new parent below the
moved directory takes no lock (`pg.rs` 11606), so two mounts both pass it and
both commit; `tree_cycle` shows two directories that cannot be reached any more.

Remounted writer. `load_write_block` prefers `recent_write_blocks`, which no
other mount's write invalidates: `buffer_remount` shows a partial write that
stores the other mount's bytes as they were before.

Two threads and the barrier. `record_primary_wal_lsn` replaces the position in force
without comparing. A thread asks for `pg_current_wal_lsn()`, another commits, records
its own position and is answered, and the first records the older one: `replica_stale`
shows a read from a replica that has not replayed the acknowledged write.
`conclusions.md` (873-877) promises read-after-write for the process. One event thread
does not rule it out, since the runtime-reload thread asks as well (`fs.rs` 893-897).

Upgrade run again. `upgrade` records the version once, after the last migration. If it
dies after a migration that cannot be applied twice, the next run begins at the old
number, fails at that migration, and so does every later one, while the marker keeps
mounts out: `upgrade_rerun` shows it, where `docs/OPERATIONS.md` (126-127) says that
running `mkfs.fod upgrade` again resumes and clears the gate.

## Where the passing deployments end

The deployments of the passing runs leave out what the following says. TLC was
run on these cases while the modules were written.

Write buffer. `MCWriteBuffer` names the deployments that lose acknowledged bytes
or fail a read, one per cause; `buffer_remount` is one of them. The others: two
event threads of a mount that merge and put back sibling buffers
(`write_buffer.rs` 757); a short stored block after a truncation to an inner
offset (`write_buffer.rs` 548, `fs.rs` 8420); a truncation by path beside a
pending buffer (`fs.rs` 8747); a COMMIT of unknown outcome
(`write_buffer.rs` 415); the transports other than `copy_binary_staging`
(`pg.rs` 13829-13858); a clean state that hides a copy (`fs.rs` 11269); and a
load that fails after siblings were taken (`fs.rs` 10435).

Event threads. Lifecycle, write buffer and locks are checked with one event thread per
mount (locks also with two threads for one client each), the default of the code but
not of the shipped configurations. What the write buffer and the locks do beyond that is said in
the paragraphs about them.

Reads of shortened blocks. Where recent blocks are remembered, a truncation inside a
block leaves it short, and a later read of the file may panic or fail
(`write_buffer.rs` 548). The deployments of `components` that truncate and remember
allow it (`ShortensRecent`), so `ReadsMatch` says of them only that no wrong bytes are
returned. `ReadsSucceed` says that no read fails; deployment `ShortBlock` of
`MCWriteBuffer` violates it.

Read cache. Of two flushes of one block that overlap, the one that committed first may
put its block over the newer one in `recent_write_blocks`, where reads find it before
the cache and the database. `CacheCoherent` excepts it; the model has it.

Locks. With one event thread a blocking `F_SETLKW` parks the only thread of the
mount (`docs/ERRNO_REFERENCE.md`). With two the mirror may be stale, and a
heartbeat, whose UPDATE does not look at the expiry, renews rows by it.
`clear_locks_for_owner` clears the owner's locks on all files. An EIO after a lost
COMMIT leaves the mirror stale until the next request.

Directory tree. A creation replayed after its own entry was moved or removed
makes a second row with the same seed; `CreatedOnce` is checked without movers in
that deployment. Two mounts that make the same link are both told it was made. A
rename that replaces a directory which gains a child in between, and a rename of a
symlink's alias, end in EIO.

Data objects. Counters are exact, but the decision "shared or not" is made from a
count read before the row was locked, so an object may be left with count 0; it
then counts against the quota. A reservation replayed after a lost COMMIT counts
its own first attempt, and a stored copy counts twice until its reservation is
released. A copy takes the quota lock before its rows and others after, so the
server may have to break a circle. An in-place persist against a purge after lease
expiry, and an adoption whose UPDATE touches no row, are left out.

Imports. A reference whose source became empty is created without a payload, and the
plan completes; `PlanTruthful` says which files that is. A lost COMMIT of "completed"
is reported as an error while the rollback is refused. Mounts that write or rename
imported files meanwhile are not modelled. Catalogue: a plan without a new hash after a
second scan aliases files that differ, and two indexers at once lose each other's
rebuild of the duplicate sets. A snapshot replayed beside another indexer may gain the
rows that were in flight when it was taken.

Schema administration. An init beside a dying upgrade, beside an upgrade of
another release or beside another init overwrites what the other wrote; an init
killed between its schema and its configuration rows, then upgraded, leaves mounts
that refuse to start; clean followed by init of an older release between a mount's
snapshot and its registration admits it below its schema. A late heartbeat of a
paused mount revives an expired session during an upgrade. Mounts in degraded mode
hold no session. `latest_schema_shape_matches` wants one column of the latest schema to
be missing (`main.rs` 637-644), so that no schema of the latest release matches and an
upgrade without a version row starts from the first migration; the test at
`schema_upgrade.rs` 847-870 expects it to recover. The deployments of `database` have one administrator at a time
but for a second upgrade, or an init beside it on an empty database.

## Proofs

Every theorem is proved for all values of the constants: any number of mounts,
files, threads, servers, replicas, owners, and any bound on faults.

| theorem | states | assumes |
|---------|--------|---------|
| `WriteOwnershipProofs!TypeCorrect` | `Spec => []TypeOK` | `ConstantsOK` |
| `WriteOwnershipProofs!TakeoverWaits` | `Spec => []InFlightIsCurrent` | `ConstantsOK` |
| `WriteOwnershipProofs!UnfencedExcluded` | `Spec => []LegacyExcluded` | `ConstantsOK` |
| `WriteOwnershipProofs!Refinement` | `Spec => FencedContent` | `ConstantsOK` |
| `WriteOwnershipProofs!ReleaseIsExact` | `Spec => []ReleaseExact` | `ConstantsOK`, one event thread |
| `FileLifecycleProofs!LifecycleTypes` | `Spec => []TypeOK` | `ConstantsOK`, `NoneIsApart` |
| `FileLifecycleProofs!OpenInodeKept` | `Spec => []InodeKept` | the same |
| `FileLifecycleProofs!NamesStaySound` | `Spec => []NamesSound` | the same |
| `FileLifecycleProofs!SelectedStaysNameless` | `Spec => []SelectedIsNameless` | the same |
| `FileLifecycleProofs!HardlinksSurvive` | `Spec => HardlinkSurvives` | the same |
| `ConnectionsProofs!InFlightOnOneServer` | `ConnSpec => []OneServerInFlight` | `ConnConstants` |
| `ConnectionsProofs!AdoptsThePrimary` | `ConnSpec => AdoptedIsPrimary` | `ConnConstants` |
| `ConnectionsProofs!CountsAreExact` | `ConnSpec => []CountsExact` | `ConnConstants` |
| `ReadCacheProofs!CacheStaysCoherent` | `CacheSpec => []CacheCoherent` | `CacheConstants` |
| `ReplicaReadsProofs!BarrierHolds` | `RouteSpec => []BarrierHonoured` | `RouteConstants` |
| `FlockLeasesProofs!FlockExclusion` | `FlockSpec => []FlockExclusive` | `FlockConstants` |
| `PosixLocksProofs!LocksHeldApart` | `LockSpec => []HeldExclusive` | `LockConstants` |
| `PosixLocksProofs!LockRangesExact` | `LockSpec => []RangesExact` | `LockConstants` |
| `DirectoryTreeProofs!NamesStayExact` | `TreeSpec => []NamesExact` | `TreeConstants` |
| `DirectoryTreeProofs!RmdirKeepsEmpty` | `TreeSpec => []RmdirAnswered` | `TreeConstants` |

Beside these, `LifecycleInvariant`, `ConnectionInvariant`, `CacheInvariant`,
`GenerationInvariant`, `FlockInvariant`, `LockInvariant` and `TreeInvariant` state the inductive invariants
themselves.

The assumptions say that numbers are naturals, that the fields of a deployment
have their types, that there is at least one target or replica and a positive
threshold or lease period, and that the model values for "none" differ from what
they stand beside. `LockConstants` asks more: a lease outlives two heartbeats
(`Ttl >= 2`); where time passes or files are closed a mount has one event thread or
one client, without which the mirror may be stale (see above); and closing is about
one file, as `clear_locks_for_owner` drops the owner's locks on all of them.
`TreeConstants` says that the tree begins with unique names. TLC evaluates all of
them: `ConstantsOK` and `NoneIsApart` in every run of their modules; the others,
which are hypotheses of the theorems, in `components` and `database` (`ConstantsOK`
of `MCComponents` and of `MCDatabase`).

Write ownership. None of the invariants is inductive alone. `IInv` adds to the
types: a handle number not drawn yet has no entry (`FreshHandles`) and no lease
(`FreshOwners`), so an acquisition never finds a row of its own and always draws
a new token; a lease that exists carries the newest token of its file, which no
sequence value exceeds (`LeaseIsNewest`); a running callback has a handle
(`RunningIsOpen`); and a transaction in progress holds the advisory lock of its
file and carries the newest token (`LockedInFlight`). The argument is then: a
grant needs the lock free, so no transaction is in progress on the file; fence
validation compares with a row that carries the newest token, so a transaction
starts with it; nothing but a grant raises it. There is one lemma for each group
of actions, and the refinement maps each action to a step of `FencedFile` or a
stutter.

`ReleaseExact` rests on `RInv`. `LeaseHasHandle` is not inductive as it stands:
it also counts handles that are about to leave the table. The invariant says
instead that a live lease is carried by a handle that does not yet go
(`LeaseCarried`); with one event thread the handle that shares an ownership with
the one being released is idle, so that the release sees it and leaves the lease
to it. The run `ownership_threads` shows why the assumption of one thread cannot be
dropped.

Files. The argument is about the advisory keys. Open transactions hold disjoint
keys (`LocksApart`); what a transaction decided under them stays true until it
commits (`TransactionSound`), because whoever changes the rows of a locked file,
or gives or takes a locked name, holds the same key. Leases are not held by a key:
a purge is decided when no lease is active, handles opened before that have
lapsed, and a later open needs the key (`HandlesBacked`). `TablesSound` is the
unique index that `files` and `hardlinks` do not have. `NameLossSerialized` is not
a theorem, as `lifecycle_rollback` shows.

Connections. A connection of the generation in force leads to the recorded
primary as it was validated, and while no generation is in force nobody has a
current connection, so that no operation can begin (`GuardInv`); only the holder of
the transition mutex looks for another primary (`Mutex`), and what its scan has
found is exact as long as the servers did not change (`ScanInv`). `PoolInv` counts:
the live connections are those cached and held, and while somebody waits the
connections held and the threads that are on their way to give or take one make up
the limit. `GateInv`: the queue of a gate holds each queued thread once, and is
empty unless the gate is full. The last two need the cardinalities of sets of
threads before and after each step; the lemmas about them come first.

Read cache. `CacheInv` follows a row from the fetch to the reply, with any number of
changes under way. No stamp runs ahead of the generations, and what was fetched under a
stamp that is still current is as new as every answered change of the file (`StampOK`):
the stamp was taken before the fetch, and a change moves the generation after its
commit and before its answer. So only such rows are inserted (`InsertOK`), and what is
cached is as new as what was answered (`StoresInv`). Recently written blocks are stored
without a generation, in any order. What is claimed of them is about the blocks that a
change has for itself (`Apart`): none is older than such a change once it is stored
(`RecentOK`), so they are as new as `settled`, and a read holds nothing older than
what was settled before it began (`FloorOK`). A hole punch is the delicate case: it
clears the cache, then the recently written blocks, and is answered without looking at
the cache again, so that a block cached in between must be as new as every punch under
way already (`NotBehind`).

Replica reads. `GenInv`: a generation has one replica. `BarrierInv`: the barrier covers
`owed` or forces the primary; a position on its way to it covers what was acknowledged
when it was asked for; and whichever is recorded next, it covers what the reads on
their way are owed. This last is why a barrier that moves backwards is no harm to a
read held against it: what such a read is owed was acknowledged before the older
position was asked for.

Whole-file leases. The rows decide: an owner has at most one (`OneRow`), live rows
of different owners do not conflict (`RowsAgree`, which is why one look at the
first foreign row is enough), and behind whatever an owner was told or is about to
be told is a live row at least as strong (`Backed`, `CallSound`).

Record locks. The proof is about `Due`, what the rows have to say of a byte: what
the client holds or, between the commit of its request and the answer, what it asked
for. Nothing is held that is not due (`HeldLow`), what is due to two clients does not
conflict (`DueApart`, since `Refused` looks at the rows under the key of the file), and
every due byte has a row of its type (`Covered`), only one (`OwnDisjoint`). That such
a row never lapses is the longer half: `Renewed` says that it is young while its
request is in flight or once the round of the heartbeat has passed it, and that
otherwise the mirror names it and its owner is registered (`OwnersOK`), so that the
next round renews it. The mirror is replaced by rows that were read earlier; `SeenOK`
says that what was read is still so for the clients of that mount, which needs one
event thread or one client (`OneActive`). `Exact` is the converse of `Covered`, lost
once a commit has failed on the client's side. The lemmas about `Remains` and
`ReplaceRows` do the algebra of ranges for any intervals. TLC checked `LockInv`
on the deployments of `components` and three more: two failed commits, two files, and
two threads without a clock.

Directory tree. Transactions hold disjoint keys and disjoint locks of symlinks. A row
other than an alias changes only under the key of its name, an alias is removed only
under the lock of its symlink, and a free name is given only under its key; so what a
call found under its keys is still so when it commits, also when the commit's answer
is lost and the body runs again. `names`, the reference, is changed by the same
commits, and `NamesExact` follows. Nothing comes into a directory that rmdir has
locked, because whoever fills it shares a lock of the parent (`Apart`).

Only model-checked:

- Liveness (`OrphanBecomesFree`, `EveryWaitEnds`, `LeftoversFinished`): fairness and
  `ENABLED` are out of the prover's reach.
- `NothingLost` and `ReadsMatch`: they rest on what the block algorithms compute
  from sequences of bytes, which takes induction over data.
- `EdgesAcyclic`: the search of the wait graph is a transitive closure, again an
  induction over data.
- `CreatedOnce`: not a theorem for every tree, as a creation replayed after its own
  entry was moved makes a second row.
- What `database` checks of data objects, imports, the catalogue and the schema. Quota
  and plans are sums and sequences over rows, which take folds; the others hold in the
  deployments that the section above delimits, and were not attempted.

## Not modelled

Permissions, ACLs and extended attributes (sequential checks and single-statement
updates), monitoring (reads only), configuration and bootstrap (parsing and I/O),
the FFI and client library (marshalling; its unfenced writes are in
`WriteOwnership`), and the vendored FUSE library. Ownership taken by create, rename
and unlink, where the path and the file part ways; degraded read-only mounts; the
in-memory lock backend; the CRC rows of data blocks; the metadata and statfs
caches, which expire by time; the registry of sources, listing and paging of the
indexer; the chunking of transfers over workers.

The inode table of `fs.rs` (`path_to_inode`, `inode_to_path`, `lookup_refs`) is not
modelled either. What reading it shows, unchecked: `register_lookup_path` keeps an
existing reverse path even when it is dead, so that an inode the kernel still holds
may be answered ENOENT after a rename elsewhere; a rename over a file that is open
on the same mount drops its handles (`fs.rs` 9818, `TODO.md` 365); lookup and
getattr resolve the name and read the attributes in separate queries (`TODO.md`
1455).
