--------------------------- MODULE WriteOwnership ---------------------------
(***************************************************************************)
(* Cross-mount write ownership and fencing.                                *)
(*                                                                         *)
(* PostgreSQL side (rust_hotpath/src/pg.rs): client_sessions, the          *)
(* destination and file write leases with their fencing-token sequences,   *)
(* the advisory transaction lock fod:write:file:{id}, and the content of   *)
(* the file.  Mount side (rust_fuse/src/fs.rs): the handle table, whose    *)
(* entries share one ownership per file and mount, and the callbacks that  *)
(* open, write, flush and release handles.                                 *)
(*                                                                         *)
(* A mount is one run of the FOD process, so it registers one session.     *)
(* Handle numbers are allocated per mount, never reused, and serve as        *)
(* owner keys.  A path is identified with the file it names: the namespace *)
(* does not change here.  lease_expires_at is kept as the time left to it: *)
(* 0 once it has passed, TTL when it has just been set; sessions and write *)
(* leases have the same TTL (client_session_lease_ttl_seconds).            *)
(***************************************************************************)
EXTENDS Naturals, FiniteSets

CONSTANTS
  Mounts,        \* runs of the FOD process
  MaxHandles,    \* bound on the handles the mounts open
  Files,         \* files, each with the path it is opened by
  EventThreads,  \* FOD_FUSE_EVENT_THREADS: callbacks a mount runs at once
  TTL,           \* client_session_lease_ttl_seconds, in ticks
  NoSession, NoLease, NoHandle, Free, Legacy

Handles == 1..MaxHandles

Owners == Mounts \X Handles

\* A row of destination_write_leases or file_write_leases.
LeaseRow == [mount : Mounts, owner : Handles, token : Nat \ {0},
             left : 0..TTL]

\* FileHandleState with its FileWriteOwnership; dtok and ftok are the
\* destination and file fencing tokens.
HandleRow == [file : Files, owner : Handles, dtok : Nat \ {0}, ftok : Nat \ {0}]

ASSUME ConstantsOK ==
  /\ MaxHandles \in Nat
  /\ EventThreads \in Nat \ {0}
  /\ TTL \in Nat \ {0}
  /\ NoSession \notin 0..TTL
  /\ NoLease \notin LeaseRow
  /\ NoHandle \notin HandleRow
  /\ Free # Legacy
  /\ Free \notin Owners
  /\ Legacy \notin Owners

VARIABLES
  process,    \* mount process: "new", "up" or "dead"
  session,    \* time left to its client_sessions row, or NoSession
  destLease,  \* destination_write_leases, by path
  fileLease,  \* file_write_leases, by file
  destSeq,    \* last value of the destination token sequence
  fileSeq,    \* last value of the file token sequence
  lock,       \* holder of the advisory lock fod:write:file:{id}
  content,    \* token of the last committed replacement, 0 if unfenced
  table,      \* fh_table of each mount
  nextFh,     \* next handle number of each mount
  dirty,      \* handles with a pending WriteState
  pc,         \* where the callback running on a handle is
  beat,       \* ownerships the heartbeat thread has collected and not renewed yet
  granted,    \* history: highest file token granted on a file
  kept        \* history: files whose lease a failed release left to expire

vars == <<process, session, destLease, fileLease, destSeq, fileSeq, lock,
          content, table, nextFh, dirty, pc, beat, granted, kept>>

dbVars == <<destLease, fileLease, destSeq, fileSeq>>
mountVars == <<table, nextFh, dirty, pc, beat>>
history == <<granted, kept>>

-----------------------------------------------------------------------------
(* Leases *)

Live(row) == row # NoLease /\ row.left > 0

SessionLive(m) == session[m] # NoSession /\ session[m] > 0

HeldBy(row, m, o) == row # NoLease /\ row.mount = m /\ row.owner = o

\* DELETE ... WHERE lease_expires_at <= clock_timestamp()
Pruned(row) == IF Live(row) THEN row ELSE NoLease

\* SELECT EXISTS (a live row that is not this session's and owner's)
Conflict(row, m, o) == Live(row) /\ ~HeldBy(row, m, o)

\* INSERT ... ON CONFLICT DO UPDATE: an existing row of the same owner keeps
\* its token, a new row takes the next one of the sequence.
Upsert(row, m, o, next) ==
  IF row = NoLease
  THEN [mount |-> m, owner |-> o, token |-> next, left |-> TTL]
  ELSE [row EXCEPT !.left = TTL]

\* The WHERE clause of a heartbeat or a release.
Matches(row, m, o, token) == HeldBy(row, m, o) /\ row.token = token

-----------------------------------------------------------------------------
(* Handles *)

InTable(m, h) == table[m][h] # NoHandle

\* Callbacks in progress on the event-loop threads of a mount.
Running(m) == {h \in Handles : pc[m][h] # "idle"}

ThreadFree(m) == process[m] = "up" /\ Cardinality(Running(m)) < EventThreads

FileOf(m, h) == table[m][h].file

\* A callback that has something to persist, before and inside its transaction.
PersistStates == {"openPersist", "writePersist", "persist", "relPersist"}

MustPersist(m, h) == pc[m][h] \in {"open", "write", "flush", "relFlush"}
InPersist(m, h) == pc[m][h] \in PersistStates

Init ==
  /\ process = [m \in Mounts |-> "new"]
  /\ session = [m \in Mounts |-> NoSession]
  /\ destLease = [f \in Files |-> NoLease]
  /\ fileLease = [f \in Files |-> NoLease]
  /\ destSeq = 0
  /\ fileSeq = 0
  /\ lock = [f \in Files |-> Free]
  /\ content = [f \in Files |-> 0]
  /\ table = [m \in Mounts |-> [h \in Handles |-> NoHandle]]
  /\ nextFh = [m \in Mounts |-> 1]
  /\ dirty = [m \in Mounts |-> {}]
  /\ pc = [m \in Mounts |-> [h \in Handles |-> "idle"]]
  /\ beat = [m \in Mounts |-> {}]
  /\ granted = [f \in Files |-> 0]
  /\ kept = {}

-----------------------------------------------------------------------------
(* Time and client sessions *)

Older(left) == IF left > 0 THEN left - 1 ELSE 0

\* PostgreSQL's clock advances: clock_timestamp() is the only one consulted.
Tick ==
  LET OlderRow(row) == IF row = NoLease THEN row
                       ELSE [row EXCEPT !.left = Older(@)]
  IN  /\ session' = [m \in Mounts |-> IF session[m] = NoSession THEN NoSession
                                      ELSE Older(session[m])]
      /\ destLease' = [f \in Files |-> OlderRow(destLease[f])]
      /\ fileLease' = [f \in Files |-> OlderRow(fileLease[f])]
      /\ UNCHANGED <<process, destSeq, fileSeq, lock, content, mountVars, history>>

\* register_client_session, once per mount.
Register(m) ==
  /\ process[m] = "new"
  /\ process' = [process EXCEPT ![m] = "up"]
  /\ session' = [session EXCEPT ![m] = TTL]
  /\ UNCHANGED <<dbVars, lock, content, mountVars, history>>

\* Mutant: a heartbeat adds the TTL to the time left.
HeartbeatAdds(m) ==
  /\ process[m] = "up"
  /\ session[m] # NoSession
  /\ session' = [session EXCEPT ![m] = @ + TTL]
  /\ UNCHANGED <<process, dbVars, lock, content, mountVars, history>>

\* heartbeat_client_session renews the row whether or not it has expired; a
\* pruned row is not recreated.
HeartbeatSession(m) ==
  /\ process[m] = "up"
  /\ session[m] # NoSession
  /\ session' = [session EXCEPT ![m] = TTL]
  /\ UNCHANGED <<process, dbVars, lock, content, mountVars, history>>

\* prune_expired_client_sessions, on the maintenance thread of any mount, deletes
\* every expired session; its leases go with it (ON DELETE CASCADE), whether or
\* not they have expired themselves.
PruneSessions ==
  LET stale == {m \in Mounts : session[m] = 0}
      Cascade(row) == IF row # NoLease /\ row.mount \in stale THEN NoLease ELSE row
  IN  /\ stale # {}
      /\ \E m \in Mounts : process[m] = "up"
      /\ session' = [m \in Mounts |-> IF m \in stale THEN NoSession ELSE session[m]]
      /\ destLease' = [f \in Files |-> Cascade(destLease[f])]
      /\ fileLease' = [f \in Files |-> Cascade(fileLease[f])]
      /\ UNCHANGED <<process, destSeq, fileSeq, lock, content, mountVars, history>>

\* The process dies with its handle table and buffers.  A transaction it had
\* open stays with its PostgreSQL backend until that commits or rolls back.
Crash(m) ==
  /\ process[m] = "up"
  /\ process' = [process EXCEPT ![m] = "dead"]
  /\ table' = [table EXCEPT ![m] =
                 [h \in Handles |-> IF InPersist(m, h) THEN @[h] ELSE NoHandle]]
  /\ dirty' = [dirty EXCEPT ![m] = {}]
  /\ pc' = [pc EXCEPT ![m] =
              [h \in Handles |-> IF InPersist(m, h) THEN @[h] ELSE "idle"]]
  /\ beat' = [beat EXCEPT ![m] = {}]
  /\ UNCHANGED <<session, dbVars, lock, content, nextFh, history>>

-----------------------------------------------------------------------------
(* Ownership *)

\* Mutant: acquisition does not try the advisory lock.
UnlockedAcquire(m, f) == SessionLive(m)

\* acquire_write_ownership reaches its lease checks: the non-blocking advisory
\* try-locks succeed and the session is live.
ReachesLeaseChecks(m, f) == lock[f] = Free /\ SessionLive(m)

\* It finds no live lease of another owner on the path or on the file.
CanAcquire(m, o, f) ==
  /\ ReachesLeaseChecks(m, f)
  /\ ~Conflict(destLease[f], m, o)
  /\ ~Conflict(fileLease[f], m, o)

\* The rows it then leaves.
AcquiredDest(m, o, f) == Upsert(Pruned(destLease[f]), m, o, destSeq + 1)
AcquiredFile(m, o, f) == Upsert(Pruned(fileLease[f]), m, o, fileSeq + 1)

\* Handles of the mount whose ownership a further open of f shares
\* (local_write_ownership_for_file).
LocalOwnership(m, f) == {h \in Handles : InTable(m, h) /\ FileOf(m, h) = f}

\* next_handle.  A number that a failed open drew is drawn again, so the bound
\* counts the other opens only.
NewHandle(m, h) ==
  /\ ThreadFree(m)
  /\ h = nextFh[m]
  /\ Cardinality({o \in Owners : o[2] < nextFh[o[1]]}) < MaxHandles

\* After the handle is in the table, open persists pending data of the other
\* handles of the mount on the file, and its own truncation (O_TRUNC).
Siblings(m, h, f) == dirty[m] \cap (LocalOwnership(m, f) \ {h})

OpenPc(m, h, f) ==
  \E next \in IF Siblings(m, h, f) = {} THEN {"idle", "open"} ELSE {"open"} :
    pc' = [pc EXCEPT ![m][h] = next]

\* create_writable_handle_with_ownership, for the first handle of the mount on f.
OpenAcquire(m, h, f) ==
  /\ NewHandle(m, h)
  /\ LocalOwnership(m, f) = {}
  /\ CanAcquire(m, h, f)
  /\ destSeq' = destSeq + 1
  /\ fileSeq' = fileSeq + 1
  /\ destLease' = [destLease EXCEPT ![f] = AcquiredDest(m, h, f)]
  /\ fileLease' = [fileLease EXCEPT ![f] = AcquiredFile(m, h, f)]
  /\ table' = [table EXCEPT ![m][h] = [file |-> f, owner |-> h,
                                       dtok |-> AcquiredDest(m, h, f).token,
                                       ftok |-> AcquiredFile(m, h, f).token]]
  /\ granted' = [granted EXCEPT ![f] = AcquiredFile(m, h, f).token]
  /\ kept' = kept \ {f}
  /\ nextFh' = [nextFh EXCEPT ![m] = @ + 1]
  /\ OpenPc(m, h, f)
  /\ UNCHANGED <<process, session, lock, content, dirty, beat>>

\* The same, when the open lease cannot be registered afterwards: the ownership
\* just acquired is released, or stays when that fails too, and open fails.
OpenRollback(m, h, f) ==
  /\ NewHandle(m, h)
  /\ LocalOwnership(m, f) = {}
  /\ CanAcquire(m, h, f)
  /\ destSeq' = destSeq + 1
  /\ fileSeq' = fileSeq + 1
  /\ \/ /\ destLease' = [destLease EXCEPT ![f] = NoLease]
        /\ fileLease' = [fileLease EXCEPT ![f] = NoLease]
        /\ kept' = kept \ {f}
     \/ /\ destLease' = [destLease EXCEPT ![f] = AcquiredDest(m, h, f)]
        /\ fileLease' = [fileLease EXCEPT ![f] = AcquiredFile(m, h, f)]
        /\ kept' = kept \cup {f}
  /\ granted' = [granted EXCEPT ![f] = AcquiredFile(m, h, f).token]
  /\ nextFh' = [nextFh EXCEPT ![m] = @ + 1]
  /\ UNCHANGED <<process, session, lock, content, table, dirty, pc, beat>>

\* acquire_write_ownership answers "busy" (EBUSY).  The rows it pruned before it
\* met the conflict stay pruned, since the transaction commits.
OpenBusy(m, h, f) ==
  /\ NewHandle(m, h)
  /\ LocalOwnership(m, f) = {}
  /\ ReachesLeaseChecks(m, f)
  /\ Conflict(destLease[f], m, h) \/ Conflict(fileLease[f], m, h)
  /\ destLease' = [destLease EXCEPT ![f] = Pruned(@)]
  /\ fileLease' = IF Conflict(destLease[f], m, h) THEN fileLease
                  ELSE [fileLease EXCEPT ![f] = Pruned(@)]
  /\ UNCHANGED <<process, session, destSeq, fileSeq, lock, content, mountVars,
                 history>>

\* A further handle copies the ownership of a handle that is in the table.
OpenShare(m, h, f) ==
  /\ NewHandle(m, h)
  /\ \E other \in LocalOwnership(m, f) :
       table' = [table EXCEPT ![m][h] = table[m][other]]
  /\ nextFh' = [nextFh EXCEPT ![m] = @ + 1]
  /\ OpenPc(m, h, f)
  /\ UNCHANGED <<process, session, dbVars, lock, content, dirty, beat, history>>

\* heartbeat_active_write_ownerships copies the ownerships out of the handle
\* table (handles that share one have equal rows) and renews them one by one
\* after unlocking it.
HeartbeatCollect(m) ==
  /\ process[m] = "up"
  /\ beat[m] = {}
  /\ beat' = [beat EXCEPT ![m] = {table[m][h] : h \in {g \in Handles : InTable(m, g)}}]
  /\ UNCHANGED <<process, session, dbVars, lock, content, table, nextFh, dirty, pc,
                 history>>

\* The rows one transaction of heartbeat_write_ownership can renew.  It gives up
\* when the advisory lock is taken or the destination lease is not renewable,
\* and rolls back when the file lease is not.
Renewable(m, own) ==
  /\ lock[own.file] = Free
  /\ Live(destLease[own.file])
  /\ Matches(destLease[own.file], m, own.owner, own.dtok)
  /\ Live(fileLease[own.file])
  /\ Matches(fileLease[own.file], m, own.owner, own.ftok)

\* Mutant: an ownership stays collected after it was renewed.
HeartbeatForever(m) ==
  /\ process[m] = "up"
  /\ \E own \in beat[m] :
       /\ Renewable(m, own)
       /\ destLease' = [destLease EXCEPT ![own.file].left = TTL]
       /\ fileLease' = [fileLease EXCEPT ![own.file].left = TTL]
  /\ UNCHANGED <<process, session, destSeq, fileSeq, lock, content, mountVars,
                 history>>

HeartbeatOwnership(m) ==
  /\ process[m] = "up"
  /\ \E own \in beat[m] :
       /\ beat' = [beat EXCEPT ![m] = @ \ {own}]
       /\ IF Renewable(m, own)
          THEN /\ destLease' = [destLease EXCEPT ![own.file].left = TTL]
               /\ fileLease' = [fileLease EXCEPT ![own.file].left = TTL]
          ELSE UNCHANGED <<destLease, fileLease>>
  /\ UNCHANGED <<process, session, destSeq, fileSeq, lock, content, table, nextFh,
                 dirty, pc, history>>

-----------------------------------------------------------------------------
(* Callbacks on a handle.  The handle operation lock lets one run at a time *)
(* on each handle.                                                          *)

\* write: the WriteState takes the fence of the handle and becomes pending.  It
\* is persisted at once when it reaches the flush threshold, and always while
\* the file has further handles; a failure puts back what the write has taken
\* from them.
Write(m, h) ==
  /\ ThreadFree(m)
  /\ InTable(m, h) /\ pc[m][h] = "idle"
  /\ dirty' = [dirty EXCEPT ![m] = @ \cup {h}]
  /\ \/ LocalOwnership(m, FileOf(m, h)) = {h} /\ UNCHANGED pc
     \/ pc' = [pc EXCEPT ![m][h] = "write"]
  /\ UNCHANGED <<process, session, dbVars, lock, content, table, nextFh, beat, history>>

\* A callback that persists for the handle: flush, fsync, a truncate by handle,
\* copy_file_range, fallocate, or one pending sibling that read or lseek publishes.
FlushStart(m, h) ==
  /\ ThreadFree(m)
  /\ InTable(m, h) /\ pc[m][h] = "idle"
  /\ pc' = [pc EXCEPT ![m][h] = "flush"]
  /\ UNCHANGED <<process, session, dbVars, lock, content, table, nextFh, dirty, beat, history>>

\* release: a pending WriteState is flushed first.
ReleaseStart(m, h) ==
  /\ ThreadFree(m)
  /\ InTable(m, h) /\ pc[m][h] = "idle"
  /\ pc' = [pc EXCEPT ![m][h] = IF h \in dirty[m] THEN "relFlush" ELSE "relOwn"]
  /\ UNCHANGED <<process, session, dbVars, lock, content, table, nextFh, dirty, beat, history>>

\* Mutant: the token is not compared.
TokenIgnored(m, h) ==
  /\ SessionLive(m)
  /\ Live(fileLease[table[m][h].file])

\* validate_write_persistence_fence_on_conn accepts the fence of the handle.
FenceValid(m, h) ==
  LET own == table[m][h] IN
  /\ SessionLive(m)
  /\ Live(fileLease[own.file])
  /\ Matches(fileLease[own.file], m, own.owner, own.ftok)

\* The files with a lease left to expire, once that of the handle is left so.
KeptBy(m, h) ==
  LET own == table[m][h] IN
  IF Matches(fileLease[own.file], m, own.owner, own.ftok)
  THEN kept \cup {own.file} ELSE kept

\* The persist transaction waits for the advisory lock, then validates the fence.
PersistBegin(m, h) ==
  /\ process[m] = "up"
  /\ MustPersist(m, h)
  /\ lock[FileOf(m, h)] = Free
  /\ FenceValid(m, h)
  /\ lock' = [lock EXCEPT ![FileOf(m, h)] = <<m, h>>]
  /\ pc' = [pc EXCEPT ![m][h] = CASE @ = "open" -> "openPersist"
                                 [] @ = "write" -> "writePersist"
                                 [] @ = "flush" -> "persist"
                                 [] OTHER -> "relPersist"]
  /\ UNCHANGED <<process, session, dbVars, content, table, nextFh, dirty, beat,
                 history>>

\* A flush that fails keeps the buffer for a later attempt.  An open that fails
\* gives its ownership back.  A release that fails to flush drops the handle
\* without releasing the ownership.
Fail(m, h) ==
  /\ pc' = [pc EXCEPT ![m][h] = CASE @ \in {"open", "openPersist"} -> "relOwn"
                                 [] @ \in {"relFlush", "relPersist"} -> "remove"
                                 [] OTHER -> "idle"]
  /\ kept' = IF pc[m][h] \in {"relFlush", "relPersist"} THEN KeptBy(m, h) ELSE kept

\* The fence is stale: FOD_WRITE_OWNERSHIP_FENCE_REJECTED, nothing is written.
PersistReject(m, h) ==
  /\ process[m] = "up"
  /\ MustPersist(m, h)
  /\ lock[FileOf(m, h)] = Free
  /\ ~FenceValid(m, h)
  /\ Fail(m, h)
  /\ UNCHANGED <<process, session, dbVars, lock, content, table, nextFh, dirty, beat,
                 granted>>

Unlock(f) == lock' = [lock EXCEPT ![f] = Free]

\* The handle leaves the table; of a dead process nothing else was left.
Forget(m, h) ==
  /\ table' = [table EXCEPT ![m][h] = NoHandle]
  /\ pc' = [pc EXCEPT ![m][h] = "idle"]
  /\ dirty' = [dirty EXCEPT ![m] = @ \ {h}]

\* The acknowledgement of COMMIT reaches the callback: the buffers it persisted
\* are clean, all of the file's after a write, which merges them, and one (its
\* own or the one it published, pending or not) after another callback.
Acknowledge(m, h) ==
  \/ /\ pc[m][h] = "writePersist"
     /\ pc' = [pc EXCEPT ![m][h] = "idle"]
     /\ dirty' = [dirty EXCEPT ![m] = @ \ LocalOwnership(m, FileOf(m, h))]
  \/ /\ pc[m][h] = "persist"
     /\ pc' = [pc EXCEPT ![m][h] = "idle"]
     /\ \E g \in LocalOwnership(m, FileOf(m, h)) :
          dirty' = [dirty EXCEPT ![m] = @ \ {g}]
  \/ /\ pc[m][h] = "relPersist"
     /\ pc' = [pc EXCEPT ![m][h] = "relOwn"]
     /\ dirty' = [dirty EXCEPT ![m] = @ \ {h}]
  \/ /\ pc[m][h] = "openPersist"
     /\ Siblings(m, h, FileOf(m, h)) = {}
     /\ pc' = [pc EXCEPT ![m][h] = "idle"]
     /\ UNCHANGED dirty
  \/ /\ pc[m][h] = "openPersist"
     /\ \E g \in Siblings(m, h, FileOf(m, h)), next \in {"open", "idle"} :
          /\ next = "open" \/ Siblings(m, h, FileOf(m, h)) = {g}
          /\ pc' = [pc EXCEPT ![m][h] = next]
          /\ dirty' = [dirty EXCEPT ![m] = @ \ {g}]

PersistCommit(m, h) ==
  /\ InPersist(m, h)
  /\ content' = [content EXCEPT ![FileOf(m, h)] = table[m][h].ftok]
  /\ Unlock(FileOf(m, h))
  /\ \/ process[m] = "up" /\ Acknowledge(m, h) /\ UNCHANGED table
     \/ process[m] = "dead" /\ Forget(m, h)
  /\ UNCHANGED <<process, session, dbVars, nextFh, beat, history>>

\* COMMIT is executed but its acknowledgement is lost: transactional_replayable
\* runs the body again, fence validation included.
PersistCommitLost(m, h) ==
  /\ process[m] = "up"
  /\ InPersist(m, h)
  /\ content' = [content EXCEPT ![FileOf(m, h)] = table[m][h].ftok]
  /\ Unlock(FileOf(m, h))
  /\ pc' = [pc EXCEPT ![m][h] = CASE @ = "openPersist" -> "open"
                                 [] @ = "writePersist" -> "write"
                                 [] @ = "persist" -> "flush"
                                 [] OTHER -> "relFlush"]
  /\ UNCHANGED <<process, session, dbVars, table, nextFh, dirty, beat, history>>

\* The transaction rolls back: a later statement fails, or the backend notices
\* that its client is gone.
PersistAbort(m, h) ==
  /\ InPersist(m, h)
  /\ Unlock(FileOf(m, h))
  /\ \/ process[m] = "up" /\ Fail(m, h) /\ UNCHANGED <<table, dirty>>
     \/ process[m] = "dead" /\ Forget(m, h) /\ UNCHANGED kept
  /\ UNCHANGED <<process, session, dbVars, content, nextFh, beat, granted>>

\* release_write_ownership_for_handle, under write_ownership_gate: nothing to do
\* while another handle of the table carries the ownership, else the rows that
\* still match the tokens are deleted.
SharedLocally(m, h) ==
  \E other \in Handles \ {h} :
    InTable(m, other) /\ table[m][other].owner = table[m][h].owner

ReleaseShared(m, h) ==
  /\ process[m] = "up"
  /\ pc[m][h] = "relOwn"
  /\ SharedLocally(m, h)
  /\ pc' = [pc EXCEPT ![m][h] = "remove"]
  /\ UNCHANGED <<process, session, dbVars, lock, content, table, nextFh, dirty, beat,
                 history>>

\* Mutant: the ownership is released although another handle carries it.
ReleaseAlways(m, h) ==
  LET own == table[m][h]
  IN  /\ process[m] = "up"
      /\ pc[m][h] = "relOwn"
      /\ pc' = [pc EXCEPT ![m][h] = "returned"]
      /\ destLease' = [destLease EXCEPT ![own.file] = NoLease]
      /\ fileLease' = [fileLease EXCEPT ![own.file] = NoLease]
      /\ UNCHANGED <<process, session, destSeq, fileSeq, lock, content, table, nextFh,
                     dirty, beat, history>>

ReleaseOwnership(m, h) ==
  LET own == table[m][h]
      Drop(row, token) == IF Matches(row, m, own.owner, token) THEN NoLease ELSE row
  IN  /\ process[m] = "up"
      /\ pc[m][h] = "relOwn"
      /\ ~SharedLocally(m, h)
      /\ pc' = [pc EXCEPT ![m][h] = "returned"]
      /\ destLease' = [destLease EXCEPT ![own.file] = Drop(@, own.dtok)]
      /\ fileLease' = [fileLease EXCEPT ![own.file] = Drop(@, own.ftok)]
      /\ UNCHANGED <<process, session, destSeq, fileSeq, lock, content, table, nextFh,
                     dirty, beat, history>>

\* The release transaction fails: the handle is dropped, the leases stay.
ReleaseFails(m, h) ==
  /\ process[m] = "up"
  /\ pc[m][h] = "relOwn"
  /\ ~SharedLocally(m, h)
  /\ pc' = [pc EXCEPT ![m][h] = "remove"]
  /\ kept' = KeptBy(m, h)
  /\ UNCHANGED <<process, session, dbVars, lock, content, table, nextFh, dirty, beat,
                 granted>>

\* take_handle_state, which does not take write_ownership_gate.
RemoveHandle(m, h) ==
  /\ process[m] = "up"
  /\ pc[m][h] \in {"remove", "returned"}
  /\ Forget(m, h)
  /\ UNCHANGED <<process, session, dbVars, lock, content, nextFh, beat, history>>

-----------------------------------------------------------------------------
(* Callers without a fence: the repository API of the offline tools and the *)
(* indexer.  reject_unfenced_write_during_active_lease_on_conn lets them    *)
(* write only while no lease is live.                                       *)

\* Mutant: the lease is not consulted.
LegacyUnchecked(f) ==
  /\ lock[f] = Free
  /\ lock' = [lock EXCEPT ![f] = Legacy]
  /\ UNCHANGED <<process, session, dbVars, content, mountVars, history>>

LegacyBegin(f) ==
  /\ lock[f] = Free
  /\ ~Live(fileLease[f])
  /\ lock' = [lock EXCEPT ![f] = Legacy]
  /\ UNCHANGED <<process, session, dbVars, content, mountVars, history>>

LegacyCommit(f) ==
  /\ lock[f] = Legacy
  /\ content' = [content EXCEPT ![f] = 0]
  /\ Unlock(f)
  /\ UNCHANGED <<process, session, dbVars, mountVars, history>>

LegacyAbort(f) ==
  /\ lock[f] = Legacy
  /\ Unlock(f)
  /\ UNCHANGED <<process, session, dbVars, content, mountVars, history>>

-----------------------------------------------------------------------------
MountNext(m) ==
  \/ Register(m)
  \/ HeartbeatSession(m)
  \/ Crash(m)
  \/ HeartbeatCollect(m)
  \/ HeartbeatOwnership(m)

OpenNext(m, h, f) ==
  \/ OpenAcquire(m, h, f)
  \/ OpenRollback(m, h, f)
  \/ OpenBusy(m, h, f)
  \/ OpenShare(m, h, f)

HandleNext(m, h) ==
  \/ Write(m, h)
  \/ FlushStart(m, h)
  \/ ReleaseStart(m, h)
  \/ PersistBegin(m, h)
  \/ PersistReject(m, h)
  \/ PersistCommit(m, h)
  \/ PersistCommitLost(m, h)
  \/ PersistAbort(m, h)
  \/ ReleaseShared(m, h)
  \/ ReleaseOwnership(m, h)
  \/ ReleaseFails(m, h)
  \/ RemoveHandle(m, h)

LegacyNext(f) ==
  \/ LegacyBegin(f)
  \/ LegacyCommit(f)
  \/ LegacyAbort(f)

Next ==
  \/ Tick
  \/ PruneSessions
  \/ \E m \in Mounts : MountNext(m)
  \/ \E m \in Mounts, h \in Handles, f \in Files : OpenNext(m, h, f)
  \/ \E m \in Mounts, h \in Handles : HandleNext(m, h)
  \/ \E f \in Files : LegacyNext(f)

Spec == Init /\ [][Next]_vars

\* The clock advances, and a transaction in progress ends: PostgreSQL finishes
\* or rolls back what a client, dead or alive, has begun.
Fairness ==
  /\ WF_vars(Tick)
  /\ \A m \in Mounts, h \in Handles :
       WF_vars(PersistCommit(m, h) \/ PersistAbort(m, h))

FairSpec == Spec /\ Fairness

-----------------------------------------------------------------------------
(* Properties *)

CallbackStates ==
  PersistStates \cup
  {"idle", "open", "write", "flush", "relFlush", "relOwn", "returned", "remove"}

\* Every variable has its type.
TypeOK ==
  /\ process \in [Mounts -> {"new", "up", "dead"}]
  /\ session \in [Mounts -> 0..TTL \cup {NoSession}]
  /\ destLease \in [Files -> LeaseRow \cup {NoLease}]
  /\ fileLease \in [Files -> LeaseRow \cup {NoLease}]
  /\ destSeq \in Nat /\ fileSeq \in Nat
  /\ lock \in [Files -> Owners \cup {Free, Legacy}]
  /\ content \in [Files -> Nat]
  /\ table \in [Mounts -> [Handles -> HandleRow \cup {NoHandle}]]
  /\ nextFh \in [Mounts -> 1..(MaxHandles + 1)]
  /\ dirty \in [Mounts -> SUBSET Handles]
  /\ pc \in [Mounts -> [Handles -> CallbackStates]]
  /\ beat \in [Mounts -> SUBSET HandleRow]
  /\ granted \in [Files -> Nat]
  /\ kept \subseteq Files

\* A persist transaction that has validated its fence carries the newest token
\* granted on the file until it ends, even if its lease expires, its session is
\* pruned or its process dies meanwhile: nobody is granted the file before it
\* commits or rolls back.
InFlightIsCurrent ==
  \A m \in Mounts, h \in Handles :
    InPersist(m, h) => table[m][h].ftok = granted[FileOf(m, h)]

\* An unfenced transaction that passed its check never overlaps a live lease.
LegacyExcluded ==
  \A f \in Files : lock[f] = Legacy => ~Live(fileLease[f])

\* The handles of an up mount that carry a token.
Carriers(t) == {o \in Owners : /\ process[o[1]] = "up"
                               /\ InTable(o[1], o[2])
                               /\ table[o[1]][o[2]].ftok = t}

\* With one event-loop thread the lease of a mount that is up always belongs to
\* an open handle of it, unless a release failed: release does not leak leases.
LeaseHasHandle ==
  \A f \in Files :
    LET row == fileLease[f] IN
    Live(row) /\ process[row.mount] = "up" =>
      f \in kept \/ Carriers(row.token) # {}

\* With one event-loop thread no other handle carries an ownership that a release
\* has given back: open never shares what is being given up, so that, as open
\* says, "ownership is acquired before any flush or truncate" (fs.rs, open).
ReturnedNotShared ==
  \A m \in Mounts, h \in Handles :
    pc[m][h] = "returned" => ~SharedLocally(m, h)

\* With one event-loop thread release gives back what nobody uses any more and
\* nothing else (release_write_ownership_for_handle, take_handle_state); with two,
\* an open or another release can come between the two calls.
ReleaseExact == LeaseHasHandle /\ ReturnedNotShared

\* What the protocol promises: the owner of a file is granted it exclusively,
\* under ever higher tokens, an ownership that lapsed never comes back, and the
\* content is replaced only by the newest owner, or by unfenced callers while
\* nobody owns the file.
Abs == INSTANCE FencedFile WITH
         epoch <- granted,
         held <- {f \in Files : Live(fileLease[f])},
         writer <- content

FencedContent == Abs!Spec

\* Once no open handle of a running process carries the newest token of a file,
\* be it after a crash in the middle of a transaction or after a release that
\* failed, its lease and its lock lapse, and the file is free for other mounts.
\* Every open that draws a token uses up a handle, so t ranges over all tokens.
OrphanBecomesFree ==
  \A f \in Files, t \in Handles :
    (granted[f] = t /\ Carriers(t) = {})
      ~> (granted[f] # t \/ (~Live(fileLease[f]) /\ lock[f] \notin Owners))
=============================================================================
