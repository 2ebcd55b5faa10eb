---------------------------- MODULE FileLifecycle ----------------------------
(***************************************************************************)
(* The life of a regular file that several mounts name, open and remove.   *)
(*                                                                         *)
(* PostgreSQL side (rust_hotpath/src/pg.rs): files with their unlinked     *)
(* flag, hardlinks, client_sessions, file_open_leases, and the advisory    *)
(* transaction locks fod:open:file:{id} and fod:write:destination:{name}.  *)
(* Mount side (rust_fuse/src/fs.rs): the open handles, one FUSE callback   *)
(* at a time, the heartbeat thread and the maintenance thread.             *)
(*                                                                         *)
(* One directory holds every name.  File ids are serial and never reused.  *)
(* A transaction that decides on open leases is split into the step that   *)
(* takes its locks and decides, and its commit: time passes, sessions are  *)
(* renewed and leases are released in between, none of which takes a lock. *)
(* Locks are requested in sorted order, so a transaction is given all of   *)
(* its locks in one step.  Write ownership is the subject of               *)
(* WriteOwnership; here it can only make a callback fail.                  *)
(***************************************************************************)
EXTENDS Naturals, FiniteSets

CONSTANTS
  Mounts,     \* runs of the FOD process
  Survivors,  \* mounts that do not crash
  Keepers,    \* mounts whose maintenance thread is scheduled
  Names,      \* names of the directory
  MaxFiles,   \* bound on the files created
  MaxLinks,   \* bound on the hardlinks rows created
  Handles,    \* open handles of a mount
  TTL,        \* client_session_lease_ttl_seconds, in ticks
  Hidden,     \* a name .fod-unlinked-..., out of reach of every path
  None

FileIds == 1..MaxFiles
LinkIds == 1..MaxLinks

ASSUME ConstantsOK ==
  /\ Survivors \subseteq Mounts /\ Keepers \subseteq Mounts
  /\ MaxFiles \in Nat /\ MaxLinks \in Nat /\ TTL \in Nat \ {0}
  /\ Hidden \notin Names /\ None \notin Names /\ Hidden # None

\* Rows of files; "gone" once deleted, so that an id is used once.
FileRow == [state : {"unborn", "named", "unlinked", "gone"},
            name : Names \cup {Hidden}]

LinkRow == [id : LinkIds, file : FileIds, name : Names]

\* What resolve_path returns.
Entry == [kind : {"file", "hardlink"}, id : FileIds \cup LinkIds,
          file : FileIds, name : Names]

\* The threads that run transactions.
Actors == Mounts \X {"fuse", "maintenance"}

VARIABLES
  file,     \* the files table
  links,    \* the hardlinks table
  linkSeq,  \* last id of the hardlinks table
  session,  \* time left to the client_sessions row of a mount, or None
  lease,    \* file_open_leases, by mount and handle: [file, left] or None
  tx,       \* transaction of an actor: its locks and what its commit does
  up,       \* mounts whose process runs
  handle,   \* file of each open handle, or None
  call,     \* the FUSE callback a mount is serving
  todo,     \* orphans the maintenance thread has selected and not purged yet
  lapsed    \* history: handles whose lease or session has once expired

vars == <<file, links, linkSeq, session, lease, tx, up, handle, call, todo, lapsed>>

dbVars == <<file, links, linkSeq, session, lease>>
mountVars == <<up, handle, call, todo, lapsed>>

-----------------------------------------------------------------------------
(* The namespace and the leases *)

Exists(f) == file[f].state \in {"named", "unlinked"}

LinksOf(f) == {l \in links : l.file = f}

\* ORDER BY id_hardlink ASC LIMIT 1
OldestLink(f) == CHOOSE l \in LinksOf(f) : \A k \in LinksOf(f) : l.id <= k.id

Entries ==
  {[kind |-> "file", id |-> f, file |-> f, name |-> file[f].name] :
     f \in {g \in FileIds : file[g].state = "named"}}
  \cup {[kind |-> "hardlink", id |-> l.id, file |-> l.file, name |-> l.name] :
     l \in links}

Vacant(n) == \A e \in Entries : e.name # n

SessionLive(m) == session[m] # None /\ session[m] > 0

\* A lease that has not expired, joined to a session that has not.
ActiveLease(f) ==
  \E m \in Mounts, h \in Handles :
    /\ lease[m][h] # None
    /\ lease[m][h].file = f
    /\ lease[m][h].left > 0
    /\ SessionLive(m)

-----------------------------------------------------------------------------
(* Transactions *)

OpenKey(f) == <<"open", f>>
NameKey(n) == <<"destination", n>>

KeysFree(keys) == \A a \in Actors : tx[a] # None => tx[a].keys \cap keys = {}

\* What a transaction does to a file or a hardlink when it commits; "remove"
\* is a purge that has still to look a second time.
Effect == [op : {"promote", "hide", "purge", "remove"}, file : FileIds]
          \cup [op : {"drop"}, link : LinkRow]

\* A row of file_open_leases, in its place.
LeaseRow == [file : FileIds, left : 0..TTL]

\* The mark of what is absent is no number, no row and no effect.
ASSUME NoneIsApart == None \notin Nat /\ None \notin LeaseRow /\ None \notin Effect

\* Mutant: the open leases are not looked at.
RemoveClosed(f) ==
  [op |-> IF LinksOf(f) # {} THEN "promote" ELSE "purge", file |-> f]

\* remove_primary_file_or_promote_hardlink_on_conn: a file with hardlinks takes
\* the name of the oldest, an open one is hidden, any other is deleted.
RemovePrimary(f) ==
  [op |-> IF LinksOf(f) # {} THEN "promote"
          ELSE IF ActiveLease(f) THEN "hide" ELSE "purge",
   file |-> f]

\* unlink of a primary name does the same, but deletes by way of
\* purge_primary_file_on_conn.
UnlinkPrimary(f) ==
  [op |-> IF LinksOf(f) # {} THEN "promote"
          ELSE IF ActiveLease(f) THEN "hide" ELSE "remove",
   file |-> f]

DropLink(e) ==
  [op |-> "drop", link |-> [id |-> e.id, file |-> e.file, name |-> e.name]]

\* The files table after an effect.
Removed(effect) ==
  IF effect = None THEN file
  ELSE CASE effect.op = "drop" -> file
         [] effect.op = "promote" ->
              [file EXCEPT ![effect.file].name = OldestLink(effect.file).name]
         [] effect.op = "hide" ->
              [file EXCEPT ![effect.file] = [state |-> "unlinked", name |-> Hidden]]
         [] effect.op = "purge" ->
              [file EXCEPT ![effect.file] = [state |-> "gone", name |-> Hidden]]

\* The hardlinks table after it; deleting a file cascades to its hardlinks.
Unlinked(effect) ==
  IF effect = None THEN links
  ELSE CASE effect.op = "hide" -> links
         [] effect.op = "drop" -> links \ {effect.link}
         [] effect.op = "promote" -> links \ {OldestLink(effect.file)}
         [] effect.op = "purge" -> links \ LinksOf(effect.file)

\* The source of a rename takes its new name.
Moved(rows, move) ==
  IF move # None /\ move.entry.kind = "file"
  THEN [rows EXCEPT ![move.entry.id].name = move.to] ELSE rows

MovedLinks(rows, move) ==
  IF move # None /\ move.entry.kind = "hardlink"
  THEN {IF l.id = move.entry.id THEN [l EXCEPT !.name = move.to] ELSE l :
          l \in rows}
  ELSE rows

\* Begin a transaction that holds keys and commits effect, then move.  created
\* is the name given by the create it rolls back, kept for the properties.
Begin(a, keys, effect, move, created) ==
  /\ tx[a] = None
  /\ tx' = [tx EXCEPT ![a] = [keys |-> keys, effect |-> effect, move |-> move,
                             created |-> created]]

Removing(a) == tx[a] # None /\ tx[a].effect # None /\ tx[a].effect.op = "remove"

\* A purge that hardlinks and leases have not refused ends in
\* remove_primary_file_or_promote_hardlink_on_conn, which queries them again.
Remove(a) ==
  /\ Removing(a)
  /\ tx' = [tx EXCEPT ![a].effect = RemovePrimary(@.file)]
  /\ UNCHANGED <<dbVars, mountVars>>

\* Deleting a row of files cascades to its open leases.
Commit(a) ==
  /\ tx[a] # None /\ ~Removing(a)
  /\ file' = Moved(Removed(tx[a].effect), tx[a].move)
  /\ links' = MovedLinks(Unlinked(tx[a].effect), tx[a].move)
  /\ lease' = [m \in Mounts |-> [h \in Handles |->
                 IF lease[m][h] # None /\ file'[lease[m][h].file].state = "gone"
                 THEN None ELSE lease[m][h]]]
  /\ tx' = [tx EXCEPT ![a] = None]
  /\ UNCHANGED <<linkSeq, session, mountVars>>

\* The statement or the connection fails and PostgreSQL rolls back.
Abort(a) ==
  /\ tx[a] # None
  /\ tx' = [tx EXCEPT ![a] = None]
  /\ todo' = [todo EXCEPT ![a[1]] = IF a[2] = "maintenance" THEN {} ELSE @]
  /\ UNCHANGED <<dbVars, up, handle, call, lapsed>>

-----------------------------------------------------------------------------
(* FUSE callbacks.  A mount serves one at a time; each step below is one    *)
(* round trip to PostgreSQL, and other mounts take steps between them.      *)

Idle == [step |-> "idle"]

CanServe(m) == m \in up /\ tx[<<m, "fuse">>] = None

Serving(m, step) == CanServe(m) /\ call[m].step = step

Reply(m) == call' = [call EXCEPT ![m] = Idle]

Then(m, next) == call' = [call EXCEPT ![m] = next]

\* next_handle: the number of an open handle is not reused, so a lease that
\* has lost its handle keeps its place.
FreshHandle(m, h) == handle[m][h] = None /\ lease[m][h] = None

\* open: entry_attrs_for_ino and the permission checks find the file.
OpenResolve(m, h, e) ==
  /\ Serving(m, "idle")
  /\ FreshHandle(m, h)
  /\ Then(m, [step |-> "open", file |-> e.file, handle |-> h])
  /\ UNCHANGED <<dbVars, tx, up, handle, todo, lapsed>>

\* create_file_for_subject: a new row under the name, if it is vacant.  When
\* the acknowledgement is lost the replay may find the name taken: the
\* callback fails and leaves the file.
Create(m, h, n, f, known) ==
  /\ Serving(m, "idle")
  /\ FreshHandle(m, h)
  /\ f = 1 + Cardinality({g \in FileIds : file[g].state # "unborn"})
  /\ KeysFree({NameKey(n)})
  /\ Vacant(n)
  /\ file' = [file EXCEPT ![f] = [state |-> "named", name |-> n]]
  /\ IF known
     THEN Then(m, [step |-> "created", file |-> f, handle |-> h, name |-> n])
     ELSE Reply(m)
  /\ UNCHANGED <<links, linkSeq, session, lease, tx, up, handle, todo, lapsed>>

\* Mutant: the lease is inserted without the lifecycle lock.
RegisterUnlocked(m) ==
  LET f == call[m].file
      h == call[m].handle
  IN  /\ CanServe(m) /\ call[m].step \in {"open", "created"}
      /\ file[f].state = "named"
      /\ SessionLive(m)
      /\ lease' = [lease EXCEPT ![m][h] = [file |-> f, left |-> TTL]]
      /\ handle' = [handle EXCEPT ![m][h] = f]
      /\ lapsed' = [lapsed EXCEPT ![m] = @ \ {h}]
      /\ IF call[m].step = "created" THEN Then(m, [call[m] EXCEPT !.step = "attrs"])
         ELSE Reply(m)
      /\ UNCHANGED <<file, links, linkSeq, session, tx, up, todo>>

\* register_file_open_lease: under the lifecycle lock, only for a file that
\* still has a name and a session that has not expired.
RegisterLease(m) ==
  LET f == call[m].file
      h == call[m].handle
  IN  /\ CanServe(m) /\ call[m].step \in {"open", "created"}
      /\ KeysFree({OpenKey(f)})
      /\ file[f].state = "named"
      /\ SessionLive(m)
      /\ lease' = [lease EXCEPT ![m][h] = [file |-> f, left |-> TTL]]
      /\ handle' = [handle EXCEPT ![m][h] = f]
      /\ lapsed' = [lapsed EXCEPT ![m] = @ \ {h}]
      /\ IF call[m].step = "created" THEN Then(m, [call[m] EXCEPT !.step = "attrs"])
         ELSE Reply(m)
      /\ UNCHANGED <<file, links, linkSeq, session, tx, up, todo>>

\* The lease is committed but every acknowledgement is lost: the callback
\* fails and no handle stands for the lease.
RegisterLost(m) ==
  LET f == call[m].file
  IN  /\ CanServe(m) /\ call[m].step \in {"open", "created"}
      /\ KeysFree({OpenKey(f)})
      /\ file[f].state = "named"
      /\ SessionLive(m)
      /\ lease' = [lease EXCEPT ![m][call[m].handle] = [file |-> f, left |-> TTL]]
      /\ IF call[m].step = "created"
         THEN Then(m, [step |-> "rollback", file |-> f, name |-> call[m].name])
         ELSE Reply(m)
      /\ UNCHANGED <<file, links, linkSeq, session, tx, up, handle, todo, lapsed>>

\* create ends with attrs_for_open_file_id and hands out the handle.
CreateReply(m) ==
  /\ Serving(m, "attrs")
  /\ Reply(m)
  /\ UNCHANGED <<dbVars, tx, up, handle, todo, lapsed>>

\* If they cannot be read the handle is removed, its lease deleted unless that
\* fails too, and the create is rolled back.
CreateFails(m, deleted) ==
  LET c == call[m]
  IN  /\ Serving(m, "attrs")
      /\ handle' = [handle EXCEPT ![m][c.handle] = None]
      /\ lease' = [lease EXCEPT ![m][c.handle] = IF deleted THEN None ELSE @]
      /\ Then(m, [step |-> "rollback", file |-> c.file, name |-> c.name])
      /\ UNCHANGED <<file, links, linkSeq, session, tx, up, todo, lapsed>>

\* Any error before a transaction: the file is not available, the session is
\* not valid, the ownership is busy, the binding has changed, the name is
\* taken, or PostgreSQL cannot be reached.  A create that fails rolls back.
CallFails(m) ==
  /\ CanServe(m) /\ call[m].step \notin {"idle", "attrs"}
  /\ IF call[m].step = "created"
     THEN Then(m, [step |-> "rollback", file |-> call[m].file,
                   name |-> call[m].name])
     ELSE Reply(m)
  /\ UNCHANGED <<dbVars, tx, up, handle, todo, lapsed>>

\* Rollback of a create: promote_hardlink_to_primary, and a purge when the
\* file has no hardlink.
RollbackPromote(m) ==
  LET f == call[m].file
  IN  /\ Serving(m, "rollback")
      /\ KeysFree({OpenKey(f)})
      /\ IF Exists(f) /\ LinksOf(f) # {}
         THEN /\ Reply(m)
              /\ Begin(<<m, "fuse">>, {OpenKey(f)},
                       [op |-> "promote", file |-> f], None, call[m].name)
         ELSE /\ Then(m, [step |-> "purge", file |-> f, name |-> call[m].name])
              /\ UNCHANGED tx
      /\ UNCHANGED <<dbVars, up, handle, todo, lapsed>>

\* purge_primary_file_on_conn: hardlinks and active leases refuse it.
Purgeable(f) == Exists(f) /\ LinksOf(f) = {} /\ ~ActiveLease(f)

CallPurge(m) ==
  LET f == call[m].file
  IN  /\ Serving(m, "purge")
      /\ KeysFree({OpenKey(f)})
      /\ Purgeable(f)
      /\ Begin(<<m, "fuse">>, {OpenKey(f)}, [op |-> "remove", file |-> f], None,
               call[m].name)
      /\ Reply(m)
      /\ UNCHANGED <<dbVars, up, handle, todo, lapsed>>

\* unlink: the path is resolved, then unlink_file_entry_internal takes the
\* name and the lifecycle lock and acts on the entry only if the name still
\* stands for the same file.
UnlinkResolve(m, e) ==
  /\ Serving(m, "idle")
  /\ Then(m, [step |-> "unlink", file |-> e.file, name |-> e.name])
  /\ UNCHANGED <<dbVars, tx, up, handle, todo, lapsed>>

UnlinkBegin(m) ==
  LET c == call[m]
      keys == {NameKey(c.name), OpenKey(c.file)}
  IN  /\ Serving(m, "unlink")
      /\ KeysFree(keys)
      /\ \E e \in Entries :
           /\ e.file = c.file /\ e.name = c.name
           /\ Begin(<<m, "fuse">>, keys,
                    IF e.kind = "file" THEN UnlinkPrimary(e.file) ELSE DropLink(e),
                    None, None)
      /\ Reply(m)
      /\ UNCHANGED <<dbVars, up, handle, todo, lapsed>>

\* link: the source entry is resolved, then create_hardlink_internal checks
\* under the locks that it is still there and that the new name is vacant.
LinkResolve(m, e, n) ==
  /\ Serving(m, "idle")
  /\ n # e.name
  /\ Then(m, [step |-> "link", source |-> e, name |-> n])
  /\ UNCHANGED <<dbVars, tx, up, handle, todo, lapsed>>

\* Mutants: the new name is not checked again, or only the inode is.
LinkToTaken(m) ==
  LET c == call[m]
      id == linkSeq + 1
  IN  /\ Serving(m, "link")
      /\ KeysFree({NameKey(c.source.name), NameKey(c.name), OpenKey(c.source.file)})
      /\ c.source \in Entries
      /\ id \in LinkIds
      /\ linkSeq' = id
      /\ links' = links \cup
           {[id |-> id, file |-> c.source.file, name |-> c.name]}
      /\ Reply(m)
      /\ UNCHANGED <<file, session, lease, tx, up, handle, todo, lapsed>>

\* Mutant: the lifecycle lock is not taken.
LinkUnlocked(m) ==
  LET c == call[m]
      id == linkSeq + 1
  IN  /\ Serving(m, "link")
      /\ KeysFree({NameKey(c.source.name), NameKey(c.name)})
      /\ c.source \in Entries
      /\ Vacant(c.name)
      /\ id \in LinkIds
      /\ linkSeq' = id
      /\ links' = links \cup
           {[id |-> id, file |-> c.source.file, name |-> c.name]}
      /\ Reply(m)
      /\ UNCHANGED <<file, session, lease, tx, up, handle, todo, lapsed>>

\* Both are checked under all three locks.
LinkCommit(m) ==
  LET c == call[m]
      id == linkSeq + 1
  IN  /\ Serving(m, "link")
      /\ KeysFree({NameKey(c.source.name), NameKey(c.name), OpenKey(c.source.file)})
      /\ c.source \in Entries
      /\ Vacant(c.name)
      /\ id \in LinkIds
      /\ linkSeq' = id
      /\ links' = links \cup
           {[id |-> id, file |-> c.source.file, name |-> c.name]}
      /\ Reply(m)
      /\ UNCHANGED <<file, session, lease, tx, up, handle, todo, lapsed>>

\* rename: source and target are resolved, then the guarded transaction
\* tries its locks and checks that both are as they were resolved.
RenameResolve(m, e, n) ==
  /\ Serving(m, "idle")
  /\ n # e.name
  /\ \E t \in Entries \cup {None} :
       /\ IF Vacant(n) THEN t = None ELSE t # None /\ t.name = n
       /\ Then(m, [step |-> "rename", source |-> e, target |-> t, name |-> n])
  /\ UNCHANGED <<dbVars, tx, up, handle, todo, lapsed>>

RenameBegin(m) ==
  LET c == call[m]
      keys == {NameKey(c.source.name), NameKey(c.name), OpenKey(c.source.file)}
              \cup IF c.target = None THEN {} ELSE {OpenKey(c.target.file)}
      here == IF c.target = None THEN Vacant(c.name) ELSE c.target \in Entries
  IN  /\ Serving(m, "rename")
      /\ KeysFree(keys)
      /\ c.source \in Entries
      /\ here
      /\ IF c.target # None /\ c.target.file = c.source.file
         THEN UNCHANGED tx
         ELSE Begin(<<m, "fuse">>, keys,
                    IF c.target = None THEN None
                    ELSE IF c.target.kind = "file" THEN RemovePrimary(c.target.file)
                    ELSE DropLink(c.target),
                    [entry |-> c.source, to |-> c.name], None)
      /\ Reply(m)
      /\ UNCHANGED <<dbVars, up, handle, todo, lapsed>>

\* release: the handle goes and its lease is deleted; a failed DELETE is
\* only logged.  After a failed flush the deferred unlink is not finalised.
Release(m, h, deleted, flushed) ==
  /\ Serving(m, "idle")
  /\ handle[m][h] # None
  /\ handle' = [handle EXCEPT ![m][h] = None]
  /\ lease' = [lease EXCEPT ![m][h] = IF deleted THEN None ELSE @]
  /\ IF flushed THEN Then(m, [step |-> "finalize", file |-> handle[m][h]])
     ELSE Reply(m)
  /\ UNCHANGED <<file, links, linkSeq, session, tx, up, todo, lapsed>>

\* finalize_deferred_unlink_after_handle_removal
Finalize(m) ==
  LET f == call[m].file
  IN  /\ Serving(m, "finalize")
      /\ IF file[f].state = "unlinked" /\ ~ActiveLease(f)
         THEN Then(m, [step |-> "purge", file |-> f, name |-> None])
         ELSE Reply(m)
      /\ UNCHANGED <<dbVars, tx, up, handle, todo, lapsed>>

-----------------------------------------------------------------------------
(* Threads beside the callbacks, time and crashes *)

\* heartbeat_client_session renews the row even after it has expired.
HeartbeatSession(m) ==
  /\ m \in up
  /\ session[m] # None
  /\ session' = [session EXCEPT ![m] = TTL]
  /\ UNCHANGED <<file, links, linkSeq, lease, tx, mountVars>>

\* Mutant: a heartbeat adds the TTL to the time left.
HeartbeatAdds(m) ==
  /\ m \in up
  /\ lease' = [lease EXCEPT ![m] = [h \in Handles |->
                 IF @[h] # None /\ @[h].left > 0 THEN [@[h] EXCEPT !.left = @ + TTL]
                 ELSE @[h]]]
  /\ UNCHANGED <<file, links, linkSeq, session, tx, mountVars>>

\* heartbeat_file_open_leases renews what has not expired.
HeartbeatLeases(m) ==
  /\ m \in up
  /\ lease' = [lease EXCEPT ![m] = [h \in Handles |->
                 IF @[h] # None /\ @[h].left > 0 THEN [@[h] EXCEPT !.left = TTL]
                 ELSE @[h]]]
  /\ UNCHANGED <<file, links, linkSeq, session, tx, mountVars>>

\* prune_expired_client_sessions: the rows cascade to their open leases.
PruneSessions(m) ==
  LET expired == {n \in Mounts : session[n] = 0}
  IN  /\ m \in up \cap Keepers
      /\ expired # {}
      /\ session' = [n \in Mounts |-> IF n \in expired THEN None ELSE session[n]]
      /\ lease' = [n \in Mounts |->
           IF n \in expired THEN [h \in Handles |-> None] ELSE lease[n]]
      /\ UNCHANGED <<file, links, linkSeq, tx, mountVars>>

\* Mutants: the unlinked flag is not selected on, or the leases are joined
\* so that a file without a lease row is not found.
SelectIdle(m) ==
  LET orphans == {f \in FileIds : Exists(f) /\ ~ActiveLease(f)}
  IN  /\ m \in up \cap Keepers
      /\ tx[<<m, "maintenance">>] = None
      /\ todo[m] = {} /\ orphans # {}
      /\ todo' = [todo EXCEPT ![m] = orphans]
      /\ UNCHANGED <<dbVars, tx, up, handle, call, lapsed>>

SelectLeased(m) ==
  LET orphans == {f \in FileIds : file[f].state = "unlinked" /\ ~ActiveLease(f)
                  /\ \E n \in Mounts, h \in Handles :
                       lease[n][h] # None /\ lease[n][h].file = f}
  IN  /\ m \in up \cap Keepers
      /\ tx[<<m, "maintenance">>] = None
      /\ todo[m] = {} /\ orphans # {}
      /\ todo' = [todo EXCEPT ![m] = orphans]
      /\ UNCHANGED <<dbVars, tx, up, handle, call, lapsed>>

\* purge_orphaned_unlinked_files: the select, then a purge of each.
SelectOrphans(m) ==
  LET orphans == {f \in FileIds : file[f].state = "unlinked" /\ ~ActiveLease(f)}
  IN  /\ m \in up \cap Keepers
      /\ tx[<<m, "maintenance">>] = None
      /\ todo[m] = {} /\ orphans # {}
      /\ todo' = [todo EXCEPT ![m] = orphans]
      /\ UNCHANGED <<dbVars, tx, up, handle, call, lapsed>>

\* In the order of the ids; one that is gone already counts as purged, one
\* that is refused ends the round.
PurgeOrphan(m) ==
  LET f == CHOOSE g \in todo[m] : \A k \in todo[m] : g <= k
  IN  /\ m \in up
      /\ tx[<<m, "maintenance">>] = None
      /\ todo[m] # {}
      /\ KeysFree({OpenKey(f)})
      /\ IF Purgeable(f)
         THEN Begin(<<m, "maintenance">>, {OpenKey(f)},
                    [op |-> "remove", file |-> f], None, None)
         ELSE UNCHANGED tx
      /\ todo' = [todo EXCEPT ![m] =
           IF Exists(f) /\ ~Purgeable(f) THEN {} ELSE @ \ {f}]
      /\ UNCHANGED <<dbVars, up, handle, call, lapsed>>

Older(left) == IF left = None \/ left = 0 THEN left ELSE left - 1

Tick ==
  /\ session' = [m \in Mounts |-> Older(session[m])]
  /\ lease' = [m \in Mounts |-> [h \in Handles |->
       IF lease[m][h] = None THEN None ELSE [lease[m][h] EXCEPT !.left = Older(@)]]]
  /\ lapsed' = [m \in Mounts |-> {h \in Handles :
       \/ h \in lapsed[m]
       \/ handle[m][h] # None
          /\ (session'[m] \in {None, 0} \/ lease'[m][h] = None
              \/ lease'[m][h].left = 0)}]
  /\ <<session', lease'>> # <<session, lease>>
  /\ UNCHANGED <<file, links, linkSeq, tx, up, handle, call, todo>>

\* The process dies; PostgreSQL still commits or aborts what it began.
Crash(m) ==
  /\ m \in up \ Survivors
  /\ up' = up \ {m}
  /\ handle' = [handle EXCEPT ![m] = [h \in Handles |-> None]]
  /\ call' = [call EXCEPT ![m] = Idle]
  /\ todo' = [todo EXCEPT ![m] = {}]
  /\ lapsed' = [lapsed EXCEPT ![m] = {}]
  /\ UNCHANGED <<dbVars, tx>>

-----------------------------------------------------------------------------
Init ==
  /\ file = [f \in FileIds |-> [state |-> "unborn", name |-> Hidden]]
  /\ links = {}
  /\ linkSeq = 0
  /\ session = [m \in Mounts |-> TTL]
  /\ lease = [m \in Mounts |-> [h \in Handles |-> None]]
  /\ tx = [a \in Actors |-> None]
  /\ up = Mounts
  /\ handle = [m \in Mounts |-> [h \in Handles |-> None]]
  /\ call = [m \in Mounts |-> Idle]
  /\ todo = [m \in Mounts |-> {}]
  /\ lapsed = [m \in Mounts |-> {}]

Callback(m) ==
  \/ \E h \in Handles, e \in Entries : OpenResolve(m, h, e)
  \/ \E h \in Handles, n \in Names, f \in FileIds, known \in BOOLEAN :
       Create(m, h, n, f, known)
  \/ RegisterLease(m)
  \/ RegisterLost(m)
  \/ CreateReply(m)
  \/ \E deleted \in BOOLEAN : CreateFails(m, deleted)
  \/ CallFails(m)
  \/ RollbackPromote(m)
  \/ CallPurge(m)
  \/ \E e \in Entries : UnlinkResolve(m, e)
  \/ UnlinkBegin(m)
  \/ \E e \in Entries, n \in Names : LinkResolve(m, e, n)
  \/ LinkCommit(m)
  \/ \E e \in Entries, n \in Names : RenameResolve(m, e, n)
  \/ RenameBegin(m)
  \/ \E h \in Handles, deleted, flushed \in BOOLEAN : Release(m, h, deleted, flushed)
  \/ Finalize(m)

Background(m) ==
  \/ HeartbeatSession(m)
  \/ HeartbeatLeases(m)
  \/ PruneSessions(m)
  \/ SelectOrphans(m)
  \/ PurgeOrphan(m)
  \/ Crash(m)

Next ==
  \/ \E m \in Mounts : Callback(m) \/ Background(m)
  \/ \E a \in Actors : Remove(a) \/ Commit(a) \/ Abort(a)
  \/ Tick

Spec == Init /\ [][Next]_vars

-----------------------------------------------------------------------------
(* Properties *)

CallRecord ==
  {Idle}
  \cup [step : {"open"}, file : FileIds, handle : Handles]
  \cup [step : {"created", "attrs"}, file : FileIds, handle : Handles, name : Names]
  \cup [step : {"rollback", "purge"}, file : FileIds, name : Names \cup {None}]
  \cup [step : {"finalize"}, file : FileIds]
  \cup [step : {"unlink"}, file : FileIds, name : Names]
  \cup [step : {"link"}, source : Entry, name : Names]
  \cup {c \in [step : {"rename"}, source : Entry, target : Entry \cup {None},
               name : Names] : c.target # None => c.target.name = c.name}

Key == ({"open"} \X FileIds) \cup ({"destination"} \X Names)

Transaction ==
  [keys : SUBSET Key, effect : Effect \cup {None},
   move : [entry : Entry, to : Names] \cup {None},
   created : Names \cup {None}]

\* Every variable keeps its type; a heartbeat never takes a lease or a session
\* past the TTL.
TypeOK ==
  /\ file \in [FileIds -> FileRow]
  /\ links \subseteq LinkRow
  /\ linkSeq \in 0..MaxLinks
  /\ session \in [Mounts -> 0..TTL \cup {None}]
  /\ lease \in [Mounts -> [Handles -> LeaseRow \cup {None}]]
  /\ tx \in [Actors -> Transaction \cup {None}]
  /\ up \subseteq Mounts
  /\ handle \in [Mounts -> [Handles -> FileIds \cup {None}]]
  /\ call \in [Mounts -> CallRecord]
  /\ todo \in [Mounts -> SUBSET FileIds]
  /\ lapsed \in [Mounts -> SUBSET Handles]

\* An open handle keeps its inode: as long as its lease and its session have
\* not expired since it was opened, no unlink, rename replacement, rollback or
\* purge on any mount has deleted the row of its file.
InodeKept ==
  \A m \in Mounts, h \in Handles :
    handle[m][h] # None /\ h \notin lapsed[m] => Exists(handle[m][h])

\* A name stands for one entry, although files and hardlinks have no common
\* uniqueness constraint and only the advisory locks see to it; and a file marked
\* unlinked has no name left: link and rename never give it another, so deleting
\* it later takes no name away.
NamesSound ==
  /\ \A d, e \in Entries : d.name = e.name => d = e
  /\ \A f \in FileIds : file[f].state = "unlinked" =>
       LinksOf(f) = {} /\ file[f].name = Hidden

\* What the maintenance thread has selected is still nameless when its turn
\* comes, although the purge does not look at the unlinked flag again.
SelectedIsNameless ==
  \A m \in Mounts : \A f \in todo[m] : file[f].state \in {"unlinked", "gone"}

\* Deleting the row of a file, which cascades to hardlinks, never takes a
\* surviving hardlink with it.
HardlinkSurvives ==
  [][\A f \in FileIds : Exists(f) /\ ~Exists(f)' => LinksOf(f) = {}]_vars

\* An unlinked file whose open leases, if any, belong to mounts that are gone: it is to be
\* deleted in the end.
Orphan(f) ==
  /\ file[f].state = "unlinked"
  /\ \A m \in up, h \in Handles : lease[m][h] = None \/ lease[m][h].file # f

\* A file loses a name only to a transaction that holds the advisory lock of
\* that name, or to the rollback of the create that gave it the name.
NameLossSerialized ==
  [][\A e \in Entries :
       (\A d \in Entries' : <<d.file, d.name>> # <<e.file, e.name>>) =>
         \E a \in Actors :
           /\ tx[a] # None
           /\ NameKey(e.name) \in tx[a].keys \/ tx[a].created = e.name]_vars
=============================================================================
