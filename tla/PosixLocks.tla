------------------------------ MODULE PosixLocks ------------------------------
(***************************************************************************)
(* POSIX record locks with the PostgreSQL lease backend.  The rows of      *)
(* lock_range_leases are the authority; every mount keeps a mirror of them *)
(* (posix_locks) and the set of its own lock owners, and its heartbeat     *)
(* thread renews the rows that both name.  A blocking F_SETLKW polls: it   *)
(* tries, records whom it waits for in lock_wait_edges, looks for a cycle  *)
(* and parks.  Time is the age of a row: a row of age Ttl has expired.     *)
(***************************************************************************)
EXTENDS Integers, FiniteSets, Relation

CONSTANTS
    Deployments,  \* the deployments a behaviour starts from
    Ttl,          \* half lease periods a row lives without being renewed
    MaxByte       \* the last byte of a file

VARIABLES
    lockConf,    \* the deployment: the mount and process of every client, FUSE event
                 \* threads per mount, what each client asks for, clock, closes, crash, faults
    leases,      \* lock_range_leases: [file, owner, typ, start, end, age]
    edges,       \* lock_wait_edges: [waiter, blocker, age]
    session,     \* client_sessions per mount: "live", "lapsed", "gone"
    up,          \* the mounts that run
    mirror,      \* FodFuse::posix_locks per mount
    lockOwners,  \* FodFuse::local_lock_owners per mount
    call,        \* the lock request each client is in
    beat,        \* the heartbeat round of each mount
    lockFaults,  \* database failures still to happen
    held         \* history: what POSIX says each client holds, byte by byte

lockVars == <<lockConf, leases, edges, session, up, mirror, lockOwners, call, beat, lockFaults, held>>

-----------------------------------------------------------------------------
Bytes == 0..MaxByte
FilesOf(d) == {q.file : q \in UNION {d.requests[c] : c \in DOMAIN d.mount}}

\* A mount serves one lock request at a time: one event thread, or one client.
Serial(d) == d.threads = 1 \/ \A c, e \in DOMAIN d.mount : d.mount[c] = d.mount[e] => c = e

\* What the results below assume of a deployment: requests are ranges of bytes; where
\* leases have to be renewed, or files are closed, a mount serves one request at a time;
\* and where files are closed there is one, since a close drops the owner's locks on all.
LockConstants ==
    /\ Ttl \in Nat /\ Ttl >= 2 /\ MaxByte \in Nat
    /\ \A d \in Deployments :
          /\ IsFiniteSet(DOMAIN d.mount)
          /\ d.faults \in Nat
          /\ \A c \in DOMAIN d.mount :
                /\ d.requests[c] \subseteq [typ : {"R", "W", "U", "G"}, file : FilesOf(d), start : Bytes,
                                           end : Bytes, wait : BOOLEAN]
                /\ \A q \in d.requests[c] : q.start <= q.end
          /\ d.clock \in {"none", "timely", "late"}
          /\ d.clock = "timely" \/ d.closes => Serial(d)
          /\ d.closes => \A f, g \in FilesOf(d) : f = g

Clients == DOMAIN lockConf.mount
Mounts == {lockConf.mount[c] : c \in Clients}
MountOf(c) == lockConf.mount[c]
LockFiles == FilesOf(lockConf)

NoRequest == [typ |-> "none", file |-> "none", start |-> 0, end |-> 0, wait |-> FALSE]
NoCall == [pc |-> "idle", req |-> NoRequest, todo |-> {}, seen |-> {}, cancelled |-> FALSE]
NothingHeld == [f \in LockFiles |-> [b \in Bytes |-> "none"]]
NoBeat == [todo |-> {}, done |-> FALSE]

LocksTypeOK ==
    /\ lockConf \in Deployments
    /\ leases \subseteq [file : LockFiles, owner : Clients, typ : {"R", "W"}, start : Bytes, end : Bytes,
                         age : 0..Ttl]
    /\ edges \subseteq [waiter : Clients, blocker : Clients, age : 0..Ttl]
    /\ session \in [Mounts -> {"live", "lapsed", "gone"}]
    /\ up \subseteq Mounts
    /\ \A m \in Mounts : mirror[m] \subseteq [file : LockFiles, owner : Clients, typ : {"R", "W"},
                                              start : Bytes, end : Bytes]
    /\ lockOwners \in [Mounts -> SUBSET Clients]
    /\ \A c \in Clients : call[c].pc \in {"idle", "queued", "update", "blocked", "parked", "load", "insert",
                                       "closing"}
    /\ lockFaults \in 0..lockConf.faults
    /\ held \in [Clients -> [LockFiles -> [Bytes -> {"none", "R", "W"}]]]

LockInit ==
    /\ lockConf \in Deployments
    /\ leases = {} /\ edges = {}
    /\ session = [m \in Mounts |-> "live"]
    /\ up = Mounts
    /\ mirror = [m \in Mounts |-> {}]
    /\ lockOwners = [m \in Mounts |-> {}]
    /\ call = [c \in Clients |-> NoCall]
    /\ beat = [m \in Mounts |-> NoBeat]
    /\ lockFaults = lockConf.faults
    /\ held = [c \in Clients |-> NothingHeld]

-----------------------------------------------------------------------------
\* The range algebra of fs.rs.

posix_lock_type_conflicts(existing, requested) ==
    \/ requested = "R" /\ existing = "W"
    \/ requested = "W" /\ existing \in {"R", "W"}

range_overlaps(r, q) == q.start <= r.end /\ r.start <= q.end

lock_conflict(R, c, q) ==
    \E r \in R :
        /\ r.file = q.file /\ r.owner # c
        /\ range_overlaps(r, q)
        /\ posix_lock_type_conflicts(r.typ, q.typ)

\* Mutant: the part after the replaced range is dropped.
RemainsBefore(r, q) ==
    IF ~range_overlaps(r, q) THEN {r}
    ELSE {[r EXCEPT !.end = q.start - 1] : x \in {y \in {r} : y.start < q.start}}

\* What is left of the record r when the bytes of q are taken out of it.
Remains(r, q) ==
    IF ~range_overlaps(r, q) THEN {r}
    ELSE {[r EXCEPT !.end = q.start - 1] : x \in {y \in {r} : y.start < q.start}}
             \cup {[r EXCEPT !.start = q.end + 1] : x \in {y \in {r} : q.end < y.end}}

\* The records of owner c after its request q.
update_owner_lock_range(R, c, q) ==
    (UNION {Remains(r, q) : r \in R})
        \cup (IF q.typ = "U" THEN {}
              ELSE {[file |-> q.file, owner |-> c, typ |-> q.typ, start |-> q.start, end |-> q.end]})

-----------------------------------------------------------------------------
\* PostgreSQL transactions.  All of them take the wait-graph advisory lock first.

Row(r) == [file |-> r.file, owner |-> r.owner, typ |-> r.typ, start |-> r.start, end |-> r.end]
Live(R) == {r \in R : r.age < Ttl}
RowsOf(f) == {Row(r) : r \in {x \in Live(leases) : x.file = f}}

load_lock_range_state_blob(f) == RowsOf(f)

\* update_lock_range_state_blob_for_owner: the owner's rows of the file are replaced
\* by the new records with a fresh lease, and nobody is recorded as waiting for it.
ReplaceRows(c, q) ==
    LET mine == {r \in RowsOf(q.file) : r.owner = c} IN
    /\ leases' = {r \in leases : r.owner # c \/ r.file # q.file}
                     \cup {[file |-> r.file, owner |-> c, typ |-> r.typ, start |-> r.start,
                            end |-> r.end, age |-> 0] : r \in update_owner_lock_range(mine, c, q)}
    /\ edges' = {e \in edges : e.blocker # c}

\* Mutant: the conflict check runs against the mount's mirror instead of the rows.
RefusedByMirror(c, q) == q.typ # "U" /\ lock_conflict(mirror[MountOf(c)], c, q)

Refused(c, q) == q.typ # "U" /\ lock_conflict(RowsOf(q.file), c, q)

SameProcess(c, d) == lockConf.process[c] = lockConf.process[d]

\* The owners with a live session that hold a conflicting row, other than the
\* waiter's own process.
Blockers(c, q) ==
    {d \in Clients :
        /\ session[MountOf(d)] = "live"
        /\ ~SameProcess(c, d)
        /\ \E r \in Live(leases) :
              /\ r.owner = d /\ r.file = q.file
              /\ "W" \in {r.typ, q.typ}
              /\ range_overlaps(r, q)}

WaitEdges(c) ==
    {e \in Live(edges) : e.waiter # c}
        \cup {[waiter |-> c, blocker |-> d, age |-> 0] : d \in Blockers(c, call[c].req)}

\* Mutant: nobody is told of a cycle.
NeverCycle(c, E) == FALSE

\* The recursive query: from the owners c waits for, along the processes, back to c.
CycleThrough(c, E) ==
    LET step == [p \in Clients \X Clients |->
                    \E e \in E : SameProcess(e.waiter, p[1]) /\ SameProcess(e.blocker, p[2])]
    IN  TransitiveClosure(step, Clients)[c, c]

-----------------------------------------------------------------------------
\* setlk and getlk.  The kernel queues a request until an event thread takes it, and
\* the thread keeps it until it is answered, also while it waits.

FreeThread(m) ==
    /\ m \in up
    /\ Cardinality({c \in Clients : MountOf(c) = m /\ call[c].pc \notin {"idle", "queued"}})
           < lockConf.threads

\* What POSIX says the bytes of c are after its request q.
AfterRequest(c, q) ==
    [held[c] EXCEPT ![q.file] = [b \in Bytes |->
        IF b \in q.start..q.end THEN (IF q.typ = "U" THEN "none" ELSE q.typ) ELSE @[b]]]

\* A client that asks for less has given up the rest when its request commits.
GivenUp(c, q) ==
    [held[c] EXCEPT ![q.file] = [b \in Bytes |->
        IF b \in q.start..q.end /\ (q.typ = "U" \/ (q.typ = "R" /\ @[b] = "W"))
        THEN (IF q.typ = "U" THEN "none" ELSE "R") ELSE @[b]]]

Ask(c) ==
    /\ call[c].pc = "idle" /\ MountOf(c) \in up
    /\ \E q \in lockConf.requests[c] :
          call' = [call EXCEPT ![c].pc = "queued", ![c].req = q]
    /\ UNCHANGED <<lockConf, leases, edges, session, up, mirror, lockOwners, beat, lockFaults, held>>

\* F_GETLK reads the rows, and refreshes the mirror with them, and changes nothing else.
getlk(c) ==
    /\ call[c].pc = "queued" /\ call[c].req.typ = "G" /\ FreeThread(MountOf(c))
    /\ call' = [call EXCEPT ![c].pc = "load"]
    /\ UNCHANGED <<lockConf, leases, edges, session, up, mirror, lockOwners, beat, lockFaults, held>>

setlk(c) ==
    /\ call[c].pc = "queued" /\ call[c].req.typ # "G" /\ FreeThread(MountOf(c))
    /\ call' = [call EXCEPT ![c].pc = "update"]
    /\ lockOwners' = [lockOwners EXCEPT ![MountOf(c)] = @ \cup {c}]
    /\ UNCHANGED <<lockConf, leases, edges, session, up, mirror, beat, lockFaults, held>>

\* One turn of the loop: the conflict check and the replacement in one transaction.
Update(c) ==
    /\ call[c].pc = "update"
    /\ IF Refused(c, call[c].req)
       THEN /\ call' = [call EXCEPT ![c] = IF call[c].req.wait THEN [@ EXCEPT !.pc = "blocked"] ELSE NoCall]
            /\ UNCHANGED <<leases, edges, held>>
       ELSE /\ ReplaceRows(c, call[c].req)
            /\ call' = [call EXCEPT ![c].pc = "load"]
            /\ held' = [held EXCEPT ![c] = GivenUp(c, call[c].req)]
    /\ UNCHANGED <<lockConf, session, up, mirror, lockOwners, beat, lockFaults>>

\* A failed transaction is not replayed: the request ends with EIO, and a lost
\* answer to COMMIT leaves the change in place.  The mirror keeps the rows from
\* before, so the heartbeat may miss the new ones: after EIO the client no longer
\* counts on its locks on the file.
UpdateFails(c) ==
    /\ call[c].pc = "update" /\ lockFaults > 0
    /\ lockFaults' = lockFaults - 1
    /\ \/ ~Refused(c, call[c].req) /\ ReplaceRows(c, call[c].req)
       \/ UNCHANGED <<leases, edges>>
    /\ call' = [call EXCEPT ![c] = NoCall]
    /\ held' = [held EXCEPT ![c][call[c].req.file] = [b \in Bytes |-> "none"]]
    /\ UNCHANGED <<lockConf, session, up, mirror, lockOwners, beat>>

\* After the commit the mount reads the rows again ...
Load(c) ==
    /\ call[c].pc = "load"
    /\ call' = [call EXCEPT ![c].pc = "insert", ![c].seen = load_lock_range_state_blob(call[c].req.file)]
    /\ UNCHANGED <<lockConf, leases, edges, session, up, mirror, lockOwners, beat, lockFaults, held>>

refresh_local_lock_owner_state(c, M) ==
    IF \E r \in M : r.owner = c THEN lockOwners[MountOf(c)] ELSE lockOwners[MountOf(c)] \ {c}

\* ... and stores them in its mirror; then the request is answered.
Insert(c) ==
    LET m == MountOf(c)
        q == call[c].req
        M == {r \in mirror[m] : r.file # q.file} \cup call[c].seen
    IN  /\ call[c].pc = "insert"
        /\ mirror' = [mirror EXCEPT ![m] = M]
        /\ IF call[c].todo # {}
           THEN /\ call' = [call EXCEPT ![c].pc = "closing", ![c].seen = {}]
                /\ UNCHANGED <<lockOwners, held>>
           ELSE /\ call' = [call EXCEPT ![c] = NoCall]
                /\ lockOwners' = IF q.typ = "G" THEN lockOwners
                                 ELSE [lockOwners EXCEPT ![m] = refresh_local_lock_owner_state(c, M)]
                /\ held' = IF q.typ = "G" THEN held ELSE [held EXCEPT ![c] = AfterRequest(c, q)]
        /\ UNCHANGED <<lockConf, leases, edges, session, up, beat, lockFaults>>

\* register_lock_wait_and_detect_deadlock: EDEADLK, or the request parks; one that
\* was interrupted meanwhile clears its edges and ends with EINTR.
Register(c) ==
    /\ call[c].pc = "blocked"
    /\ IF CycleThrough(c, WaitEdges(c)) \/ call[c].cancelled
       THEN /\ edges' = {e \in WaitEdges(c) : e.waiter # c}
            /\ call' = [call EXCEPT ![c] = NoCall]
       ELSE /\ edges' = WaitEdges(c)
            /\ call' = [call EXCEPT ![c].pc = "parked"]
    /\ UNCHANGED <<lockConf, leases, session, up, mirror, lockOwners, beat, lockFaults, held>>

\* The park ends, by time or by an interrupt: the edges are cleared and the next
\* turn begins.
Wake(c) ==
    /\ call[c].pc = "parked"
    /\ edges' = {e \in edges : e.waiter # c}
    /\ call' = [call EXCEPT ![c] = IF call[c].cancelled THEN NoCall ELSE [@ EXCEPT !.pc = "update"]]
    /\ UNCHANGED <<lockConf, leases, session, up, mirror, lockOwners, beat, lockFaults, held>>

\* FUSE_INTERRUPT of a blocking request needs an event thread of its own.
Interrupt(c) ==
    /\ call[c].pc \in {"update", "blocked", "parked"} /\ call[c].req.wait
    /\ ~call[c].cancelled /\ lockConf.interrupts
    /\ FreeThread(MountOf(c))
    /\ call' = [call EXCEPT ![c].cancelled = TRUE]
    /\ UNCHANGED <<lockConf, leases, edges, session, up, mirror, lockOwners, beat, lockFaults, held>>

-----------------------------------------------------------------------------
\* flush and release: clear_locks_for_owner_and_sync takes the owner's records of
\* every file out of the mirror and unlocks each of those files.

Close(c) ==
    LET m == MountOf(c)
        gone == {r.file : r \in {x \in mirror[m] : x.owner = c}}
    IN  /\ lockConf.closes /\ call[c].pc = "idle" /\ FreeThread(m)
        /\ \E f \in LockFiles :
              held' = [held EXCEPT ![c][f] = [b \in Bytes |-> "none"]]
        /\ edges' = {e \in edges : c \notin {e.waiter, e.blocker}}
        /\ mirror' = [mirror EXCEPT ![m] = {r \in @ : r.owner # c}]
        /\ IF gone = {}
           THEN /\ lockOwners' = [lockOwners EXCEPT ![m] = @ \ {c}]
                /\ UNCHANGED call
           ELSE /\ lockOwners' = [lockOwners EXCEPT ![m] = @ \cup {c}]
                /\ call' = [call EXCEPT ![c].pc = "closing", ![c].todo = gone]
        /\ UNCHANGED <<lockConf, leases, session, up, beat, lockFaults>>

CloseFile(c) ==
    /\ call[c].pc = "closing"
    /\ \E f \in call[c].todo :
          LET q == [NoRequest EXCEPT !.typ = "U", !.file = f, !.end = MaxByte] IN
          /\ ReplaceRows(c, q)
          /\ call' = [call EXCEPT ![c].pc = "load", ![c].req = q, ![c].todo = @ \ {f}]
    /\ UNCHANGED <<lockConf, session, up, mirror, lockOwners, beat, lockFaults, held>>

-----------------------------------------------------------------------------
\* The heartbeat thread: touch the owners, then one UPDATE per record of the
\* mirror that a local owner holds.  The UPDATE does not ask whether the row is
\* still live.  (Without a clock nothing ages and no round is needed.)

heartbeat_pg_mount_state(m) == {r \in mirror[m] : r.owner \in lockOwners[m]}

BeatStart(m) ==
    /\ lockConf.clock # "none" /\ m \in up /\ beat[m] = NoBeat
    /\ beat' = [beat EXCEPT ![m] = [todo |-> heartbeat_pg_mount_state(m),
                                    done |-> heartbeat_pg_mount_state(m) = {}]]
    /\ UNCHANGED <<lockConf, leases, edges, session, up, mirror, lockOwners, call, lockFaults, held>>

heartbeat_lock_range_lease(m) ==
    /\ m \in up
    /\ \E r \in beat[m].todo :
          /\ leases' = {IF Row(x) = r THEN [x EXCEPT !.age = 0] ELSE x : x \in leases}
          /\ beat' = [beat EXCEPT ![m] = [todo |-> @.todo \ {r}, done |-> @.todo = {r}]]
    /\ UNCHANGED <<lockConf, edges, session, up, mirror, lockOwners, call, lockFaults, held>>

\* Half a lease period passes.  Where the clock is timely every running mount
\* has finished a heartbeat round in it, every waiter has polled, and no request
\* stands between its commit and its mirror that long.
Tick ==
    /\ lockConf.clock # "none"
    /\ lockConf.clock = "timely" =>
          /\ \A m \in up : beat[m].done
          /\ \A e \in edges : MountOf(e.waiter) \in up => e.age = 0
          /\ \A c \in Clients : call[c].pc \notin {"load", "insert", "closing"}
    /\ leases' = {[r EXCEPT !.age = IF @ < Ttl THEN @ + 1 ELSE @] : r \in leases}
    /\ edges' = {[e EXCEPT !.age = IF @ < Ttl THEN @ + 1 ELSE @] : e \in edges}
    /\ beat' = [m \in Mounts |-> NoBeat]
    /\ UNCHANGED <<lockConf, session, up, mirror, lockOwners, call, lockFaults, held>>

Crash(m) ==
    /\ lockConf.crash /\ up = Mounts /\ m \in up
    /\ up' = up \ {m}
    /\ mirror' = [mirror EXCEPT ![m] = {}]
    /\ lockOwners' = [lockOwners EXCEPT ![m] = {}]
    /\ call' = [c \in Clients |-> IF MountOf(c) = m THEN NoCall ELSE call[c]]
    /\ held' = [c \in Clients |-> IF MountOf(c) = m THEN NothingHeld ELSE held[c]]
    /\ beat' = [beat EXCEPT ![m] = NoBeat]
    /\ UNCHANGED <<lockConf, leases, edges, session, lockFaults>>

SessionLapses(m) ==
    /\ m \notin up /\ session[m] = "live"
    /\ session' = [session EXCEPT ![m] = "lapsed"]
    /\ UNCHANGED <<lockConf, leases, edges, up, mirror, lockOwners, call, beat, lockFaults, held>>

\* prune_expired_client_sessions of another mount; the trigger on client_sessions
\* removes the rows and the edges of the session.
PruneSession(m) ==
    /\ up # {} /\ session[m] = "lapsed"
    /\ session' = [session EXCEPT ![m] = "gone"]
    /\ leases' = {r \in leases : MountOf(r.owner) # m}
    /\ edges' = {e \in edges : m \notin {MountOf(e.waiter), MountOf(e.blocker)}}
    /\ UNCHANGED <<lockConf, up, mirror, lockOwners, call, beat, lockFaults, held>>

-----------------------------------------------------------------------------
RequestStep(c) ==
    \/ getlk(c) \/ setlk(c) \/ Update(c) \/ Load(c) \/ Insert(c)
    \/ Register(c) \/ Wake(c) \/ CloseFile(c)

\* A park outlasts the calls of the other waiters: a waiter that keeps trying
\* tries, and registers, while the others are parked.
OthersParked(c) == \A d \in Clients \ {c} : call[d].pc \in {"idle", "queued", "parked"}
TryUndisturbed(c) == OthersParked(c) /\ Update(c)
RegisterUndisturbed(c) == OthersParked(c) /\ Register(c)

LockNext ==
    \/ \E c \in Clients : Ask(c) \/ RequestStep(c) \/ UpdateFails(c) \/ Interrupt(c) \/ Close(c)
    \/ \E m \in Mounts :
          BeatStart(m) \/ heartbeat_lock_range_lease(m) \/ Crash(m) \/ SessionLapses(m) \/ PruneSession(m)
    \/ Tick

LockSpec == LockInit /\ [][LockNext]_lockVars

-----------------------------------------------------------------------------
\* Where leases are renewed in time, two clients never both hold a byte that one of them
\* may write: what setlk granted stays granted until it is given back, across mounts, a
\* crash and a lost answer (update_lock_range_state_blob_for_owner,
\* heartbeat_pg_mount_state).
HeldExclusive ==
    lockConf.clock # "late" =>
        \A c, d \in Clients : \A f \in LockFiles, b \in Bytes :
            c # d /\ "W" \in {held[c][f][b], held[d][f][b]} => "none" \in {held[c][f][b], held[d][f][b]}

\* The bytes a client holds are covered, each by one live row of the right type,
\* whenever it is in no request; and without a failed request it has no other rows.
\* Splitting and replacing ranges neither loses nor invents a byte, and an interrupted
\* or refused request leaves nothing behind (update_owner_lock_range,
\* clear_locks_for_owner_and_sync).
RangesExact ==
    lockConf.clock # "late" =>
        \A c \in Clients : call[c].pc = "idle" /\ MountOf(c) \in up =>
            \A f \in LockFiles, b \in Bytes :
                LET rows == {r \in Live(leases) : r.owner = c /\ r.file = f /\ b \in r.start..r.end} IN
                /\ held[c][f][b] # "none" => Cardinality(rows) = 1 /\ \A r \in rows : r.typ = held[c][f][b]
                /\ held[c][f][b] = "none" /\ lockFaults = lockConf.faults => rows = {}

\* The recorded wait graph never holds a cycle: whoever would close one, through any
\* number of processes, gets EDEADLK instead (register_lock_wait_and_detect_deadlock).
EdgesAcyclic ==
    ~\E P \in SUBSET {lockConf.process[c] : c \in Clients} :
        /\ P # {}
        /\ \A p \in P : \E e \in Live(edges) :
              lockConf.process[e.waiter] = p /\ lockConf.process[e.blocker] \in P

\* A set of clients that all wait in F_SETLKW for a lock that another of them holds.
Deadlocked ==
    \E D \in SUBSET Clients :
        /\ D # {}
        /\ \A c \in D :
              /\ call[c].pc \in {"queued", "update", "blocked", "parked"} /\ call[c].req.wait
              /\ lock_conflict({r \in RowsOf(call[c].req.file) : r.owner \in D}, c, call[c].req)
=============================================================================
