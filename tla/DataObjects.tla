----------------------------- MODULE DataObjects ------------------------------
(***************************************************************************)
(* Data objects: the block rows several files may share, their counters    *)
(* and the payload quota.  Mounts, importers and cleaners write, punch,    *)
(* adopt, remove and reserve in READ COMMITTED transactions; a transaction *)
(* reads counters without a lock, then takes row locks one by one, and     *)
(* holds them, like its advisory locks, until it ends.                     *)
(***************************************************************************)
EXTENDS Integers, Sequences, FiniteSets, FiniteSetsExt, SequencesExt

CONSTANTS
    Stores,     \* deployments: initial rows, calls of each client, quota, faults
    Workers,    \* the clients
    FileBlocks, \* blocks a file may have
    MaxObject   \* largest data object id

VARIABLES
    store,        \* the deployment
    fileRows,     \* files: id -> [obj, size]
    objectRows,   \* data_objects with their data_blocks: id -> [refs, data]
    txn,          \* the call and transaction of each client
    truth,        \* what the committed calls make of each file
    reserved,     \* payload_capacity_reservations: client -> [blocks, live], and if its copy is stored
    refused,      \* clients whose copy was refused for quota while its reservation lived
    objectFaults  \* connections still to be lost

objectVars == <<store, fileRows, objectRows, txn, truth, reserved, refused, objectFaults>>

Blocks == 0..FileBlocks - 1
Empty == [b \in Blocks |-> 0]     \* 0: no row, a hole
Idle == [op |-> "none"]
Resting == [call |-> Idle, pc |-> "idle", need |-> <<>>, held |-> {}, obj |-> 0, new |-> 0, refs |-> 0,
            data |-> Empty, retried |-> FALSE, drop |-> "none", shared |-> {}, made |-> {}]

NoReservation == [blocks |-> 0, live |-> FALSE, used |-> FALSE]

Lck(kind, id) == [kind |-> kind, id |-> id]
Quota == Lck("quota", 0)

ObjectTypeOK ==
    /\ DOMAIN fileRows \subseteq DOMAIN store.files
    /\ \A f \in DOMAIN fileRows : fileRows[f].obj \in DOMAIN objectRows /\ fileRows[f].size \in 0..FileBlocks
    /\ DOMAIN objectRows \subseteq 1..MaxObject
    /\ \A o \in DOMAIN objectRows : objectRows[o].refs \in 0..Cardinality(DOMAIN store.files)
    /\ \A w \in Workers : txn[w].pc \in {"idle", "probe", "begin", "read", "lock", "apply", "commit", "done",
                                         "reserve", "release"}

ObjectInit ==
    /\ store \in Stores
    /\ fileRows = store.files
    /\ objectRows = store.objects
    /\ txn = [w \in Workers |-> Resting]
    /\ truth = [f \in DOMAIN store.files |-> [b \in Blocks |-> IF b < store.files[f].size
                                              THEN store.objects[store.files[f].obj].data[b] ELSE 0]]
    /\ reserved = [w \in Workers |-> NoReservation]
    /\ refused = {}
    /\ objectFaults = store.faults

-----------------------------------------------------------------------------
Users(o) == {f \in DOMAIN fileRows : fileRows[f].obj = o}
Shows(f) == [b \in Blocks |-> IF b < fileRows[f].size THEN objectRows[fileRows[f].obj].data[b] ELSE 0]
RowCount(data) == Cardinality({b \in Blocks : data[b] # 0})

\* Rows of data_blocks plus the reservations still live, but for one's own.
persisted_and_reserved(objs, except) ==
    MapThenSumSet(LAMBDA o : RowCount(objs[o].data), DOMAIN objs)
        + MapThenSumSet(LAMBDA w : reserved[w].blocks, {w \in Workers \ except : reserved[w].live})

Fresh == Min({i \in 1..MaxObject : i \notin DOMAIN objectRows /\ \A w \in Workers : txn[w].new # i})

SortedLocks(fs) == [i \in 1..Cardinality(fs) |-> Lck("write", SetToSortSeq(fs, LAMBDA a, b : a < b)[i])]

\* Mutant: adoption does not lock its source.
LocksDestination(c) ==
    CASE c.op = "adopt" -> <<Lck("write", c.dst)>>
      [] c.op = "purge" -> <<Lck("open", c.file), Lck("file", c.file)>>
      [] c.op = "copy" -> <<Lck("write", c.file), Quota>>
      [] c.op \in {"persist", "punch", "import"} -> <<Lck("write", c.file)>>
      [] OTHER -> <<>>

\* Locks of one transaction, in the order it takes them.  A cleanup takes its
\* advisory locks with a try-lock.
AdvisoryLocks(c) ==
    CASE c.op = "adopt" -> SortedLocks({c.src, c.dst})
      [] c.op = "purge" -> <<Lck("open", c.file), Lck("file", c.file)>>
      [] c.op = "copy" -> <<Lck("write", c.file), Quota>>
      [] c.op \in {"persist", "punch", "import"} -> <<Lck("write", c.file)>>
      [] OTHER -> <<>>

HeldByOthers(w, l) == \E v \in Workers \ {w} : l \in txn[v].held
Ready(w, at) == txn[w].pc = at /\ txn[w].need = <<>>
Moved(w, at, need) == [txn[w] EXCEPT !.pc = at, !.need = SelectSeq(need, LAMBDA l : l \notin txn[w].held)]
Over(w, at) ==
    [Resting EXCEPT !.call = txn[w].call, !.pc = at, !.retried = txn[w].retried, !.made = txn[w].made]

\* The transaction ends; a copy then drops its reservation.
Finished(w) == [Resting EXCEPT !.made = txn[w].made]
Ends(w) == IF txn[w].call.op = "copy" THEN Over(w, "release") ELSE Finished(w)

-----------------------------------------------------------------------------
\* A client makes one of its calls.  A copy first reserves the size its file will have.
Call(w) ==
    /\ txn[w].pc = "idle"
    /\ \E c \in store.calls[w] \ txn[w].made :
          LET first == IF c.op = "copy" THEN "reserve" ELSE "begin"
          IN txn' = [txn EXCEPT ![w] = [Resting EXCEPT !.call = c, !.pc = first, !.made = txn[w].made \cup {c},
                        !.need = IF first = "reserve" THEN <<Quota>> ELSE AdvisoryLocks(c)]]
    /\ UNCHANGED <<store, fileRows, objectRows, truth, reserved, refused, objectFaults>>

TakeLock(w) ==
    /\ txn[w].need # <<>>
    /\ ~HeldByOthers(w, Head(txn[w].need))
    /\ txn' = [txn EXCEPT ![w].need = Tail(@), ![w].held = @ \cup {Head(txn[w].need)}]
    /\ UNCHANGED <<store, fileRows, objectRows, truth, reserved, refused, objectFaults>>

Abort(w) ==
    /\ txn' = [txn EXCEPT ![w] = Ends(w)]
    /\ UNCHANGED <<store, fileRows, objectRows, truth, reserved, objectFaults>>

\* A transaction that has nothing to change commits as it is.
Nothing(w) == Abort(w) /\ UNCHANGED refused

\* The new reservation counts against the quota, and so does what it replays.
reserve_payload_capacity(w) ==
    /\ Ready(w, "reserve")
    /\ LET c == txn[w].call
           live == [v \in Workers |-> IF reserved[v].live THEN reserved[v] ELSE NoReservation]
       IN IF persisted_and_reserved(objectRows, {}) + c.size <= store.quota
          THEN /\ reserved' = [live EXCEPT ![w] = [blocks |-> c.size, live |-> TRUE, used |-> FALSE]]
               /\ txn' = [txn EXCEPT ![w] = [Over(w, "begin") EXCEPT !.need = AdvisoryLocks(c)]]
          ELSE /\ txn' = [txn EXCEPT ![w] = Finished(w)]
               /\ UNCHANGED reserved
    /\ UNCHANGED <<store, fileRows, objectRows, truth, refused, objectFaults>>

release_payload_capacity_reservation(w) ==
    /\ txn[w].pc = "release"
    /\ reserved' = [reserved EXCEPT ![w] = NoReservation]
    /\ txn' = [txn EXCEPT ![w] = Finished(w)]
    /\ UNCHANGED <<store, fileRows, objectRows, truth, refused, objectFaults>>

\* A reservation of an hour ago.
Expire(w) ==
    /\ store.expires /\ reserved[w].live
    /\ reserved' = [reserved EXCEPT ![w].live = FALSE, ![w].used = FALSE]
    /\ UNCHANGED <<store, fileRows, objectRows, txn, truth, refused, objectFaults>>

refresh_payload_reservation(w) ==
    reserved[w].blocks > 0 /\ persisted_and_reserved(objectRows, {w}) + reserved[w].blocks <= store.quota

Refuse(w) ==
    /\ Abort(w)
    /\ refused' = IF /\ txn[w].call.op = "copy" /\ reserved[w].live
                     /\ \A v \in Workers : ~reserved[v].used
                  THEN refused \cup {w} ELSE refused

-----------------------------------------------------------------------------
Writers == {"persist", "copy", "import", "punch"}

\* Every block of the file is in the call; an import always replaces.
persist_blocks_cover_full_file(c) ==
    c.op # "punch" /\ c.size > 0 /\ (c.op = "import" \/ DOMAIN c.data = 0..c.size - 1)

punch_hole_keep_size(c, old) == [b \in Blocks |-> IF b \in DOMAIN c.data THEN c.data[b] ELSE old[b]]

Overlaid(c, old) ==
    IF c.op = "punch" THEN punch_hole_keep_size(c, old)
    ELSE [b \in Blocks |-> IF b \in DOMAIN c.data THEN c.data[b]
                           ELSE IF c.truncates /\ b >= c.size THEN 0 ELSE old[b]]

\* Mutant: the private copy leaves the shared object's counter alone.
NoReferenceGiven(replaces, refs) ==
    IF replaces /\ refs <= 1 THEN IF store.deferred THEN "zero" ELSE "delete" ELSE "none"

\* What becomes of the old object, by the counter as it was read.
ReplacedObject(replaces, refs) ==
    CASE replaces /\ refs <= 1 -> IF store.deferred THEN "zero" ELSE "delete"
      [] refs > 1 -> "decrement"
      [] OTHER -> "none"

\* Where the blocks go: a new object that replaces the old one, a private copy of a
\* shared one, or the object itself when nobody shared it at the time of the SELECT.
data_object_write_target(w) ==
    LET c == txn[w].call
        o == fileRows[c.file].obj
        refs == objectRows[o].refs
        replaces == persist_blocks_cover_full_file(c)
        rows == <<Lck("file", c.file), Lck("object", o)>>
    IN txn' = [txn EXCEPT ![w] =
          [Moved(w, "lock", IF replaces \/ refs > 1 THEN rows ELSE Reverse(rows)) EXCEPT
              !.obj = o, !.refs = refs,
              !.new = IF replaces \/ refs > 1 THEN Fresh ELSE 0,
              !.data = Overlaid(c, IF replaces THEN Empty ELSE objectRows[o].data),
              !.drop = ReplacedObject(replaces, refs)]]

\* The fence checks of the importer's plan and of the file's lease are modelled with
\* the leases; a file that is gone is left alone.
WriteBegin(w) ==
    /\ Ready(w, "begin") /\ txn[w].call.op \in Writers
    /\ LET c == txn[w].call
       IN IF c.op = "copy" /\ ~refresh_payload_reservation(w) THEN Refuse(w)
          ELSE IF \/ c.file \notin DOMAIN fileRows
                  \/ c.op = "punch" /\ \A b \in DOMAIN c.data : b >= fileRows[c.file].size
               THEN Nothing(w)
               ELSE /\ data_object_write_target(w)
                    /\ UNCHANGED <<store, fileRows, objectRows, truth, reserved, refused, objectFaults>>

\* The rows are locked: the file must still be there, and its old object, if it is to
\* go, must have no other user.  An import that finds its source changed gives up.
WriteRows(w) ==
    /\ Ready(w, "lock") /\ txn[w].call.op \in Writers
    /\ LET c == txn[w].call
           fails == c.file \notin DOMAIN fileRows \/ (txn[w].drop = "delete" /\ Users(txn[w].obj) # {c.file})
       IN \/ /\ fails \/ c.op = "import"
             /\ Nothing(w)
          \/ /\ ~fails
             /\ txn' = [txn EXCEPT ![w] = Moved(w, "apply", <<Quota>>)]
             /\ UNCHANGED <<store, fileRows, objectRows, truth, reserved, refused, objectFaults>>

Dropped(objs, o, how) ==
    CASE how = "delete" -> [x \in DOMAIN objs \ {o} |-> objs[x]]
      [] how = "decrement" -> [objs EXCEPT ![o].refs = Max({@ - 1, 0})]
      [] how = "zero" -> [objs EXCEPT ![o].refs = 0]
      [] OTHER -> objs

finish_data_object_write(w) ==
    LET t == txn[w]
        dropped == Dropped(objectRows, t.obj, t.drop)
    IN IF t.new = 0 THEN [objectRows EXCEPT ![t.obj].data = t.data]
       ELSE [x \in DOMAIN dropped \cup {t.new} |->
               IF x = t.new THEN [refs |-> 1, data |-> t.data] ELSE dropped[x]]

\* Mutant: the check is made of the rows before the write.
EnforceBefore(objs, w) == persisted_and_reserved(objectRows, {}) <= store.quota

enforce_payload_quota(objs, w) ==
    persisted_and_reserved(objs, IF txn[w].call.op = "copy" THEN {w} ELSE {}) <= store.quota

WriteChecked(w) ==
    /\ Ready(w, "apply") /\ txn[w].call.op \in Writers
    /\ IF ~enforce_payload_quota(finish_data_object_write(w), w) THEN Refuse(w)
       ELSE /\ txn' = [txn EXCEPT ![w].pc = "commit"]
            /\ UNCHANGED <<store, fileRows, objectRows, truth, reserved, refused, objectFaults>>

WriteCommit(w) ==
    /\ txn[w].pc = "commit"
    /\ LET c == txn[w].call
           t == txn[w]
           size == IF c.op = "punch" THEN fileRows[c.file].size ELSE c.size
           written == Overlaid(c, truth[c.file])
       IN /\ objectRows' = finish_data_object_write(w)
          /\ fileRows' = [fileRows EXCEPT ![c.file] = [obj |-> IF t.new = 0 THEN t.obj ELSE t.new, size |-> size]]
          /\ truth' = [truth EXCEPT ![c.file] = [b \in Blocks |-> IF b < size THEN written[b] ELSE 0]]
          /\ txn' = [txn EXCEPT ![w] = Over(w, "done")]
          /\ reserved' = [reserved EXCEPT ![w].used = c.op = "copy" /\ reserved[w].live]
          /\ UNCHANGED <<store, refused, objectFaults>>

-----------------------------------------------------------------------------
\* A whole file of another: the destination must be empty.
Adoptable(c) ==
    /\ {c.src, c.dst} \subseteq DOMAIN fileRows
    /\ fileRows[c.src].size # 0 /\ fileRows[c.dst].size = 0
    /\ fileRows[c.src].obj # fileRows[c.dst].obj

AdoptBegin(w) ==
    /\ Ready(w, "begin") /\ txn[w].call.op = "adopt"
    /\ LET c == txn[w].call
       IN IF ~Adoptable(c) THEN Nothing(w)
          ELSE /\ txn' = [txn EXCEPT ![w] =
                     [Moved(w, "lock", <<Lck("object", fileRows[c.src].obj), Lck("file", c.dst)>>) EXCEPT
                        !.new = fileRows[c.src].obj, !.obj = fileRows[c.dst].obj, !.refs = fileRows[c.src].size]]
               /\ UNCHANGED <<store, fileRows, objectRows, truth, reserved, refused, objectFaults>>

\* Without the source's object the new reference fails.  The files that still use the
\* old object of the destination are counted, not read off its counter.
AdoptRows(w) ==
    /\ Ready(w, "lock") /\ txn[w].call.op = "adopt"
    /\ LET t == txn[w]
       IN IF t.new \notin DOMAIN objectRows THEN Nothing(w)
          ELSE /\ txn' = [txn EXCEPT ![w] =
                     [Moved(w, "apply", <<Lck("object", t.obj)>>) EXCEPT
                        !.drop = IF Users(t.obj) \ {t.call.dst} = {} THEN "delete" ELSE "decrement"]]
               /\ UNCHANGED <<store, fileRows, objectRows, truth, reserved, refused, objectFaults>>

adopt_source_data_object(w) ==
    /\ Ready(w, "apply") /\ txn[w].call.op = "adopt"
    /\ LET t == txn[w]
           c == t.call
       IN /\ objectRows' = Dropped([objectRows EXCEPT ![t.new].refs = @ + 1], t.obj, t.drop)
          /\ fileRows' = [fileRows EXCEPT ![c.dst] = [obj |-> t.new, size |-> t.refs]]
          /\ truth' = [truth EXCEPT ![c.dst] = truth[c.src]]
          /\ txn' = [txn EXCEPT ![w] = Over(w, "done")]
          /\ UNCHANGED <<store, reserved, refused, objectFaults>>

\* A replayed adoption first looks whether it has happened.
AdoptProbe(w) ==
    /\ txn[w].pc = "probe"
    /\ LET c == txn[w].call
           happened == /\ {c.src, c.dst} \subseteq DOMAIN fileRows
                       /\ fileRows[c.src].size # 0 /\ fileRows[c.src] = fileRows[c.dst]
       IN txn' = [txn EXCEPT ![w] = IF happened THEN Over(w, "done")
                                    ELSE [Over(w, "begin") EXCEPT !.need = AdvisoryLocks(c)]]
    /\ UNCHANGED <<store, fileRows, objectRows, truth, reserved, refused, objectFaults>>

-----------------------------------------------------------------------------
\* The last name of a closed file goes.  The file's row is locked, the object's not yet:
\* the counter read here decides what happens to the object.
PurgeBegin(w) ==
    /\ Ready(w, "begin") /\ txn[w].call.op = "purge"
    /\ LET f == txn[w].call.file
       IN IF f \notin DOMAIN fileRows THEN Nothing(w)
          ELSE LET o == fileRows[f].obj
               IN /\ txn' = [txn EXCEPT ![w] =
                        [Moved(w, "lock", <<Lck("object", o)>>) EXCEPT
                           !.obj = o, !.drop = IF objectRows[o].refs <= 1 THEN "delete" ELSE "decrement"]]
                  /\ UNCHANGED <<store, fileRows, objectRows, truth, reserved, refused, objectFaults>>

\* The foreign key of another file keeps the object and fails the removal.
remove_primary_file(w) ==
    /\ Ready(w, "lock") /\ txn[w].call.op = "purge"
    /\ LET t == txn[w]
           f == t.call.file
       IN IF t.drop = "delete" /\ Users(t.obj) # {f} THEN Nothing(w)
          ELSE /\ objectRows' = Dropped(objectRows, t.obj, t.drop)
               /\ fileRows' = [x \in DOMAIN fileRows \ {f} |-> fileRows[x]]
               /\ txn' = [txn EXCEPT ![w] = Over(w, "done")]
               /\ UNCHANGED <<store, truth, reserved, refused, objectFaults>>

-----------------------------------------------------------------------------
\* The files of a failed import: a busy file stops the cleanup at once.
Imported(w) == txn[w].call.files \cap DOMAIN fileRows
CleanupBegin(w) ==
    /\ Ready(w, "begin") /\ txn[w].call.op = "cleanup"
    /\ LET fs == Imported(w)
           keys == {Lck(k, f) : k \in {"open", "write"}, f \in fs}
           objs == {fileRows[f].obj : f \in fs}
           Ordered(S) == SetToSortSeq(S, LAMBDA a, b : a < b)
       IN IF \E l \in keys : HeldByOthers(w, l) THEN Nothing(w)
          ELSE /\ txn' = [txn EXCEPT ![w] =
                     [Moved(w, "lock", [i \in 1..Cardinality(fs) |-> Lck("file", Ordered(fs)[i])]
                            \o [i \in 1..Cardinality(objs) |-> Lck("object", Ordered(objs)[i])]) EXCEPT
                        !.held = keys,
                        !.shared = {o \in objs : ~(Users(o) \subseteq fs)}]]
               /\ UNCHANGED <<store, fileRows, objectRows, truth, reserved, refused, objectFaults>>

\* An object with users outside the import loses the import's references; the others
\* go, if their counters say that nobody else came.
cleanup_failed_materialization(w) ==
    /\ Ready(w, "lock") /\ txn[w].call.op = "cleanup"
    /\ LET fs == Imported(w)
           objs == {fileRows[f].obj : f \in fs}
           n(o) == Cardinality(Users(o) \cap fs)
           kept == DOMAIN objectRows \ (objs \ txn[w].shared)
       IN IF \/ \E o \in objs \cap txn[w].shared : objectRows[o].refs < n(o)
             \/ \E o \in objs \ txn[w].shared : objectRows[o].refs # n(o) \/ ~(Users(o) \subseteq fs)
          THEN Nothing(w)
          ELSE /\ objectRows' = [o \in kept |-> IF o \in objs THEN [objectRows[o] EXCEPT !.refs = @ - n(o)]
                                                 ELSE objectRows[o]]
               /\ fileRows' = [f \in DOMAIN fileRows \ fs |-> fileRows[f]]
               /\ txn' = [txn EXCEPT ![w] = Over(w, "done")]
               /\ UNCHANGED <<store, truth, reserved, refused, objectFaults>>

-----------------------------------------------------------------------------
Answered(w) ==
    /\ txn[w].pc = "done"
    /\ txn' = [txn EXCEPT ![w] = Ends(w)]
    /\ UNCHANGED <<store, fileRows, objectRows, truth, reserved, refused, objectFaults>>

\* The connection goes, before COMMIT or with its answer.  Removals are not replayed,
\* the others once.
LoseSession(w) ==
    /\ objectFaults > 0 /\ txn[w].pc \in {"begin", "lock", "apply", "commit", "done"}
    /\ objectFaults' = objectFaults - 1
    /\ LET t == txn[w]
           again == [Over(w, "begin") EXCEPT !.need = AdvisoryLocks(t.call), !.retried = TRUE]
       IN txn' = [txn EXCEPT ![w] =
             CASE t.retried \/ t.call.op \in {"purge", "cleanup"} -> Ends(w)
               [] t.call.op = "adopt" /\ ~t.retried -> [Over(w, "probe") EXCEPT !.retried = TRUE]
               [] OTHER -> again]
    /\ UNCHANGED <<store, fileRows, objectRows, truth, reserved, refused>>

Waits(w, v) == w # v /\ txn[w].need # <<>> /\ Head(txn[w].need) \in txn[v].held
Circle(w, v) == Waits(w, v) /\ (Waits(v, w) \/ \E u \in Workers : Waits(v, u) /\ Waits(u, w))

\* PostgreSQL ends one transaction of a circle.
DeadlockVictim(w) == (\E v \in Workers : Circle(w, v)) /\ Nothing(w)

ObjectNext ==
    \E w \in Workers :
        \/ Call(w) \/ TakeLock(w) \/ Answered(w) \/ LoseSession(w) \/ DeadlockVictim(w)
        \/ reserve_payload_capacity(w) \/ release_payload_capacity_reservation(w) \/ Expire(w)
        \/ WriteBegin(w) \/ WriteRows(w) \/ WriteChecked(w) \/ WriteCommit(w)
        \/ AdoptBegin(w) \/ AdoptRows(w) \/ adopt_source_data_object(w) \/ AdoptProbe(w)
        \/ PurgeBegin(w) \/ remove_primary_file(w)
        \/ CleanupBegin(w) \/ cleanup_failed_materialization(w)

-----------------------------------------------------------------------------
\* Copy-on-write isolates files: every file shows what the committed calls on it made
\* of it, whoever shares its object, reads a stale counter or replays.
CopyOnWrite == \A f \in DOMAIN fileRows : Shows(f) = truth[f]

\* The counter of an object is the number of files that use it, although each
\* transaction decides by a counter it read before it had the row.
RefsExact == \A o \in DOMAIN objectRows : objectRows[o].refs = Cardinality(Users(o))

\* Block rows never exceed the quota, with writers that check after they wrote.
QuotaKept == persisted_and_reserved(objectRows, Workers) <= store.quota

\* A copy that reserved its space is not refused for quota while its reservation lives
\* and no other copy is stored with its reservation not yet released, which counts twice.
ReservationKept == refused = {}

\* Transactions wait in a circle only when one of them is a copy with a reservation,
\* which takes the quota lock before its rows while others take it after.
CirclesOfCopies ==
    \A w, v \in Workers : Circle(w, v) => \E u \in Workers : txn[u].call.op = "copy" /\ Quota \in txn[u].held
=============================================================================
