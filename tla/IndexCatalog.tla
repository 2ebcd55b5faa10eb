----------------------------- MODULE IndexCatalog -----------------------------
(***************************************************************************)
(* The catalogue of fod-indexer: scan, hash, plan-import and clean run as  *)
(* commands over a source directory that others keep editing; the read API *)
(* reads bytes of an indexed file and stores snapshots of the catalogue.   *)
(* Every statement outside an explicit transaction commits by itself.      *)
(***************************************************************************)
EXTENDS Integers, Sequences, FiniteSets, SequencesExt, FiniteSetsExt

CONSTANTS
    Sites,       \* deployments: sources and scripts of the indexers, mishaps
    Indexers,    \* processes that run commands on a source of their own
    PathOrder,   \* the source files in path order
    SizeOf,      \* size of a content; 0 for "empty"
    SampleOf     \* partial hash of a content: contents may share it

VARIABLES
    site,      \* the deployment
    was,       \* every content each source file has had; the last is current
    idx,       \* index_files: file -> [id, stamp, changed]
    hashes,    \* index_file_hashes: file -> [status, full, stamp]
    sets,      \* index_duplicate_sets: full hashes held by several files
    nextId,    \* the sequence of index_files
    dryRun,    \* the dry-run import plan: [status, entries]
    proc,      \* the indexers
    reader,    \* a client of the read API
    got,       \* what its successful reads returned
    snap,      \* the catalogue snapshot: [count, max, rows, taken, inflight, status]
    odds       \* edits and lost connections still to come

indexVars == <<site, was, idx, hashes, sets, nextId, dryRun, proc, reader, got, snap, odds>>

\* A snapshot of the metadata of a file (size, mtime, inode, device) is
\* different after every change: here, how many contents it has had.
Stamp(f) == Len(was[f])
Now(f) == Last(was[f])
Gone(f) == Now(f) = "gone"
SizeAt(f, stamp) == SizeOf[was[f][stamp]]
Files == {PathOrder[i] : i \in DOMAIN PathOrder}
InOrder(s) == SelectSeq(PathOrder, LAMBDA f : f \in s)
Nobody == [f \in {} |-> 0]
AtRest(script) == [script |-> script, pc |-> "idle", left |-> <<>>, rows |-> Nobody, staged |-> Nobody,
                   seen |-> {}, before |-> 0, retried |-> FALSE]

NoSnapshot == [count |-> 0, max |-> 0, rows |-> {}, taken |-> {}, inflight |-> {}, status |-> "none"]

IndexTypeOK ==
    /\ DOMAIN idx \subseteq Files
    /\ DOMAIN hashes \subseteq DOMAIN idx
    /\ \A f \in DOMAIN idx : idx[f].stamp \in 1..Stamp(f) /\ idx[f].id \in 1..nextId
    /\ dryRun.status \in {"none", "running", "completed"}
    /\ \A p \in Indexers : proc[p].pc \in {"idle", "walk", "merge", "commit", "sizes", "partial", "partialBytes", "partialAfter", "full",
                                           "fullBytes", "fullAfter",
                                           "store", "drop", "select", "put", "sets", "plan", "entries", "clean", "delete", "failed"}

IndexInit ==
    /\ site \in Sites
    /\ was = [f \in Files |-> <<site.data[f]>>]
    /\ idx = Nobody /\ hashes = Nobody /\ sets = {} /\ nextId = 0
    /\ dryRun = [status |-> "none", entries |-> {}]
    /\ proc = [p \in Indexers |-> AtRest(site.scripts[p])]
    /\ reader = AtRest(site.reads)
    /\ got = {}
    /\ snap = NoSnapshot
    /\ odds = site.odds

-----------------------------------------------------------------------------
Edit(f, v) ==
    /\ odds.edits > 0
    /\ v # Now(f)
    /\ was' = [was EXCEPT ![f] = Append(@, v)]
    /\ odds' = [odds EXCEPT !.edits = @ - 1]
    /\ UNCHANGED <<site, idx, hashes, sets, nextId, dryRun, proc, reader, got, snap>>

Endings == {"ok"} \cup (IF odds.faults > 0 THEN {"unapplied", "unknown"} ELSE {})
Spent(ending) == odds' = [odds EXCEPT !.faults = IF ending = "ok" THEN @ ELSE @ - 1]

\* A transaction that is replayed once when its connection is lost.
Replayed(r, ending, done) ==
    IF ending = "ok" THEN [done EXCEPT !.retried = FALSE]
    ELSE IF r.retried THEN [r EXCEPT !.pc = "failed"] ELSE [r EXCEPT !.retried = TRUE]

Own(p) == site.sources[p]
Finished(p) == AtRest(Tail(proc[p].script))

\* load_indexed_files and eligible_hash_files: the indexed files of a source.
Indexed(p) == [f \in DOMAIN idx \cap Own(p) |-> idx[f]]

Start(p) ==
    LET r == proc[p]
        first == [r EXCEPT !.pc = CASE Head(r.script) = "scan" -> "walk"
                                    [] Head(r.script) = "hash" -> "partial"
                                    [] Head(r.script) = "candidates" -> "sizes"
                                    [] Head(r.script) \in {"plan", "planAll"} -> "drop"
                                    [] OTHER -> "clean",
                           !.left = IF Head(r.script) = "scan" THEN InOrder(Own(p)) ELSE InOrder(DOMAIN Indexed(p)),
                           !.rows = IF Head(r.script) \in {"hash", "candidates", "clean"} THEN Indexed(p) ELSE @]
    IN /\ r.pc = "idle" /\ r.script # <<>>
       /\ proc' = [proc EXCEPT ![p] = first]
       /\ UNCHANGED <<site, was, idx, hashes, sets, nextId, dryRun, reader, got, snap, odds>>

-----------------------------------------------------------------------------
\* scan_source: each file is looked at in turn; what is found is merged in
\* one transaction, which takes new ids from the sequence before it commits.
Walk(p) ==
    LET r == proc[p]
        f == Head(r.left)
        found == IF SizeOf[Now(f)] = 0 THEN r.staged
                 ELSE [g \in DOMAIN r.staged \cup {f} |-> IF g = f THEN Stamp(f) ELSE r.staged[g]]
    IN /\ r.pc = "walk"
       /\ proc' = [proc EXCEPT ![p] = IF r.left = <<>> THEN [r EXCEPT !.pc = "merge"]
                                      ELSE [r EXCEPT !.left = Tail(@), !.staged = found]]
       /\ UNCHANGED <<site, was, idx, hashes, sets, nextId, dryRun, reader, got, snap, odds>>

upsert_index_files_staged(p) ==
    LET r == proc[p]
        new == InOrder(DOMAIN r.staged \ DOMAIN idx)
        id(f) == IF f \in DOMAIN idx THEN idx[f].id ELSE nextId + (CHOOSE i \in DOMAIN new : new[i] = f)
    IN /\ r.pc = "merge"
       /\ nextId' = nextId + Len(new)
       /\ proc' = [proc EXCEPT ![p] = [r EXCEPT !.pc = "commit", !.rows =
                      [f \in DOMAIN r.staged |-> [id |-> id(f), stamp |-> r.staged[f], changed |-> FALSE]]]]
       /\ UNCHANGED <<site, was, idx, hashes, sets, dryRun, reader, got, snap, odds>>

CommitFiles(p, ending) ==
    LET r == proc[p]
    IN /\ r.pc = "commit"
       /\ idx' = IF ending = "unapplied" THEN idx
                 ELSE [f \in DOMAIN idx \cup DOMAIN r.rows |-> IF f \in DOMAIN r.rows THEN r.rows[f] ELSE idx[f]]
       /\ proc' = [proc EXCEPT ![p] = Replayed([r EXCEPT !.pc = "merge"], ending, Finished(p))]
       /\ Spent(ending)
       /\ UNCHANGED <<site, was, hashes, sets, nextId, dryRun, reader, got, snap>>

-----------------------------------------------------------------------------
\* hash_source: metadata, hash and metadata again, first over samples of
\* every file, then over the whole of those whose sample is not unique.
\* With --candidates-only the files are those whose size several indexed
\* files of all sources have, and each of them is hashed in full.
CandidatesOnly(r) == Head(r.script) = "candidates"

load_global_candidate_sizes(p) ==
    LET r == proc[p]
        size(f) == SizeAt(f, idx[f].stamp)
        shared == {size(f) : f \in {g \in DOMAIN idx : \E h \in DOMAIN idx \ {g} : size(h) = size(g)}}
    IN /\ r.pc = "sizes"
       /\ proc' = [proc EXCEPT ![p] = [r EXCEPT !.pc = "partial",
                      !.left = InOrder({f \in DOMAIN r.rows : SizeAt(f, r.rows[f].stamp) \in shared})]]
       /\ UNCHANGED <<site, was, idx, hashes, sets, nextId, dryRun, reader, got, snap, odds>>

Retry(f) == [status |-> "retry", full |-> "none", sample |-> "none", stamp |-> Stamp(f)]
Stage(r, f, h) == [g \in DOMAIN r.staged \cup {f} |-> IF g = f THEN h ELSE r.staged[g]]
mark_file_changed(f) == idx' = IF f \in DOMAIN idx THEN [idx EXCEPT ![f].changed = TRUE] ELSE idx

\* Mutant: a file is hashed as it is now, whatever was indexed.
ExpectsNow(r, f) == IF r.pc = "partial" THEN Stamp(f) ELSE r.staged[f].stamp

Expected(r, f) == IF r.pc = "partial" THEN r.rows[f].stamp ELSE r.staged[f].stamp

Sampled(staged) == {f \in DOMAIN staged : staged[f].status = "partial"}
Colliding(staged) ==
    {f \in Sampled(staged) : \E g \in Sampled(staged) \ {f} :
        /\ staged[g].sample = staged[f].sample
        /\ SizeAt(g, staged[g].stamp) = SizeAt(f, staged[f].stamp)}

HashBefore(p) ==
    LET r == proc[p]
        f == Head(r.left)
        bytes == IF r.pc = "partial" THEN "partialBytes" ELSE "fullBytes"
    IN /\ r.pc \in {"partial", "full"} /\ r.left # <<>>
       /\ IF Gone(f) THEN proc' = [proc EXCEPT ![p].pc = "failed"] /\ UNCHANGED idx
          ELSE IF Stamp(f) # Expected(r, f)
          THEN /\ mark_file_changed(f)
               /\ proc' = [proc EXCEPT ![p] = [r EXCEPT !.left = Tail(@), !.staged = Stage(r, f, Retry(f))]]
          ELSE proc' = [proc EXCEPT ![p] = [r EXCEPT !.pc = bytes, !.before = Stamp(f)]] /\ UNCHANGED idx
       /\ UNCHANGED <<site, was, hashes, sets, nextId, dryRun, reader, got, snap, odds>>

HashBytes(p) ==
    LET r == proc[p]
        f == Head(r.left)
    IN /\ r.pc \in {"partialBytes", "fullBytes"}
       /\ proc' = [proc EXCEPT ![p] = IF Gone(f) THEN [r EXCEPT !.pc = "failed"]
                                      ELSE [r EXCEPT !.pc = IF @ = "partialBytes" THEN "partialAfter" ELSE "fullAfter", !.seen = {Now(f)}]]
       /\ UNCHANGED <<site, was, idx, hashes, sets, nextId, dryRun, reader, got, snap, odds>>

\* Mutant: no second look at the metadata.
NotRechecked(f, before) == TRUE

\* What is recorded is the hash of the bytes read, if the file did not
\* change while they were read.
Unchanged(f, before) == Stamp(f) = before

HashAfter(p) ==
    LET r == proc[p]
        f == Head(r.left)
        data == CHOOSE d \in r.seen : TRUE
        back == [r EXCEPT !.pc = IF @ = "partialAfter" THEN "partial" ELSE "full", !.left = Tail(@), !.seen = {}, !.before = 0]
        row == [status |-> IF r.pc = "partialAfter" THEN "partial" ELSE "full",
                full |-> IF r.pc = "partialAfter" THEN "none" ELSE data, sample |-> SampleOf[data], stamp |-> r.before]
    IN /\ r.pc \in {"partialAfter", "fullAfter"}
       /\ IF Gone(f) THEN proc' = [proc EXCEPT ![p].pc = "failed"] /\ UNCHANGED idx
          ELSE IF Unchanged(f, r.before) THEN proc' = [proc EXCEPT ![p] = [back EXCEPT !.staged = Stage(r, f, row)]] /\ UNCHANGED idx
          ELSE /\ mark_file_changed(f)
               /\ proc' = [proc EXCEPT ![p] = [back EXCEPT !.staged = Stage(r, f, [Retry(f) EXCEPT !.stamp = r.before])]]
       /\ UNCHANGED <<site, was, hashes, sets, nextId, dryRun, reader, got, snap, odds>>

HashPassEnds(p) ==
    LET r == proc[p]
    IN /\ r.pc \in {"partial", "full"} /\ r.left = <<>>
       /\ proc' = [proc EXCEPT ![p] = IF r.pc = "full" THEN [r EXCEPT !.pc = "store"]
                                      ELSE [r EXCEPT !.pc = "full", !.left = InOrder(IF CandidatesOnly(r) THEN Sampled(r.staged)
                                                                                    ELSE Colliding(r.staged))]]
       /\ UNCHANGED <<site, was, idx, hashes, sets, nextId, dryRun, reader, got, snap, odds>>

\* A row whose file is no longer indexed violates its foreign key.
upsert_index_file_hashes_staged(p, ending) ==
    LET r == proc[p]
        rows == [f \in DOMAIN r.staged |-> [status |-> r.staged[f].status, full |-> r.staged[f].full, stamp |-> r.staged[f].stamp]]
    IN /\ r.pc = "store"
       /\ IF ~(DOMAIN r.staged \subseteq DOMAIN idx)
          THEN proc' = [proc EXCEPT ![p].pc = "failed"] /\ UNCHANGED <<hashes, odds>>
          ELSE /\ hashes' = IF ending = "unapplied" THEN hashes
                            ELSE [f \in DOMAIN hashes \cup DOMAIN rows |-> IF f \in DOMAIN rows THEN rows[f] ELSE hashes[f]]
               /\ proc' = [proc EXCEPT ![p] = Replayed(r, ending, [r EXCEPT !.pc = "drop"])]
               /\ Spent(ending)
       /\ UNCHANGED <<site, was, idx, sets, nextId, dryRun, reader, got, snap>>

-----------------------------------------------------------------------------
\* rebuild_duplicate_sets: DELETE, SELECT, and a transaction that deletes and
\* inserts; between them other commands run.
FullHashes(h) == {h[f].full : f \in {g \in DOMAIN h : h[g].status = "full"}}
Duplicated(h) == {x \in FullHashes(h) : Cardinality({f \in DOMAIN h : h[f].status = "full" /\ h[f].full = x}) > 1}

rebuild_duplicate_sets(p) ==
    LET r == proc[p]
    IN /\ \/ r.pc = "drop" /\ sets' = {} /\ proc' = [proc EXCEPT ![p].pc = "select"]
          \/ r.pc = "select" /\ UNCHANGED sets /\ proc' = [proc EXCEPT ![p].pc = "put", ![p].seen = Duplicated(hashes)]
          \/ /\ r.pc = "put" /\ sets' = r.seen
             /\ proc' = [proc EXCEPT ![p] = IF Head(r.script) \in {"plan", "planAll"} THEN [r EXCEPT !.pc = "sets"] ELSE Finished(p)]
       /\ UNCHANGED <<site, was, idx, hashes, nextId, dryRun, reader, got, snap, odds>>

-----------------------------------------------------------------------------
\* dry_run_import_plan: the sets are loaded, then the files with their
\* hashes, of one source or of all, and files of one size and full hash
\* become one payload.
Scope(p) == DOMAIN idx \cap (IF Head(proc[p].script) = "planAll" THEN Files ELSE Own(p))
Plannable(p) == {f \in Scope(p) \cap DOMAIN hashes : ~idx[f].changed /\ hashes[f].status = "full"}
Together(p, f) == {g \in Plannable(p) : hashes[g].full = hashes[f].full /\ SizeAt(g, idx[g].stamp) = SizeAt(f, idx[f].stamp)}

Entry(p, f) ==
    LET group == IF f \in Plannable(p) THEN Together(p, f) ELSE {}
        first == InOrder(group)[1]
    IN IF Cardinality(group) < 2 THEN [file |-> f, stamp |-> idx[f].stamp, canonical |-> f, at |-> idx[f].stamp]
       ELSE [file |-> f, stamp |-> idx[f].stamp, canonical |-> first, at |-> idx[first].stamp]

LoadSets(p) ==
    /\ proc[p].pc = "sets"
    /\ proc' = [proc EXCEPT ![p].pc = "plan", ![p].seen = sets]
    /\ UNCHANGED <<site, was, idx, hashes, sets, nextId, dryRun, reader, got, snap, odds>>

\* A group without its set ends the command and leaves the plan running.
PlanEntries(p) ==
    LET grouped == {f \in Plannable(p) : Cardinality(Together(p, f)) > 1}
    IN /\ proc[p].pc = "plan"
       /\ dryRun' = [status |-> "running", entries |-> {}]
       /\ proc' = [proc EXCEPT ![p] = IF \E f \in grouped : hashes[f].full \notin proc[p].seen
                                      THEN [proc[p] EXCEPT !.pc = "failed"]
                                      ELSE [proc[p] EXCEPT !.pc = "entries", !.seen = {Entry(p, f) : f \in Scope(p)}]]
       /\ UNCHANGED <<site, was, idx, hashes, sets, nextId, reader, got, snap, odds>>

CompletePlan(p) ==
    /\ proc[p].pc = "entries"
    /\ dryRun' = [status |-> "completed", entries |-> proc[p].seen]
    /\ proc' = [proc EXCEPT ![p] = Finished(p)]
    /\ UNCHANGED <<site, was, idx, hashes, sets, nextId, reader, got, snap, odds>>

-----------------------------------------------------------------------------
\* clean_source: rows of files that are gone are deleted, their hashes and
\* entries with them, and the sets rebuilt; the COMMIT of the rebuild ends
\* the transaction.  A DELETE replayed after a lost connection is outside it.
Cleaned(stale) ==
    /\ idx' = [f \in DOMAIN idx \ stale |-> idx[f]]
    /\ hashes' = [f \in DOMAIN hashes \ stale |-> hashes[f]]
    /\ dryRun' = [dryRun EXCEPT !.entries = {e \in @ : e.file \notin stale /\ e.canonical \notin stale}]

CleanWalks(p) ==
    LET stale == {f \in DOMAIN proc[p].rows : Gone(f)}
    IN /\ proc[p].pc = "clean"
       /\ proc' = [proc EXCEPT ![p] = IF stale = {} THEN Finished(p) ELSE [proc[p] EXCEPT !.pc = "delete", !.seen = stale]]
       /\ UNCHANGED <<site, was, idx, hashes, sets, nextId, dryRun, reader, got, snap, odds>>

CleanDeletes(p, ending) ==
    LET stale == proc[p].seen
    IN /\ proc[p].pc = "delete"
       /\ Cleaned(stale)
       /\ IF ending = "ok"
          THEN sets' = Duplicated([f \in DOMAIN hashes \ stale |-> hashes[f]]) /\ proc' = [proc EXCEPT ![p] = Finished(p)]
          ELSE UNCHANGED sets /\ proc' = [proc EXCEPT ![p].pc = "drop"]
       /\ Spent(ending)
       /\ UNCHANGED <<site, was, nextId, reader, got, snap>>

-----------------------------------------------------------------------------
\* read_file: the record is loaded, the file's metadata and hash compared
\* with it, the range read, and the metadata compared again.
ReaderRests == AtRest(Tail(reader.script))

ReadLoads(f) ==
    LET record == [file |-> f, row |-> idx[f], hash |-> IF f \in DOMAIN hashes THEN {hashes[f]} ELSE {}]
        usable == ~record.row.changed /\ \A h \in record.hash : h.status # "retry"
    IN /\ reader.pc = "idle" /\ reader.script # <<>> /\ Head(reader.script) = "read"
       /\ f \in DOMAIN idx
       /\ reader' = IF usable THEN [reader EXCEPT !.pc = "check", !.seen = {record}] ELSE ReaderRests
       /\ UNCHANGED <<site, was, idx, hashes, sets, nextId, dryRun, proc, got, snap, odds>>

Record == CHOOSE r \in reader.seen : TRUE

\* validate_snapshot, and the full hash, or the sampled one, of the record.
Validates(r) ==
    /\ Stamp(r.file) = r.row.stamp
    /\ \A h \in r.hash : h.stamp = Stamp(r.file) /\ (h.status = "full" => h.full = Now(r.file))

ReadChecks ==
    /\ reader.pc = "check"
    /\ reader' = IF ~Gone(Record.file) /\ Validates(Record) THEN [reader EXCEPT !.pc = "bytes", !.before = Stamp(Record.file)] ELSE ReaderRests
    /\ UNCHANGED <<site, was, idx, hashes, sets, nextId, dryRun, proc, got, snap, odds>>

ReadBytes ==
    /\ reader.pc = "bytes"
    /\ reader' = [reader EXCEPT !.pc = "after", !.rows = <<Now(Record.file)>>]
    /\ UNCHANGED <<site, was, idx, hashes, sets, nextId, dryRun, proc, got, snap, odds>>

ReadAfter ==
    /\ reader.pc = "after"
    /\ got' = IF Stamp(Record.file) = reader.before
              THEN got \cup {[file |-> Record.file, stamp |-> Record.row.stamp, data |-> reader.rows[1]]} ELSE got
    /\ reader' = ReaderRests
    /\ UNCHANGED <<site, was, idx, hashes, sets, nextId, dryRun, proc, snap, odds>>

-----------------------------------------------------------------------------
\* create_catalog_snapshot: one statement stores the header and copies the
\* rows; its request token makes a replay find the header, and the replay
\* copies rows that are missing up to the largest id of the header.
Rows == {[file |-> f, id |-> idx[f].id, stamp |-> idx[f].stamp] : f \in DOMAIN idx}

\* Mutant: a replay copies whatever is not copied yet.
MissingAny == {r \in Rows : \A s \in snap.rows : s.id # r.id}

\* The ids that scans have taken and not committed yet.
Uncommitted == UNION {{proc[p].rows[f].id : f \in DOMAIN proc[p].rows} : p \in {q \in Indexers : proc[q].pc = "commit"}}

Missing == {r \in Rows : r.id <= snap.max /\ \A s \in snap.rows : s.id # r.id}

create_catalog_snapshot(ending) ==
    /\ reader.pc = "idle" /\ reader.script # <<>> /\ Head(reader.script) = "snapshot"
    /\ snap' = IF ending = "unapplied" THEN snap
               ELSE IF snap.status = "none"
               THEN [count |-> Cardinality(Rows), max |-> Max({r.id : r \in Rows} \cup {0}), rows |-> Rows, taken |-> Rows,
                     inflight |-> Uncommitted, status |-> "complete"]
               ELSE [snap EXCEPT !.rows = @ \cup Missing]
    /\ reader' = IF ending = "ok" \/ reader.retried THEN ReaderRests ELSE [reader EXCEPT !.retried = TRUE]
    /\ Spent(ending)
    /\ UNCHANGED <<site, was, idx, hashes, sets, nextId, dryRun, proc, got>>

\* The rows of a snapshot go with its header (ON DELETE CASCADE).
delete_catalog_snapshot ==
    /\ reader.pc = "idle" /\ reader.script # <<>> /\ Head(reader.script) = "delete"
    /\ snap' = NoSnapshot
    /\ reader' = ReaderRests
    /\ UNCHANGED <<site, was, idx, hashes, sets, nextId, dryRun, proc, got, odds>>

IndexNext ==
    \/ \E f \in Files : \E v \in site.edits[f] : Edit(f, v)
    \/ \E p \in Indexers :
        \/ Start(p) \/ Walk(p) \/ upsert_index_files_staged(p)
        \/ load_global_candidate_sizes(p) \/ HashBefore(p) \/ HashBytes(p) \/ HashAfter(p) \/ HashPassEnds(p)
        \/ rebuild_duplicate_sets(p)
        \/ LoadSets(p) \/ PlanEntries(p) \/ CompletePlan(p)
        \/ CleanWalks(p)
        \/ \E ending \in Endings :
            CommitFiles(p, ending) \/ upsert_index_file_hashes_staged(p, ending) \/ CleanDeletes(p, ending)
    \/ \E f \in Files : ReadLoads(f)
    \/ ReadChecks \/ ReadBytes \/ ReadAfter
    \/ \E ending \in Endings : create_catalog_snapshot(ending)
    \/ delete_catalog_snapshot

-----------------------------------------------------------------------------
\* A full hash in the catalogue is the hash of what the file held when it had
\* the metadata recorded with it, however often it was edited meanwhile.
HashesTrue == \A f \in DOMAIN hashes : hashes[f].status = "full" => hashes[f].full = was[f][hashes[f].stamp]

\* A read that succeeds returns bytes of the file as it was indexed.
ReadsAsIndexed == \A r \in got : r.data = was[r.file][r.stamp]

\* A completed plan refers a file to a canonical one only if both held the
\* same bytes when they were indexed.
PlanAliasesEqual ==
    dryRun.status = "completed" => \A e \in dryRun.entries : was[e.file][e.stamp] = was[e.canonical][e.at]

\* Once the commands of an indexer that works alone have succeeded, the stored
\* duplicate sets are those of the stored hashes.
SetsCurrent ==
    (site.alone /\ \A p \in Indexers : proc[p].pc = "idle") => sets = Duplicated(hashes)

\* No row of a stored snapshot is lost or changed by a later command; while
\* indexers do not overlap none is added, and when they do a replay adds no
\* row but one whose id a scan had taken, and not committed, at the header.
SnapshotKept ==
    /\ snap.taken \subseteq snap.rows
    /\ Cardinality(snap.taken) = snap.count
    /\ \A r \in snap.rows \ snap.taken : ~site.alone /\ r.id \in snap.inflight
=============================================================================
