------------------------------ MODULE MCDatabase ------------------------------
(***************************************************************************)
(* What mounts, the indexer and mkfs do to the shared database: the        *)
(* directory tree, whole-file leases, the data objects, imports and the    *)
(* catalogue of the indexer, and mkfs against mounts being admitted.  As   *)
(* in MCComponents, part names the one that moves; the tree and the leases *)
(* rest in a state they start from while another one does, and the others  *)
(* stay off.                                                               *)
(***************************************************************************)
EXTENDS DirectoryTree, FlockLeases, Sequences

VARIABLES part,
    store, fileRows, objectRows, txn, truth, reserved, refused, objectFaults,
    import, source, planRow, planLock, dirs, made, aliases, importer, cleaning, mishaps,
    site, was, idx, hashes, sets, nextId, dryRun, proc, reader, got, snap, odds,
    adm, schema, standby, tool, mount, clients, touched, trouble

-----------------------------------------------------------------------------
LeaseOwners == 1..3

\* Directories 1 and 2; two mounts create under the same names while answers are lost;
\* rmdir and rename against creation; the names of one symlink.
Dir(id, parent, name) == Entry("dir", id, id, parent, name)
On(what, dir, name) == [op |-> what, dir |-> dir, name |-> name]
To(what, dir, name, newdir, newname) ==
    [op |-> what, dir |-> dir, name |-> name, newdir |-> newdir, newname |-> newname]
SameNames ==
    [rows |-> {Dir(1, 0, "d")}, faults |-> 2,
     calls |-> [m1 |-> {On("mkdir", 0, "x"), On("mknod", 1, "x")},
                m2 |-> {On("mkdir", 0, "x"), On("symlink", 0, "x"), On("mknod", 1, "x")}]]
TreeSetups ==
    {SameNames,
     [rows |-> {Dir(1, 0, "d"), Dir(2, 0, "e"), Entry("hidden", 3, 3, 1, "h"), Entry("file", 4, 4, 1, "f")},
      faults |-> 0,
      calls |-> [m1 |-> {On("rmdir", 0, "d"), On("rmdir", 1, "x"), To("rename", 0, "e", 0, "d")},
                 m2 |-> {On("mkdir", 1, "x"), On("unlink", 1, "f"), On("mknod", 1, "f"), On("rmdir", 0, "e"),
                         To("rename", 0, "d", 2, "x")}]],
     [rows |-> {Dir(1, 0, "d"), Entry("symlink", 2, 2, 0, "s"), Entry("symlink", 3, 3, 0, "t"),
                Entry("alias", 4, 2, 1, "a")},
      faults |-> 1,
      calls |-> [m1 |-> {On("unlink", 0, "s"), To("link", 0, "s", 1, "b"), To("rename", 0, "t", 0, "s"),
                         To("noreplace", 0, "t", 1, "b")},
                 m2 |-> {On("unlink", 1, "a"), To("link", 1, "a", 0, "s"), To("rename", 0, "s", 1, "b")}]]}

\* Three clients, files of at most two blocks: files that share an object and one that
\* is empty, or files that come to share one; quotas that two writers cannot both fill.
FileRow(o, size) == [obj |-> o, size |-> size]
TwoBlocks(v, w) == [b \in {0, 1} |-> IF b = 0 THEN v ELSE w]
ObjectRow(refs, v) == [refs |-> refs, data |-> TwoBlocks(v, v)]
Persist(kind, f, n, v, size) ==
    [op |-> kind, file |-> f, data |-> [b \in 0..n - 1 |-> v], size |-> size, truncates |-> FALSE]
Cut(f) == [Persist("persist", f, 0, 0, 1) EXCEPT !.truncates = TRUE]
Punch(f) == [op |-> "punch", file |-> f, data |-> [b \in {1} |-> 0]]
Adopt(src, dst) == [op |-> "adopt", src |-> src, dst |-> dst]
Purge(f) == [op |-> "purge", file |-> f]
Cleanup(fs) == [op |-> "cleanup", files |-> fs]
Shared == [files |-> <<FileRow(1, 2), FileRow(1, 2), FileRow(2, 0)>>,
           objects |-> <<ObjectRow(2, 1), ObjectRow(1, 0)>>,
           quota |-> 9, deferred |-> FALSE, expires |-> FALSE, faults |-> 0]
Sole == [Shared EXCEPT !.files = <<FileRow(1, 2), FileRow(2, 0), FileRow(3, 0)>>,
                       !.objects = <<ObjectRow(1, 1), ObjectRow(1, 0), ObjectRow(1, 0)>>]
Clients(base, a, b, c) ==
    [files |-> base.files, objects |-> base.objects, quota |-> base.quota, deferred |-> base.deferred,
     expires |-> base.expires, faults |-> base.faults, calls |-> [a |-> a, b |-> b, c |-> c]]
ObjectSetups ==
    {Clients(Shared, {Persist("persist", 1, 1, 2, 2)}, {Persist("persist", 2, 2, 3, 2), Cut(2)}, {Adopt(1, 3)}),
     Clients(Shared, {Persist("persist", 1, 2, 2, 2)}, {Purge(2)}, {Adopt(1, 3), Persist("persist", 3, 1, 2, 2)}),
     Clients(Sole, {Persist("import", 1, 2, 2, 2)}, {Adopt(1, 2)}, {Purge(1)}),
     Clients(Sole, {Adopt(1, 2), Cut(1)}, {Adopt(2, 1)}, {Persist("persist", 1, 2, 2, 2)}),
     Clients([Shared EXCEPT !.quota = 3], {Persist("persist", 1, 1, 2, 2)}, {Persist("persist", 2, 1, 3, 2)}, {}),
     Clients(Shared, {Cleanup({1, 3})}, {Persist("persist", 2, 1, 3, 2)},
             {Adopt(2, 3), Persist("import", 1, 2, 2, 2)}),
     Clients(Shared, {Cleanup({1, 3})}, {Purge(2)}, {Adopt(2, 3), Purge(1)})}
    \cup {Clients([Sole EXCEPT !.deferred = x, !.faults = 1],
                  {Punch(1), Persist("persist", 1, 2, 2, 2)}, {Adopt(1, 2)}, {Adopt(2, 3)}) : x \in BOOLEAN}
    \cup {Clients([Shared EXCEPT !.quota = 5, !.expires = x], {Persist("copy", 3, 2, 2, 2)},
                  {Persist("persist", 1, 1, 3, 2)}, {Persist("copy", 2, 1, 2, 2)}) : x \in BOOLEAN}

\* Two source files, one at the root of the import and one in a directory, alike when
\* they were indexed or not, edited while they are imported.
Imported(v, w, edits) ==
    [data |-> [a |-> v, b |-> w], edits |-> edits, persistent |-> FALSE,
     mishaps |-> [edits |-> 1, links |-> 1, faults |-> 1, crashes |-> 1, cleanups |-> 2]]
ImportSetups == {Imported("x", "x", {"y", "empty"}), Imported("x", "y", {"x", "y"})}

\* Two files with the same bytes and contents that share a size and samples, or differ;
\* one indexer over both, with a reader or a snapshot beside it, before or after the second
\* file appears, or one indexer for each.
IndexBase == [data |-> [f |-> "x", g |-> "x"], edits |-> [f |-> {"y", "gone"}, g |-> {"z"}],
              sources |-> [a |-> {"f", "g"}, b |-> {}], scripts |-> [a |-> <<"scan", "hash", "plan">>, b |-> <<>>],
              reads |-> <<"read">>, alone |-> TRUE, odds |-> [edits |-> 2, faults |-> 0]]
Apart == [IndexBase EXCEPT !.sources = [a |-> {"f"}, b |-> {"g"}], !.alone = FALSE, !.odds.edits = 1]
IndexSetups ==
    {IndexBase,
     [IndexBase EXCEPT !.scripts.a = <<"scan", "hash", "scan", "hash", "clean", "plan">>, !.reads = <<>>,
                       !.data.g = "y", !.edits.g = {"x"}],
     [IndexBase EXCEPT !.scripts.a = <<"scan", "hash", "clean">>, !.reads = <<"snapshot", "delete">>,
                       !.odds = [edits |-> 1, faults |-> 2]],
     [IndexBase EXCEPT !.scripts.a = <<"scan", "scan", "clean">>, !.reads = <<"snapshot">>, !.data.g = "gone",
                       !.edits = [f |-> {"gone"}, g |-> {"x"}], !.odds.faults = 2],
     [IndexBase EXCEPT !.scripts.a = <<"scan", "candidates", "plan">>, !.reads = <<>>, !.edits.f = {"y", "z"}],
     [Apart EXCEPT !.scripts = [a |-> <<"scan", "candidates">>, b |-> <<"scan", "hash", "candidates", "planAll">>]],
     [Apart EXCEPT !.scripts = [a |-> <<"scan">>, b |-> <<"scan">>], !.reads = <<"snapshot">>,
                   !.odds = [edits |-> 0, faults |-> 1]]}

\* mkfs of a new release, interrupted or not, against mounts of both releases; beside a
\* second upgrade, an init, a clean; with a standby that replays late or alone is reachable.
Mkfs(action, ver) == [action |-> action, ver |-> ver, password |-> "pw"]
Mnt(ver, role, degraded) == [ver |-> ver, role |-> role, degraded |-> degraded]
Troubles(deaths, lost, pauses, outages) ==
    [deaths |-> deaths, lost |-> lost, pauses |-> pauses, outages |-> outages, reachable |-> TRUE]
AdmBase == [replica |-> FALSE, from |-> 1, needs |-> <<1, 3>>, once |-> {3}, lease |-> 3,
            tools |-> [a |-> Mkfs("upgrade", 2)],
            mounts |-> [x |-> Mnt(1, "primary", FALSE)], trouble |-> Troubles(1, 1, 0, 0)]
BothReleases == [x |-> Mnt(1, "primary", FALSE), y |-> Mnt(2, "primary", FALSE)]
AdmSetups ==
    {[AdmBase EXCEPT !.tools = [a |-> Mkfs("upgrade", 2), b |-> Mkfs("upgrade", 1)],
                     !.trouble = Troubles(1, 1, 1, 0)],
     [AdmBase EXCEPT !.mounts = BothReleases],
     [AdmBase EXCEPT !.from = 0, !.tools = [a |-> Mkfs("upgrade", 2), b |-> Mkfs("init", 1)],
                     !.mounts = BothReleases, !.trouble = Troubles(0, 1, 0, 0)],
     [AdmBase EXCEPT !.tools = [a |-> Mkfs("clean", 1), b |-> Mkfs("init", 1)]],
     [AdmBase EXCEPT !.replica = TRUE, !.trouble = Troubles(1, 0, 0, 2),
                     !.mounts = [x |-> Mnt(1, "replica", FALSE), y |-> Mnt(2, "replica", FALSE),
                                 z |-> Mnt(1, "auto", TRUE)]],
     [AdmBase EXCEPT !.replica = TRUE, !.trouble = Troubles(1, 1, 0, 2),
                     !.mounts = [x |-> Mnt(1, "auto", FALSE)]]}

objectVars == <<store, fileRows, objectRows, txn, truth, reserved, refused, objectFaults>>
importVars == <<import, source, planRow, planLock, dirs, made, aliases, importer, cleaning, mishaps>>
indexVars == <<site, was, idx, hashes, sets, nextId, dryRun, proc, reader, got, snap, odds>>
admVars == <<adm, schema, standby, tool, mount, clients, touched, trouble>>
vars == <<part, treeVars, flockVars, objectVars, importVars, indexVars, admVars>>

OB == INSTANCE DataObjects WITH Stores <- ObjectSetups, Workers <- {"a", "b", "c"}, FileBlocks <- 2, MaxObject <- 7
MT == INSTANCE Materialization WITH Imports <- ImportSetups, Order <- <<"a", "b">>,
    Under <- [a |-> ".", b |-> "d"], Operators <- {"o"}
IC == INSTANCE IndexCatalog WITH Sites <- IndexSetups, Indexers <- {"a", "b"}, PathOrder <- <<"f", "g">>,
    SizeOf <- [x |-> 1, y |-> 1, z |-> 2, gone |-> 0], SampleOf <- [x |-> "s", y |-> "s", z |-> "t"]
SA == INSTANCE SchemaAdmission

\* What the proofs assume of the constants of a part holds of the ones it is given here.
ASSUME ConstantsOK == TreeConstants /\ FlockConstants

-----------------------------------------------------------------------------
TreeRests == TreeInit /\ tree = SameNames
ObjectOff ==
    /\ store = "off" /\ fileRows = "off" /\ objectRows = "off" /\ txn = "off" /\ truth = "off"
    /\ reserved = "off" /\ refused = "off" /\ objectFaults = "off"
ImportOff ==
    /\ import = "off" /\ source = "off" /\ planRow = "off" /\ planLock = "off" /\ dirs = "off"
    /\ made = "off" /\ aliases = "off" /\ importer = "off" /\ cleaning = "off" /\ mishaps = "off"
IndexOff ==
    /\ site = "off" /\ was = "off" /\ idx = "off" /\ hashes = "off" /\ sets = "off"
    /\ nextId = "off" /\ dryRun = "off" /\ proc = "off" /\ reader = "off" /\ got = "off"
    /\ snap = "off" /\ odds = "off"
AdmOff ==
    /\ adm = "off" /\ schema = "off" /\ standby = "off" /\ tool = "off" /\ mount = "off"
    /\ clients = "off" /\ touched = "off" /\ trouble = "off"

Init ==
    \/ part = "tree" /\ TreeInit /\ FlockInit /\ ObjectOff /\ ImportOff /\ IndexOff /\ AdmOff
    \/ part = "flock" /\ FlockInit /\ TreeRests /\ ObjectOff /\ ImportOff /\ IndexOff /\ AdmOff
    \/ part = "objects" /\ OB!ObjectInit /\ TreeRests /\ FlockInit /\ ImportOff /\ IndexOff /\ AdmOff
    \/ part = "import" /\ MT!ImportInit /\ TreeRests /\ FlockInit /\ ObjectOff /\ IndexOff /\ AdmOff
    \/ part = "index" /\ IC!IndexInit /\ TreeRests /\ FlockInit /\ ObjectOff /\ ImportOff /\ AdmOff
    \/ part = "admission" /\ SA!Init(AdmSetups) /\ TreeRests /\ FlockInit /\ ObjectOff /\ ImportOff /\ IndexOff

Next ==
    \/ part = "tree" /\ TreeNext /\ UNCHANGED <<part, flockVars, objectVars, importVars, indexVars, admVars>>
    \/ part = "flock" /\ FlockNext /\ UNCHANGED <<part, treeVars, objectVars, importVars, indexVars, admVars>>
    \/ part = "objects" /\ OB!ObjectNext /\ UNCHANGED <<part, treeVars, flockVars, importVars, indexVars, admVars>>
    \/ part = "import" /\ MT!ImportNext /\ UNCHANGED <<part, treeVars, flockVars, objectVars, indexVars, admVars>>
    \/ part = "index" /\ IC!IndexNext /\ UNCHANGED <<part, treeVars, flockVars, objectVars, importVars, admVars>>
    \/ part = "admission" /\ SA!Next /\ UNCHANGED <<part, treeVars, flockVars, objectVars, importVars, indexVars>>

Spec == Init /\ [][Next]_vars

-----------------------------------------------------------------------------
(* The properties of DirectoryTree and FlockLeases are checked as they stand there; these  *)
(* are the ones of the parts that may be off.                                              *)

\* Every variable of a component has its type.
TypeOK ==
    /\ TreeTypeOK /\ FlockTypeOK
    /\ (part = "objects" => OB!ObjectTypeOK)
    /\ (part = "import" => MT!ImportTypeOK)
    /\ (part = "index" => IC!IndexTypeOK)
    /\ (part = "admission" => SA!AdmissionTypeOK)

\* Copy-on-write isolates files: every file shows what the committed calls on it made
\* of it, whoever shares its object, reads a stale counter or replays
\* (data_object_write_target_on_conn, adopt_source_data_object_optional_fence).
CopyOnWrite == part = "objects" => OB!CopyOnWrite

\* The counter of an object is the number of files that use it, although each
\* transaction decides by a counter it read before it had the row.
RefsExact == part = "objects" => OB!RefsExact

\* Block rows never exceed the quota, with writers that check after they wrote
\* (enforce_payload_quota_on_conn); a copy that reserved its space is not refused while its
\* reservation lives and no other copy is stored with its reservation not yet released,
\* which counts twice; and transactions wait in a circle only when one of them is a copy
\* with a reservation, which takes the quota lock before its rows while others take it after.
QuotaKept == part = "objects" => OB!QuotaKept /\ OB!ReservationKept /\ OB!CirclesOfCopies
\* The recorded state of a plan is true: cleaned, it owns nothing, and no importer whose
\* lease ran out adds a file afterwards (validate_materialization_fence_on_conn); completed,
\* it has every file with the bytes that were validated, although the sources change between
\* validation and import (materialize_source), but for a duplicate whose source is empty by
\* then, which is created empty (materialize_reference_file); and a hard link made from outside survives
\* every cleanup (reject_cleanup_with_external_hardlink).
PlanTruthful ==
    part = "import" => MT!CleanedIsEmpty /\ MT!CompletedIsWhole /\ MT!AliasesKept

\* The catalogue tells the truth about the files: a full hash is that of what the file held
\* when it had the metadata recorded with it, however often it is edited while hash_source
\* reads it; a read that succeeds returns bytes of the file as it was indexed (read_file);
\* and after the commands of an indexer that works alone the stored duplicate sets are those
\* of the stored hashes (rebuild_duplicate_sets).
CatalogueTrue == part = "index" => IC!HashesTrue /\ IC!ReadsAsIndexed /\ IC!SetsCurrent

\* A completed dry run refers a file to a canonical one only if both held the same bytes
\* when they were indexed (dry_run_import_plan), with a hash after every scan.
PlanAliasesEqual == part = "index" => IC!PlanAliasesEqual

\* A stored snapshot stays the catalogue as it was when its header was written: no later scan
\* or clean changes it, and a replay adds nothing to it, but for rows of scans by several
\* indexers that had their ids and were not committed at the header (create_catalog_snapshot).
SnapshotKept == part = "index" => IC!SnapshotKept

\* A mount that was admitted, and renews its session in time, reads a schema its release was
\* made for, that no newer mkfs has changed, and that no migration is changing: a stale
\* startup snapshot, a late replay of the standby, a lost COMMIT or an interrupted upgrade
\* admit nobody else (register_client_session, begin_schema_upgrade).  And where the recorded
\* number is not what the schema holds the marker says so, also after an upgrade that died.
AdmissionSafe == part = "admission" => SA!AdmittedFits /\ SA!MarkerTells
=============================================================================
