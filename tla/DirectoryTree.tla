---------------------------- MODULE DirectoryTree -----------------------------
(***************************************************************************)
(* Directories, symbolic links and special files as rows of PostgreSQL,    *)
(* changed by several mounts at once.  A call resolves names first, in     *)
(* statements of their own; its transaction then takes the advisory keys   *)
(* of the names, looks again, and changes rows.  A step of the model is    *)
(* what happens between two points where another transaction matters: the  *)
(* checks, the row locks that wait, the change with its COMMIT.            *)
(* Permissions are left out, and so are row locks that only delay others   *)
(* (FOR NO KEY UPDATE on parents): the model interleaves more freely.      *)
(***************************************************************************)
EXTENDS Integers, FiniteSets

CONSTANTS
    Trees,   \* what a behaviour starts from: rows, the calls of each mount, faults
    MaxSeed  \* inode seeds to hand out

VARIABLES
    tree,       \* the chosen start
    rows,       \* directories, files, symlinks, symlink_hardlinks
    treeCall,   \* the call each mount is in
    seeds,      \* seeds handed out: new_inode_seed
    answers,    \* history: what the creating call with a seed did and was told
    names,      \* history: the names POSIX says there are, with their inodes
    treeFaults  \* connections still to break around COMMIT

treeVars == <<tree, rows, treeCall, seeds, answers, names, treeFaults>>

-----------------------------------------------------------------------------
TreeMounts == DOMAIN tree.calls
Root == 0

\* A row; "hidden" is a file that was unlinked while open, and the inode of an alias
\* (symlink_hardlinks) is that of its symlink.
Entry(kind, id, of, parent, name) == [kind |-> kind, id |-> id, of |-> of, parent |-> parent, name |-> name]
NoEntry == Entry("none", 0, 0, 0, "none")
Visible == {r \in rows : r.kind # "hidden"}
At(parent, name) == {r \in Visible : r.parent = parent /\ r.name = name}
Children(d) == {r \in Visible : r.parent = d}
Referencing(d) == {r \in rows : r.parent = d}
DirExists(d) == d = Root \/ \E r \in rows : r.kind = "dir" /\ r.id = d
Name(r) == <<r.parent, r.name, r.of>>

Idle == [pc |-> "idle", op |-> "none", src |-> NoEntry, tgt |-> NoEntry, dir |-> 0, name |-> "none",
         id |-> 0, keys |-> {}, share |-> {}, lock |-> {}, detached |-> {}, lost |-> FALSE]

\* What a start may be: rows as the tables can hold them, numbered below the new ones,
\* each name once; a call names a place in some directory.
EntryKinds == {"dir", "file", "hidden", "symlink", "alias"}
NewPlace(c) == IF c.op \in {"link", "rename", "noreplace"} THEN <<c.newdir, c.newname>> ELSE <<c.dir, c.name>>
Names ==
    {"none"} \cup UNION {{r.name : r \in t.rows}
                            \cup {NewPlace(c)[2] : c \in UNION {t.calls[m] : m \in DOMAIN t.calls}} : t \in Trees}
Entries == [kind : EntryKinds, id : Nat \ {0}, of : Nat \ {0}, parent : Nat, name : Names]
TreeConstants ==
    /\ MaxSeed \in Nat
    /\ \A t \in Trees :
          /\ t.faults \in Nat /\ t.rows \subseteq Entries
          /\ \A r \in t.rows : r.id <= 100 /\ (r.kind = "symlink" => r.of = r.id)
          /\ \A r, q \in {x \in t.rows : x.kind # "hidden"} :
                \/ r.parent = q.parent /\ r.name = q.name
                \/ r.kind = "alias" /\ q.kind = "alias" /\ r.id = q.id
                => r = q
          /\ \A m \in DOMAIN t.calls : \A c \in t.calls[m] : NewPlace(c)[1] \in Nat

TreeTypeOK ==
    /\ tree \in Trees
    /\ \A r \in rows : r.kind \in EntryKinds
    /\ \A m \in TreeMounts : treeCall[m].pc \in {"idle", "resolved", "checked", "locked"}
    /\ seeds \in 0..MaxSeed
    /\ \A s \in 1..MaxSeed : answers[s].made \in 0..2 /\ answers[s].told \in {"none", "ok", "exists", "missing", "error"}
    /\ treeFaults \in 0..tree.faults

TreeInit ==
    /\ tree \in Trees
    /\ rows = tree.rows
    /\ treeCall = [m \in TreeMounts |-> Idle]
    /\ seeds = 0
    /\ answers = [s \in 1..MaxSeed |-> [made |-> 0, told |-> "none"]]
    /\ names = {Name(r) : r \in {x \in tree.rows : x.kind # "hidden"}}
    /\ treeFaults = tree.faults

\* New rows are numbered apart from the rows of the start.
NewId(s) == 100 + s

-----------------------------------------------------------------------------
\* Locks.  Advisory keys and row locks belong to the transaction and end with it.

Key(parent, name) == <<parent, name>>
KeysFree(m, keys) == \A o \in TreeMounts \ {m} : treeCall[o].keys \cap keys = {}
Unlocked(m, d) == \A o \in TreeMounts \ {m} : d \notin treeCall[o].lock
Unshared(m, d) == \A o \in TreeMounts \ {m} : d \notin treeCall[o].share

Step(m, next) ==
    /\ treeCall' = [treeCall EXCEPT ![m] = next]
    /\ UNCHANGED <<tree, rows, seeds, answers, names, treeFaults>>

\* The call ends with an answer; a creating call also notes what it was told.
Reply(m, answer) ==
    /\ treeCall' = [treeCall EXCEPT ![m] = Idle]
    /\ answers' = IF treeCall[m].op \in {"mkdir", "symlink", "mknod"}
                  THEN [answers EXCEPT ![treeCall[m].id].told = answer] ELSE answers

Refuse(m, answer) == Reply(m, answer) /\ UNCHANGED <<tree, rows, seeds, names, treeFaults>>

-----------------------------------------------------------------------------
\* The FUSE callbacks up to the transaction.  A name that is not there, or has a kind
\* the call does not take, ends the call with nothing changed.

Asked(m, op) == {c \in tree.calls[m] : treeCall[m].pc = "idle" /\ c.op = op}

\* mkdir, symlink, mknod and link know the parent by its inode; they bring a new seed.
Opening(m, c) ==
    /\ seeds < MaxSeed
    /\ treeCall' = [treeCall EXCEPT ![m] = [c EXCEPT !.pc = "resolved", !.id = seeds + 1]]
    /\ seeds' = seeds + 1
    /\ UNCHANGED <<tree, rows, answers, names, treeFaults>>
NewEntry(m, op) ==
    \E c \in Asked(m, op) : Opening(m, [Idle EXCEPT !.op = op, !.dir = c.dir, !.name = c.name])

mkdir(m) == NewEntry(m, "mkdir")
symlink(m) == NewEntry(m, "symlink")
mknod(m) == NewEntry(m, "mknod")

\* link resolves its source, a symlink or one of its aliases, to row and inode.
link(m) ==
    \E c \in Asked(m, "link") : \E r \in At(c.dir, c.name) :
       /\ r.kind \in {"symlink", "alias"}
       /\ Opening(m, [Idle EXCEPT !.op = "link", !.src = r, !.dir = c.newdir, !.name = c.newname])

Named(m, op, kinds) ==
    \E c \in Asked(m, op) : \E r \in At(c.dir, c.name) :
       /\ r.kind \in kinds
       /\ Step(m, [Idle EXCEPT !.pc = "resolved", !.op = op, !.src = r])

rmdir(m) == Named(m, "rmdir", {"dir"})
unlink(m) == Named(m, "unlink", {"symlink", "alias", "file"})

\* The directories at and below d.
Subtree(d) ==
    LET dirs == {r \in rows : r.kind = "dir"}
        Within[n \in Nat] == IF n = 0 THEN {d}
                             ELSE Within[n - 1] \cup {r.id : r \in {x \in dirs : x.parent \in Within[n - 1]}}
    IN  Within[Cardinality(dirs)]

\* rename refuses to put a directory below itself, by the paths the mount knows, and
\* notes the entry it is to replace; with RENAME_NOREPLACE ("noreplace") there is none.
ExpectedTarget(c, r) ==
    LET found == At(c.newdir, c.newname)
    IN  IF found = {} \/ c.op = "noreplace" THEN {NoEntry}
        ELSE {t \in found : t.kind = IF r.kind = "dir" THEN "dir" ELSE "symlink"}

rename(m) ==
    \E c \in Asked(m, "rename") \cup Asked(m, "noreplace") : \E r \in At(c.dir, c.name) :
       /\ r.kind \in {"dir", "symlink", "file"}
       /\ r.kind = "dir" => c.newdir \notin Subtree(r.id)
       /\ \E t \in ExpectedTarget(c, r) :
             Step(m, [Idle EXCEPT !.pc = "resolved", !.op = c.op, !.src = r, !.tgt = t,
                                  !.dir = c.newdir, !.name = c.newname])

-----------------------------------------------------------------------------
\* Creating: create_directory, create_symlink, create_special_file, and the alias that
\* link makes of a symlink.

Kind(op) == CASE op = "mkdir" -> "dir" [] op = "symlink" -> "symlink" [] op = "mknod" -> "file" [] op = "link" -> "alias"

\* confirm_created_*: after a conflict the call takes the entry for its own when it has
\* its own seed; an alias has none and is told by its inode.
ConfirmedByKind(c) == {r \in At(c.dir, c.name) : r.kind = Kind(c.op)}
Confirmed(c) ==
    {r \in At(c.dir, c.name) : r.kind = Kind(c.op) /\ IF c.op = "link" THEN r.of = c.src.of ELSE r.id = NewId(c.id)}

\* require_namespace_vacant: KEY SHARE on the parent waits for a transaction that has it
\* FOR UPDATE; then the parent must be there and the name free among all kinds.
require_namespace_vacant(m, c) ==
    IF ~DirExists(c.dir) THEN Refuse(m, "missing")
    ELSE IF At(c.dir, c.name) # {} THEN Refuse(m, IF Confirmed(c) # {} THEN "ok" ELSE "exists")
    ELSE Step(m, [c EXCEPT !.pc = "checked", !.share = {c.dir}])

CreateBegin(m, op) ==
    LET c == [treeCall[m] EXCEPT !.keys = {Key(treeCall[m].dir, treeCall[m].name)}]
    IN  /\ c.pc = "resolved" /\ c.op = op
        /\ KeysFree(m, c.keys) /\ Unlocked(m, c.dir)
        /\ require_namespace_vacant(m, c)

create_directory_internal(m) == CreateBegin(m, "mkdir")
create_symlink_internal(m) == CreateBegin(m, "symlink")
create_special_file_internal(m) == CreateBegin(m, "mknod")

\* link takes the keys of both names and the row of the symlink, and looks the source
\* up once more.
create_symlink_hardlink_internal(m) ==
    LET c == [treeCall[m] EXCEPT !.keys = {Key(treeCall[m].dir, treeCall[m].name),
                                           Key(treeCall[m].src.parent, treeCall[m].src.name)},
                                 !.lock = {treeCall[m].src.of}]
    IN  /\ c.pc = "resolved" /\ c.op = "link"
        /\ KeysFree(m, c.keys) /\ Unlocked(m, c.src.of) /\ Unlocked(m, c.dir)
        /\ IF c.src \notin rows THEN Refuse(m, "missing") ELSE require_namespace_vacant(m, c)

NewRow(c) == Entry(Kind(c.op), NewId(c.id), IF c.op = "link" THEN c.src.of ELSE NewId(c.id), c.dir, c.name)

\* The INSERT, and what POSIX says it does to the names.
Inserted(c) ==
    /\ rows' = rows \cup {NewRow(c)}
    /\ names' = names \cup {Name(NewRow(c))}

-----------------------------------------------------------------------------
\* Removing.

\* remove_symlink_entry_or_promote: the oldest alias, if any, lends the symlink its name.
Oldest(aliases) == CHOOSE a \in aliases : \A b \in aliases : a.id <= b.id
remove_symlink_entry_or_promote(S, s) ==
    LET aliases == {r \in S : r.kind = "alias" /\ r.of = s.id}
        a == Oldest(aliases)
    IN  IF aliases = {} THEN S \ {s}
        ELSE (S \ {s, a}) \cup {[s EXCEPT !.parent = a.parent, !.name = a.name]}

\* unlink of a symlink: the key of the name, then its row if it still has that name.
unlink_symlink_entry_internal(m) ==
    LET c == [treeCall[m] EXCEPT !.keys = {Key(treeCall[m].src.parent, treeCall[m].src.name)},
                                 !.lock = {treeCall[m].src.of}]
    IN  /\ c.pc = "resolved" /\ c.op = "unlink" /\ c.src.kind = "symlink"
        /\ KeysFree(m, c.keys) /\ Unlocked(m, c.src.of)
        /\ IF c.src \in rows THEN Step(m, [c EXCEPT !.pc = "locked"]) ELSE Refuse(m, "missing")

\* unlink of an alias: the key, a look at the alias, then the row of its symlink, which
\* may take a while, and the alias once more.
unlink_symlink_hardlink_entry(m) ==
    LET c == [treeCall[m] EXCEPT !.keys = {Key(treeCall[m].src.parent, treeCall[m].src.name)}]
    IN  /\ c.pc = "resolved" /\ c.op = "unlink" /\ c.src.kind = "alias"
        /\ KeysFree(m, c.keys)
        /\ IF c.src \in rows THEN Step(m, [c EXCEPT !.pc = "checked"]) ELSE Refuse(m, "missing")
AliasLockBlind(m) ==
    /\ treeCall[m].pc = "checked" /\ treeCall[m].op = "unlink" /\ treeCall[m].src.kind = "alias"
    /\ Unlocked(m, treeCall[m].src.of)
    /\ Step(m, [treeCall[m] EXCEPT !.pc = "locked", !.lock = {treeCall[m].src.of}])
AliasLock(m) ==
    /\ treeCall[m].pc = "checked" /\ treeCall[m].op = "unlink" /\ treeCall[m].src.kind = "alias"
    /\ Unlocked(m, treeCall[m].src.of)
    /\ IF treeCall[m].src \in rows
       THEN Step(m, [treeCall[m] EXCEPT !.pc = "locked", !.lock = {treeCall[m].src.of}])
       ELSE Refuse(m, "missing")

\* unlink of a file that is open somewhere: its row stays, hidden.
UnlinkOpenFile(m) ==
    LET c == [treeCall[m] EXCEPT !.keys = {Key(treeCall[m].src.parent, treeCall[m].src.name)}]
    IN  /\ c.pc = "resolved" /\ c.op = "unlink" /\ c.src.kind = "file"
        /\ KeysFree(m, c.keys)
        /\ IF c.src \in rows THEN Step(m, [c EXCEPT !.pc = "locked"]) ELSE Refuse(m, "missing")

\* rmdir: key, binding, no visible child; the hidden files there are detached, which is
\* part of the transaction and undone when it fails.
unlink_directory_entry_internal(m) ==
    LET c == [treeCall[m] EXCEPT !.keys = {Key(treeCall[m].src.parent, treeCall[m].src.name)}]
    IN  /\ c.pc = "resolved" /\ c.op = "rmdir"
        /\ KeysFree(m, c.keys)
        /\ IF c.src \notin rows THEN Refuse(m, "missing")
           ELSE IF Children(c.src.id) # {} THEN Refuse(m, "notempty")
           ELSE Step(m, [c EXCEPT !.pc = "checked", !.detached = {r.id : r \in Referencing(c.src.id)}])

\* FOR UPDATE waits for those who hold the directory to put an entry in it; after that
\* the children are counted again.
RmdirLockUncounted(m) ==
    LET c == treeCall[m]
    IN  /\ c.pc = "checked" /\ c.op = "rmdir"
        /\ Unshared(m, c.src.id) /\ Unlocked(m, c.src.id)
        /\ IF c.src \notin rows THEN Refuse(m, "missing") ELSE Step(m, [c EXCEPT !.pc = "locked", !.lock = {c.src.id}])
RmdirLock(m) ==
    LET c == treeCall[m]
    IN  /\ c.pc = "checked" /\ c.op = "rmdir"
        /\ Unshared(m, c.src.id) /\ Unlocked(m, c.src.id)
        /\ IF c.src \notin rows THEN Refuse(m, "missing")
           ELSE IF Children(c.src.id) # {} THEN Refuse(m, "notempty")
           ELSE Step(m, [c EXCEPT !.pc = "locked", !.lock = {c.src.id}])

\* The rows after the removal of c.src.
Remaining(c) ==
    CASE c.op = "rmdir" -> {IF r.parent = c.src.id THEN [r EXCEPT !.parent = Root] ELSE r : r \in rows \ {c.src}}
      [] c.op = "unlink" /\ c.src.kind = "symlink" -> remove_symlink_entry_or_promote(rows, c.src)
      [] c.op = "unlink" /\ c.src.kind = "alias" -> {r \in rows : ~(r.kind = "alias" /\ r.id = c.src.id)}
      [] c.op = "unlink" /\ c.src.kind = "file" -> (rows \ {c.src}) \cup {[c.src EXCEPT !.kind = "hidden"]}

Removed(c) ==
    /\ rows' = Remaining(c)
    /\ names' = names \ {Name(c.src)}

-----------------------------------------------------------------------------
\* Renaming.

\* The keys of both names and of the symlinks are tried, not awaited.  Then source and
\* target are resolved again, and the subtree of a moved directory is searched for the new
\* parent.  A replayed call first looks whether the first COMMIT was done.
Renaming(c) == c.op \in {"rename", "noreplace"}
RenameKeys(c) ==
    {Key(c.src.parent, c.src.name), Key(c.dir, c.name)}
        \cup {Key(0 - r.of, "inode") : r \in {x \in {c.src, c.tgt} : x.kind = "symlink"}}
RenameProbe(c) == c.lost /\ \E r \in At(c.dir, c.name) : r.kind = c.src.kind /\ r.id = c.src.id
TargetMatches(c) == At(c.dir, c.name) = {c.tgt} \ {NoEntry}
NoCycle(c) == c.src.kind = "dir" => c.dir \notin Subtree(c.src.id)
SymlinksOf(c) == {r.of : r \in {x \in {c.src, c.tgt} : x.kind = "symlink"}}

\* What the transaction finds, in this order.
Outcome(m, c) ==
    CASE RenameProbe(c) -> "ok"
      [] ~RenameProbe(c) /\ ~KeysFree(m, c.keys) -> "busy"
      [] OTHER ->
           IF c.src \notin rows THEN "missing"
           ELSE IF c.op = "noreplace" /\ At(c.dir, c.name) # {} THEN "exists"
           ELSE IF ~TargetMatches(c) THEN "busy"
           ELSE IF ~NoCycle(c) THEN "cycle"
           ELSE IF c.src.of = c.tgt.of THEN "ok"
           ELSE IF c.tgt.kind = "dir" /\ Children(c.tgt.id) # {} THEN "notempty"
           ELSE "proceed"

rename_namespace_replace(m) ==
    LET c == [treeCall[m] EXCEPT !.keys = RenameKeys(treeCall[m]), !.lock = SymlinksOf(treeCall[m])]
    IN  /\ c.pc = "resolved" /\ Renaming(c)
        /\ Outcome(m, c) \notin {"ok", "busy"} => \A s \in c.lock : Unlocked(m, s)
        /\ IF Outcome(m, c) = "proceed" THEN Step(m, [c EXCEPT !.pc = "locked"]) ELSE Refuse(m, Outcome(m, c))

\* The target's row goes, then the source's row moves.  Both wait for row locks: the
\* DELETE of a directory for those who put entries in it, the foreign key check for
\* those who remove the new parent.
WithoutTarget(c) ==
    CASE c.tgt.kind = "symlink" -> remove_symlink_entry_or_promote(rows, c.tgt)
      [] c.tgt.kind # "symlink" -> rows \ {c.tgt}
Moved(c) ==
    /\ rows' = (WithoutTarget(c) \ {c.src}) \cup {[c.src EXCEPT !.parent = c.dir, !.name = c.name]}
    /\ names' = (names \ {Name(c.src), Name(c.tgt)}) \cup {<<c.dir, c.name, c.src.of>>}

RenameWaits(m, c) ==
    \/ c.tgt.kind = "dir" /\ ~(Unshared(m, c.tgt.id) /\ Unlocked(m, c.tgt.id))
    \/ ~Unlocked(m, c.dir)
ForeignKeyFails(c) == (c.tgt.kind = "dir" /\ Referencing(c.tgt.id) # {}) \/ ~DirExists(c.dir)

RenameFails(m) ==
    /\ treeCall[m].pc = "locked" /\ Renaming(treeCall[m])
    /\ ~RenameWaits(m, treeCall[m]) /\ ForeignKeyFails(treeCall[m])
    /\ Refuse(m, "error")

\* A row that still refers to the directory stops its DELETE.
InTheWay(c) == {r \in Referencing(c.src.id) : r.kind # "hidden" \/ r.id \notin c.detached}
RmdirFails(m) ==
    /\ treeCall[m].pc = "locked" /\ treeCall[m].op = "rmdir"
    /\ InTheWay(treeCall[m]) # {}
    /\ Refuse(m, "error")

-----------------------------------------------------------------------------
\* The change and its COMMIT.

Ready(m) ==
    LET c == treeCall[m]
    IN  CASE c.op \in {"mkdir", "symlink", "mknod", "link"} -> c.pc = "checked"
          [] Renaming(c) -> c.pc = "locked" /\ ~RenameWaits(m, c) /\ ~ForeignKeyFails(c)
          [] c.op = "rmdir" -> c.pc = "locked" /\ InTheWay(c) = {}
          [] c.op = "unlink" -> c.pc = "locked"
          [] c.op = "none" -> FALSE

Applied(c) ==
    CASE c.op \in {"mkdir", "symlink", "mknod", "link"} -> Inserted(c)
      [] Renaming(c) -> Moved(c)
      [] c.op \in {"rmdir", "unlink"} -> Removed(c)

Made(c) == IF c.op \in {"mkdir", "symlink", "mknod"} THEN [answers EXCEPT ![c.id].made = @ + 1] ELSE answers

TreeCommit(m) ==
    LET c == treeCall[m]
    IN  /\ Ready(m) /\ Applied(c)
        /\ treeCall' = [treeCall EXCEPT ![m] = Idle]
        /\ answers' = IF c.op \in {"mkdir", "symlink", "mknod"} THEN [Made(c) EXCEPT ![c.id].told = "ok"] ELSE answers
        /\ UNCHANGED <<tree, seeds, treeFaults>>

\* The connection breaks around COMMIT, which may or may not have been done.  Creations
\* and renames are replayed once; rmdir and unlink report the error.
Replayed(op) == op \notin {"rmdir", "unlink"}
TreeLoseAnswer(m) ==
    LET c == treeCall[m]
    IN  /\ Ready(m) /\ treeFaults > 0
        /\ treeFaults' = treeFaults - 1
        /\ \/ Applied(c) /\ answers' = Made(c)
           \/ UNCHANGED <<rows, names, answers>>
        /\ \/ /\ Replayed(c.op) /\ ~c.lost
              /\ treeCall' = [treeCall EXCEPT ![m] = [c EXCEPT !.pc = "resolved", !.keys = {}, !.share = {},
                                                               !.lock = {}, !.lost = TRUE]]
           \/ /\ ~Replayed(c.op) \/ c.lost
              /\ treeCall' = [treeCall EXCEPT ![m] = Idle]
        /\ UNCHANGED <<tree, seeds>>

TreeStep(m) ==
    \/ mkdir(m) \/ symlink(m) \/ mknod(m) \/ link(m) \/ rmdir(m) \/ unlink(m) \/ rename(m)
    \/ create_directory_internal(m) \/ create_symlink_internal(m) \/ create_special_file_internal(m)
    \/ create_symlink_hardlink_internal(m)
    \/ unlink_symlink_entry_internal(m) \/ unlink_symlink_hardlink_entry(m) \/ AliasLock(m) \/ UnlinkOpenFile(m)
    \/ unlink_directory_entry_internal(m) \/ RmdirLock(m) \/ RmdirFails(m)
    \/ rename_namespace_replace(m) \/ RenameFails(m)
    \/ TreeCommit(m) \/ TreeLoseAnswer(m)

TreeNext == \E m \in TreeMounts : TreeStep(m)

TreeSpec == TreeInit /\ [][TreeNext]_treeVars

-----------------------------------------------------------------------------
(* NamesExact: what the rows show is what POSIX says the committed calls did, name by    *)
(* name with its inode, each name once.  A symlink that loses its first name keeps the   *)
(* others, a replaced target goes in the step that moves the source, and a call that     *)
(* resolved its names before another mount changed them changes nothing.                 *)
NamesExact ==
    /\ {Name(r) : r \in Visible} = names
    /\ \A r, q \in Visible : r.parent = q.parent /\ r.name = q.name => r = q

(* CreatedOnce: of mkdir, symlink and mknod, a call that is told "created" has made its  *)
(* entry exactly once, and one that is told EEXIST has made none, also when a COMMIT     *)
(* answer is lost, the call is replayed and another mount wants the same name.           *)
CreatedOnce ==
    \A s \in 1..MaxSeed :
       /\ answers[s].told = "ok" => answers[s].made = 1
       /\ answers[s].told \in {"exists", "missing"} => answers[s].made = 0

(* RmdirAnswered: once rmdir has locked the directory nothing visible is in it and       *)
(* nothing visible comes: only a file that was made and unlinked since its first look    *)
(* can make the DELETE fail.                                                             *)
RmdirAnswered ==
    \A m \in TreeMounts :
       treeCall[m].op = "rmdir" /\ treeCall[m].pc = "locked" => \A r \in InTheWay(treeCall[m]) : r.kind = "hidden"

(* TreeAcyclic: every directory can be reached from the root.                            *)
TreeAcyclic == \A r \in rows : r.kind = "dir" => r.id \in Subtree(Root)

=============================================================================
