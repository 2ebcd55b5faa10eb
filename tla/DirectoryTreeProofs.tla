-------------------------- MODULE DirectoryTreeProofs --------------------------
(***************************************************************************)
(* The names of the tree stay exact, for every number of mounts, calls,    *)
(* lost answers and replays.                                               *)
(*                                                                         *)
(* Transactions hold disjoint advisory keys and disjoint locks of          *)
(* symlinks.  A row other than an alias changes only under the key of its  *)
(* name, an alias goes only under the lock of its symlink, and a name that *)
(* nobody had is given only under its key.  So what a transaction found    *)
(* when it looked again is still so when it commits.                       *)
(***************************************************************************)
EXTENDS DirectoryTree, WellFoundedInduction, TLAPS

SomeEntries == Entries \cup {NoEntry}

Ops == {"none", "mkdir", "symlink", "mknod", "link", "rmdir", "unlink", "rename", "noreplace"}
Keys == Int \X (Names \cup {"inode"})
Calls ==
    [pc : {"idle", "resolved", "checked", "locked"}, op : Ops, src : SomeEntries, tgt : SomeEntries,
     dir : Nat, name : Names, id : Nat, keys : SUBSET Keys, share : SUBSET Nat,
     lock : SUBSET Nat, detached : SUBSET Nat, lost : BOOLEAN]

Creating(c) == c.op \in {"mkdir", "symlink", "mknod", "link"}
Removing(c) == c.op \in {"rmdir", "unlink"}
NameKey(r) == Key(r.parent, r.name)
Here(V, d, n) == {r \in V : r.parent = d /\ r.name = n}
In(V, d) == {r \in V : r.parent = d}

\* The visible rows V show the names N, each once; a symlink is its own inode, and
\* aliases have numbers of their own, up to the last seed k.
RowsSound(V, N, k) ==
    /\ {Name(r) : r \in V} = N
    /\ \A r, q \in V : r.parent = q.parent /\ r.name = q.name => r = q
    /\ \A r \in V : r.kind = "symlink" => r.of = r.id
    /\ \A r, q \in V : r.kind = "alias" /\ q.kind = "alias" /\ r.id = q.id => r = q
    /\ \A r \in V : r.id <= NewId(k)

\* What a call has made sure of among the visible rows V.
CreateOK(c, V, k) ==
    /\ c.id \in 1..k
    /\ c.op = "link" =>
          /\ c.src # NoEntry
          /\ \A r \in V : r.kind = "alias" /\ r.id = NewId(c.id) => NameKey(r) = Key(c.dir, c.name)
    /\ c.pc = "checked" => Here(V, c.dir, c.name) = {} /\ Key(c.dir, c.name) \in c.keys /\ c.dir \in c.share

RenameOK(c, V) ==
    /\ c.src.kind \in {"dir", "symlink", "file"} /\ c.tgt.kind \in {"none", "dir", "symlink"}
    /\ c.pc = "locked" =>
          /\ c.src \in V /\ c.src.of # c.tgt.of
          /\ Here(V, c.dir, c.name) = {c.tgt} \ {NoEntry}
          /\ NameKey(c.src) \in c.keys /\ Key(c.dir, c.name) \in c.keys
          /\ SymlinksOf(c) \subseteq c.lock

RemoveOK(c, V) ==
    /\ c.src.kind \in IF c.op = "rmdir" THEN {"dir"} ELSE {"symlink", "alias", "file"}
    /\ c.pc \in {"checked", "locked"} => NameKey(c.src) \in c.keys
    /\ c.pc = "locked" =>
          /\ c.src \in V
          /\ c.src.kind \in {"symlink", "alias"} => c.src.of \in c.lock
          /\ c.op = "rmdir" => In(V, c.src.id) = {} /\ c.src.id \in c.lock

CallOK(c, V, k) ==
    /\ c.id \in 0..k
    /\ c.pc # "idle" =>
          /\ Creating(c) \/ Renaming(c) \/ Removing(c)
          /\ Creating(c) => CreateOK(c, V, k)
          /\ Renaming(c) => RenameOK(c, V)
          /\ Removing(c) => RemoveOK(c, V)

\* Nobody puts an entry into a directory that rmdir has locked.
Emptied(c) == c.op = "rmdir" /\ c.pc = "locked"
Filling(c) == Creating(c) /\ c.pc = "checked"

Apart(c, d) ==
    /\ c.keys \cap d.keys = {} /\ c.lock \cap d.lock = {}
    /\ c.id # 0 => c.id # d.id
    /\ Emptied(c) /\ Filling(d) => d.dir # c.src.id

TreeTypes ==
    /\ tree \in Trees
    /\ rows \subseteq Entries
    /\ treeCall \in [TreeMounts -> Calls]
    /\ seeds \in Nat

TreeInv ==
    /\ TreeTypes
    /\ RowsSound(Visible, names, seeds)
    /\ \A m \in TreeMounts : CallOK(treeCall[m], Visible, seeds)
    /\ \A m, o \in TreeMounts : m # o => Apart(treeCall[m], treeCall[o])

-----------------------------------------------------------------------------
\* Rows.

LEMMA EntryFacts ==
    ASSUME NEW r \in Entries
    PROVE  /\ r = Entry(r.kind, r.id, r.of, r.parent, r.name)
           /\ r.kind \in EntryKinds /\ r.id \in Nat /\ r.id # 0 /\ r.of \in Nat /\ r.of # 0 /\ r.parent \in Nat
           /\ r.name \in Names /\ r # NoEntry
BY DEF Entries, Entry, NoEntry, EntryKinds

\* Without a visible row the others show the names without its name.
LEMMA DropSound ==
    ASSUME NEW V \in SUBSET Entries, NEW N, NEW k \in Nat, RowsSound(V, N, k), NEW r \in V
    PROVE  RowsSound(V \ {r}, N \ {Name(r)}, k)
<1>1. \A q \in V : Name(q) = Name(r) => q = r BY ZenonT(60) DEF RowsSound, Name
<1>2. {Name(q) : q \in V \ {r}} = N \ {Name(r)}
  <2>1. N = {Name(q) : q \in V} BY ZenonT(60) DEF RowsSound
  <2> QED BY ZenonT(60), <1>1, <2>1
<1> QED BY ZenonT(60), <1>2 DEF RowsSound

\* A row with a name that was free adds that name.
LEMMA AddSound ==
    ASSUME NEW V \in SUBSET Entries, NEW N, NEW k \in Nat, RowsSound(V, N, k),
           NEW r \in Entries, Here(V, r.parent, r.name) = {}, r.id <= NewId(k),
           r.kind = "symlink" => r.of = r.id,
           r.kind = "alias" => \A q \in V : q.kind = "alias" => q.id # r.id
    PROVE  RowsSound(V \cup {r}, N \cup {Name(r)}, k)
<1>1. {Name(q) : q \in V \cup {r}} = N \cup {Name(r)} BY ZenonT(60) DEF RowsSound
<1>2. ASSUME NEW p \in V \cup {r}, NEW q \in V \cup {r}, p.parent = q.parent, p.name = q.name
      PROVE  p = q
  BY ZenonT(60), <1>2 DEF RowsSound, Here
<1> QED BY ZenonT(60), <1>1, <1>2 DEF RowsSound

Promoted(s, a) == [s EXCEPT !.parent = a.parent, !.name = a.name]

LEMMA PromotedFacts ==
    ASSUME NEW s \in Entries, NEW a \in Entries
    PROVE  /\ Promoted(s, a) \in Entries /\ Promoted(s, a).kind = s.kind /\ Promoted(s, a).id = s.id
           /\ Promoted(s, a).of = s.of /\ Promoted(s, a).parent = a.parent /\ Promoted(s, a).name = a.name
BY Zenon DEF Promoted, Entries

\* Some alias is the oldest.
LEMMA OldestFacts ==
    ASSUME NEW S \in SUBSET Entries, S # {}
    PROVE  Oldest(S) \in S
<1> DEFINE ids == {a.id : a \in S}
<1>1. ids \subseteq Nat /\ ids # {} BY EntryFacts
<1>2. PICK x \in ids : \A y \in ids : <<y, x>> \notin OpToRel(<, Nat)
  BY Zenon, <1>1, NatLessThanWellFounded, WFMin
<1> HIDE DEF ids
<1>3. ASSUME NEW y \in ids PROVE x <= y
  <2>1. x \in Nat /\ y \in Nat BY Zenon, <1>1, <1>2
  <2>2. ~(y < x) BY Zenon, <1>2, <2>1 DEF OpToRel
  <2> QED BY <2>1, <2>2
<1>4. \E a \in S : \A b \in S : a.id <= b.id BY ZenonT(60), <1>3 DEF ids
<1> QED BY ZenonT(60), <1>4 DEF Oldest

\* A symlink that goes leaves its other names: one of them becomes its own.
Promotes(V, s, W) ==
    /\ \A r \in V : r \notin W => r = s \/ (r.kind = "alias" /\ r.of = s.of)
    /\ \A r \in W : r \notin V =>
          /\ r.kind = "symlink" /\ r.of = s.of
          /\ \E a \in V : a.kind = "alias" /\ NameKey(a) = NameKey(r)

LEMMA PromoteSound ==
    ASSUME NEW V \in SUBSET Entries, NEW N, NEW k \in Nat, RowsSound(V, N, k),
           NEW s \in V, s.kind = "symlink",
           NEW W, W = remove_symlink_entry_or_promote(V, s)
    PROVE  W \subseteq Entries /\ RowsSound(W, N \ {Name(s)}, k) /\ Promotes(V, s, W)
<1> DEFINE aliases == {r \in V : r.kind = "alias" /\ r.of = s.id}
<1>1. RowsSound(V \ {s}, N \ {Name(s)}, k) BY ZenonT(60), DropSound
<1>2. CASE aliases = {}
  <2>1. W = V \ {s} BY Zenon, <1>2 DEF remove_symlink_entry_or_promote
  <2> QED BY ZenonT(60), <1>1, <2>1 DEF Promotes
<1>3. CASE aliases # {}
  <2>1. PICK a : a = Oldest(aliases) BY ZenonT(60)
  <2>2. a \in V /\ a.kind = "alias" /\ a.of = s.id BY ZenonT(60), <1>3, <2>1, OldestFacts
  <2>3. PICK p : p = Promoted(s, a) BY ZenonT(60)
  <2>4. W = (V \ {s, a}) \cup {p} BY Zenon, <1>3, <2>1, <2>3 DEF remove_symlink_entry_or_promote, Promoted
  <2>5. /\ p \in Entries /\ p.kind = "symlink" /\ p.id = s.id /\ p.of = s.of
        /\ p.parent = a.parent /\ p.name = a.name
    BY ZenonT(60), <2>2, <2>3, PromotedFacts
  <2>6. s.of = s.id /\ s # a BY ZenonT(60), <2>2 DEF RowsSound
  <2>7. RowsSound((V \ {s}) \ {a}, (N \ {Name(s)}) \ {Name(a)}, k) BY ZenonT(60), <1>1, <2>2, <2>6, DropSound
  <2>8. Here((V \ {s}) \ {a}, p.parent, p.name) = {} BY ZenonT(60), <2>2, <2>5 DEF Here, RowsSound
  <2>9. p.id <= NewId(k) BY ZenonT(60), <2>5 DEF RowsSound
  <2>10. RowsSound(((V \ {s}) \ {a}) \cup {p}, ((N \ {Name(s)}) \ {Name(a)}) \cup {Name(p)}, k)
    BY Zenon, <2>5, <2>6, <2>7, <2>8, <2>9, AddSound
  <2>11. Name(p) = Name(a) BY ZenonT(60), <2>2, <2>5, <2>6 DEF Name
  <2>12. Name(a) \in N /\ Name(a) # Name(s)
    <3>1. Name(a) \in N BY ZenonT(60), <2>2 DEF RowsSound
    <3>2. Name(a) # Name(s) BY ZenonT(60), <2>2, <2>6 DEF RowsSound, Name
    <3> QED BY ZenonT(60), <3>1, <3>2
  <2>13. ((N \ {Name(s)}) \ {Name(a)}) \cup {Name(p)} = N \ {Name(s)} BY ZenonT(60), <2>11, <2>12
  <2>14. ((V \ {s}) \ {a}) \cup {p} = W BY ZenonT(60), <2>4
  <2>15. RowsSound(W, N \ {Name(s)}, k) BY ZenonT(60), <2>10, <2>13, <2>14
  <2>16. NameKey(a) = NameKey(p) BY ZenonT(60), <2>5 DEF NameKey
  <2>17. W \subseteq Entries BY ZenonT(60), <2>4, <2>5
  <2>18. \A r \in V : r \notin W => r = s \/ (r.kind = "alias" /\ r.of = s.of) BY ZenonT(60), <2>2, <2>4, <2>6
  <2>19. \A r \in W : r \notin V => r = p BY ZenonT(60), <2>4
  <2> QED BY ZenonT(60), <2>2, <2>5, <2>15, <2>16, <2>17, <2>18, <2>19 DEF Promotes
<1> QED BY ZenonT(60), <1>2, <1>3

-----------------------------------------------------------------------------
\* What one transaction does to what another has made sure of.

\* The call c turns the visible rows V into W: rows other than aliases go under the key of
\* their name, aliases under the lock of their symlink; a new row takes the name that c
\* holds, or that of an alias.
Change(c, V, W) ==
    /\ W \subseteq Entries
    /\ \A r \in V : r \notin W => IF r.kind = "alias" THEN r.of \in c.lock ELSE NameKey(r) \in c.keys
    /\ \A r \in W : r \notin V =>
          /\ r.kind = "alias" => c.op = "link" /\ r.id = NewId(c.id)
          /\ \/ ~Removing(c) /\ r.parent = c.dir /\ r.name = c.name /\ Key(c.dir, c.name) \in c.keys
             \/ \E a \in V : a.kind = "alias" /\ a.parent = r.parent /\ a.name = r.name

LEMMA CallFacts ==
    ASSUME NEW c \in Calls
    PROVE  /\ c.src \in SomeEntries /\ c.tgt \in SomeEntries /\ c.dir \in Nat /\ c.name \in Names /\ c.id \in Nat
           /\ c.keys \subseteq Keys /\ c.share \subseteq Nat /\ c.lock \subseteq Nat
           /\ c.detached \subseteq Nat /\ c.lost \in BOOLEAN /\ c.op \in Ops
           /\ c.pc \in {"idle", "resolved", "checked", "locked"}
BY ZenonT(60) DEF Calls

\* The name that a creation found free stays free.
LEMMA CreateUndisturbed ==
    ASSUME NEW c \in Calls, NEW d \in Calls, NEW V \in SUBSET Entries, NEW W, NEW k \in Nat,
           Change(c, V, W), Apart(c, d), Apart(d, c), CreateOK(d, V, k)
    PROVE  CreateOK(d, W, k)
<1>1. ASSUME d.op = "link", NEW r \in W, r.kind = "alias", r.id = NewId(d.id)
      PROVE  NameKey(r) = Key(d.dir, d.name)
  <2>1. CASE r \in V BY ZenonT(60), <1>1, <2>1 DEF CreateOK
  <2>2. CASE r \notin V
    <3>1. NewId(c.id) = NewId(d.id) BY ZenonT(60), <1>1, <2>2 DEF Change
    <3>2. c.id = d.id /\ d.id # 0 BY <3>1, CallFacts DEF NewId, CreateOK
    <3> QED BY ZenonT(60), <3>2 DEF Apart
  <2> QED BY ZenonT(60), <2>1, <2>2
<1>2. ASSUME d.pc = "checked", NEW r \in Here(W, d.dir, d.name)
      PROVE  FALSE
  <2>1. r \in W /\ r.parent = d.dir /\ r.name = d.name BY ZenonT(60), <1>2 DEF Here
  <2>2. Here(V, d.dir, d.name) = {} /\ Key(d.dir, d.name) \in d.keys BY ZenonT(60), <1>2 DEF CreateOK
  <2>3. r \notin V BY ZenonT(60), <2>1, <2>2 DEF Here
  <2>4. CASE r.parent = c.dir /\ r.name = c.name /\ Key(c.dir, c.name) \in c.keys
    BY ZenonT(60), <2>1, <2>2, <2>4 DEF Apart
  <2>5. CASE \E a \in V : a.kind = "alias" /\ a.parent = r.parent /\ a.name = r.name
    BY ZenonT(60), <2>1, <2>2, <2>5 DEF Here
  <2> QED BY ZenonT(60), <2>1, <2>3, <2>4, <2>5 DEF Change
<1> QED BY ZenonT(60), <1>1, <1>2 DEF CreateOK

\* The source and the target that a rename holds stay, and nothing else takes their names.
LEMMA RenameUndisturbed ==
    ASSUME NEW c \in Calls, NEW d \in Calls, NEW V \in SUBSET Entries, NEW W,
           Change(c, V, W), Apart(c, d), RenameOK(d, V)
    PROVE  RenameOK(d, W)
<1> SUFFICES ASSUME d.pc = "locked"
             PROVE  d.src \in W /\ Here(W, d.dir, d.name) = {d.tgt} \ {NoEntry}
  BY ZenonT(60) DEF RenameOK
<1>1. /\ d.src \in V /\ d.src.kind # "alias" /\ d.tgt.kind # "alias"
      /\ Here(V, d.dir, d.name) = {d.tgt} \ {NoEntry}
      /\ NameKey(d.src) \in d.keys /\ Key(d.dir, d.name) \in d.keys
  BY ZenonT(60) DEF RenameOK
<1>2. d.src \in W BY ZenonT(60), <1>1 DEF Change, Apart
<1>3. ASSUME d.tgt # NoEntry PROVE d.tgt \in Here(W, d.dir, d.name)
  <2>1. d.tgt \in V /\ d.tgt.parent = d.dir /\ d.tgt.name = d.name BY ZenonT(60), <1>1, <1>3 DEF Here
  <2>2. NameKey(d.tgt) \in d.keys BY ZenonT(60), <1>1, <2>1 DEF NameKey
  <2>3. d.tgt \in W BY ZenonT(60), <1>1, <2>1, <2>2 DEF Change, Apart
  <2> QED BY ZenonT(60), <2>1, <2>3 DEF Here
<1>4. ASSUME NEW r \in Here(W, d.dir, d.name) PROVE r \in {d.tgt} \ {NoEntry}
  <2>1. r \in W /\ r.parent = d.dir /\ r.name = d.name BY ZenonT(60), <1>4 DEF Here
  <2>2. CASE r \in V BY ZenonT(60), <1>1, <2>1, <2>2 DEF Here
  <2>3. CASE r \notin V
    <3>1. CASE r.parent = c.dir /\ r.name = c.name /\ Key(c.dir, c.name) \in c.keys
      BY ZenonT(60), <1>1, <2>1, <3>1 DEF Apart
    <3>2. CASE \E a \in V : a.kind = "alias" /\ a.parent = r.parent /\ a.name = r.name
      BY ZenonT(60), <1>1, <2>1, <3>2 DEF Here
    <3> QED BY ZenonT(60), <2>1, <2>3, <3>1, <3>2 DEF Change
  <2> QED BY ZenonT(60), <2>2, <2>3
<1> QED BY ZenonT(60), <1>2, <1>3, <1>4

\* The entry that a removal has locked stays, and a directory stays empty.
LEMMA RemoveUndisturbed ==
    ASSUME NEW c \in Calls, NEW d \in Calls, NEW V \in SUBSET Entries, NEW W,
           Change(c, V, W), Apart(c, d), RemoveOK(d, V), Emptied(d) /\ ~Removing(c) => c.dir # d.src.id
    PROVE  RemoveOK(d, W)
<1> SUFFICES ASSUME d.pc = "locked"
             PROVE  d.src \in W /\ (d.op = "rmdir" => In(W, d.src.id) = {})
  BY ZenonT(60) DEF RemoveOK
<1>1. /\ d.src \in V /\ NameKey(d.src) \in d.keys
      /\ d.src.kind = "alias" => d.src.of \in d.lock
  BY ZenonT(60) DEF RemoveOK
<1>2. d.src \in W BY ZenonT(60), <1>1 DEF Change, Apart
<1>3. ASSUME d.op = "rmdir", NEW r \in In(W, d.src.id) PROVE FALSE
  <2>1. r \in W /\ r.parent = d.src.id /\ In(V, d.src.id) = {} BY ZenonT(60), <1>3 DEF In, RemoveOK
  <2>2. r \notin V BY ZenonT(60), <2>1 DEF In
  <2>3. Removing(c) \/ c.dir # d.src.id BY ZenonT(60), <1>3 DEF Emptied
  <2>4. \E a \in V : a.parent = r.parent BY ZenonT(60), <2>1, <2>2, <2>3 DEF Change
  <2> QED BY ZenonT(60), <2>1, <2>4 DEF In
<1> QED BY ZenonT(60), <1>2, <1>3

LEMMA Undisturbed ==
    ASSUME NEW c \in Calls, NEW d \in Calls, NEW V \in SUBSET Entries, NEW W, NEW k \in Nat,
           Change(c, V, W), Apart(c, d), Apart(d, c), CallOK(d, V, k),
           Emptied(d) /\ ~Removing(c) => c.dir # d.src.id
    PROVE  CallOK(d, W, k)
BY ZenonT(60), CreateUndisturbed, RenameUndisturbed, RemoveUndisturbed DEF CallOK

-----------------------------------------------------------------------------
\* The changes, each with what it does to the visible rows.

LEMMA InvFacts ==
    ASSUME TreeInv, NEW m \in TreeMounts
    PROVE  /\ rows \in SUBSET Entries /\ Visible \in SUBSET Entries /\ Visible \subseteq rows /\ seeds \in Nat
           /\ \A r \in Visible : r.kind # "hidden" /\ r \in Entries
           /\ treeCall[m] \in Calls /\ CallOK(treeCall[m], Visible, seeds)
           /\ RowsSound(Visible, names, seeds)
           /\ \A o \in TreeMounts \ {m} :
                 /\ treeCall[o] \in Calls /\ CallOK(treeCall[o], Visible, seeds)
                 /\ Apart(treeCall[m], treeCall[o]) /\ Apart(treeCall[o], treeCall[m])
BY ZenonT(60) DEF TreeInv, TreeTypes, Visible

LEMMA KeysKept ==
    ASSUME TreeInv, NEW m \in TreeMounts PROVE KeysFree(m, treeCall[m].keys)
<1>1. \A o \in TreeMounts \ {m} : Apart(treeCall[o], treeCall[m]) BY ZenonT(60), InvFacts
<1> QED BY ZenonT(60), <1>1 DEF KeysFree, Apart

LEMMA SomeEntryFacts ==
    ASSUME NEW r \in SomeEntries, r.kind # "none" PROVE r \in Entries
BY DEF SomeEntries, NoEntry, Entry

\* The INSERT of a creating call.
LEMMA InsertCommit ==
    ASSUME TreeInv, NEW m \in TreeMounts, NEW c, c = treeCall[m], Creating(c), c.pc = "checked", Inserted(c)
    PROVE  /\ rows' \subseteq Entries /\ Change(c, Visible, Visible') /\ RowsSound(Visible', names', seeds)
           /\ \A r \in Visible' : r \in Visible \/ NameKey(r) = Key(c.dir, c.name)
<1> DEFINE n == NewRow(c)
<1>1. /\ Visible \in SUBSET Entries /\ rows \subseteq Entries /\ seeds \in Nat /\ c \in Calls
      /\ RowsSound(Visible, names, seeds) /\ CreateOK(c, Visible, seeds)
  BY ZenonT(60), InvFacts DEF CallOK
<1>2. c.id \in 1..seeds /\ Here(Visible, c.dir, c.name) = {} /\ Key(c.dir, c.name) \in c.keys
  BY ZenonT(60), <1>1 DEF CreateOK
<1>3. c.op = "link" => c.src \in Entries BY ZenonT(60), <1>1, CallFacts DEF CreateOK, SomeEntries
<1>4. /\ n.id = NewId(c.id) /\ n.parent = c.dir /\ n.name = c.name /\ n.kind = Kind(c.op)
      /\ n.of = IF c.op = "link" THEN c.src.of ELSE NewId(c.id)
  BY ZenonT(60) DEF NewRow, Entry
<1>5. n.kind \in {"dir", "symlink", "file", "alias"} /\ (n.kind = "alias" <=> c.op = "link")
  BY ZenonT(60), <1>4 DEF Kind, Creating
<1>6. n \in Entries
  <2>1. NewId(c.id) \in Nat \ {0} BY <1>1, CallFacts DEF NewId
  <2>2. (IF c.op = "link" THEN c.src.of ELSE NewId(c.id)) \in Nat \ {0} BY ZenonT(60), <1>3, <2>1, EntryFacts
  <2>3. Kind(c.op) \in EntryKinds BY ZenonT(60), <1>4, <1>5 DEF EntryKinds
  <2> QED BY ZenonT(60), <1>1, <2>1, <2>2, <2>3, CallFacts DEF NewRow, Entry, Entries
<1>7. Visible' = Visible \cup {n} /\ names' = names \cup {Name(n)} /\ rows' = rows \cup {n}
  BY ZenonT(60), <1>5 DEF Inserted, Visible
<1> HIDE DEF n
<1>8. n.id <= NewId(seeds) BY <1>1, <1>2, <1>4, CallFacts DEF NewId
<1>9. ASSUME n.kind = "alias", NEW q \in Visible, q.kind = "alias", q.id = n.id PROVE FALSE
  <2>1. NameKey(q) = Key(c.dir, c.name) BY ZenonT(60), <1>1, <1>4, <1>5, <1>9 DEF CreateOK
  <2> QED BY ZenonT(60), <1>2, <2>1 DEF NameKey, Key, Here
<1>10. n.kind = "symlink" => n.of = n.id BY ZenonT(60), <1>4, <1>5
<1>11. RowsSound(Visible', names', seeds)
  BY ZenonT(60), <1>1, <1>2, <1>4, <1>6, <1>7, <1>8, <1>9, <1>10, AddSound
<1>12. Change(c, Visible, Visible')
  BY ZenonT(60), <1>1, <1>2, <1>4, <1>5, <1>6, <1>7 DEF Change, Creating, Removing
<1>13. NameKey(n) = Key(c.dir, c.name) BY ZenonT(60), <1>4 DEF NameKey
<1> QED BY ZenonT(60), <1>1, <1>6, <1>7, <1>11, <1>12, <1>13

\* A promotion among the rows is one among the visible rows.
LEMMA VisiblePromote ==
    ASSUME NEW S \in SUBSET Entries, NEW s \in S, s.kind = "symlink",
           NEW V, V = {r \in S : r.kind # "hidden"},
           NEW T, T = remove_symlink_entry_or_promote(S, s)
    PROVE  /\ {r \in T : r.kind # "hidden"} = remove_symlink_entry_or_promote(V, s)
           /\ T \subseteq Entries
<1> DEFINE aliases == {r \in S : r.kind = "alias" /\ r.of = s.id}
<1>1. {r \in V : r.kind = "alias" /\ r.of = s.id} = aliases OBVIOUS
<1>2. CASE aliases = {}
  <2>1. T = S \ {s} BY ZenonT(60), <1>2 DEF remove_symlink_entry_or_promote
  <2>2. remove_symlink_entry_or_promote(V, s) = V \ {s} BY Zenon, <1>1, <1>2 DEF remove_symlink_entry_or_promote
  <2> QED BY ZenonT(60), <2>1, <2>2
<1>3. CASE aliases # {}
  <2>1. PICK a : a = Oldest(aliases) OBVIOUS
  <2>2. a \in S BY ZenonT(60), <1>3, <2>1, OldestFacts
  <2>3. PICK p : p = Promoted(s, a) BY ZenonT(60)
  <2>4. p \in Entries /\ p.kind = "symlink" BY ZenonT(60), <2>2, <2>3, PromotedFacts
  <2>5. T = (S \ {s, a}) \cup {p} BY ZenonT(60), <1>3, <2>1, <2>3 DEF remove_symlink_entry_or_promote, Promoted
  <2>6. remove_symlink_entry_or_promote(V, s) = (V \ {s, a}) \cup {p}
    BY ZenonT(60), <1>1, <1>3, <2>1, <2>3 DEF remove_symlink_entry_or_promote, Promoted
  <2> QED BY ZenonT(60), <2>4, <2>5, <2>6
<1> QED BY ZenonT(60), <1>2, <1>3

\* The target of a rename goes first: its name is free, the source is still there.
TargetLeft(c, V, W) ==
    /\ \A r \in V : r \notin W => IF r.kind = "alias" THEN r.of \in c.lock ELSE NameKey(r) \in c.keys
    /\ \A r \in W : r \notin V =>
          /\ r.kind # "alias"
          /\ \E a \in V : a.kind = "alias" /\ a.parent = r.parent /\ a.name = r.name

LEMMA TargetGone ==
    ASSUME TreeInv, NEW m \in TreeMounts, NEW c, c = treeCall[m], Renaming(c), c.pc = "locked",
           NEW T, T = WithoutTarget(c), NEW W, W = {r \in T : r.kind # "hidden"}
    PROVE  /\ T \subseteq Entries /\ c.src \in W /\ Here(W, c.dir, c.name) = {}
           /\ RowsSound(W, names \ {Name(c.tgt)}, seeds)
           /\ TargetLeft(c, Visible, W)
<1>1. /\ Visible \in SUBSET Entries /\ rows \in SUBSET Entries /\ seeds \in Nat /\ c \in Calls
      /\ RowsSound(Visible, names, seeds) /\ RenameOK(c, Visible)
  BY ZenonT(60), InvFacts DEF CallOK
<1>2. /\ c.src \in Visible /\ c.src.of # c.tgt.of /\ c.src.kind # "alias" /\ c.tgt.kind \in {"none", "dir", "symlink"}
      /\ Here(Visible, c.dir, c.name) = {c.tgt} \ {NoEntry}
      /\ Key(c.dir, c.name) \in c.keys /\ SymlinksOf(c) \subseteq c.lock
  BY ZenonT(60), <1>1 DEF RenameOK
<1>3. c.tgt # NoEntry => /\ c.tgt \in Visible /\ c.tgt.kind \in {"dir", "symlink"}
                         /\ c.tgt.parent = c.dir /\ c.tgt.name = c.name /\ NameKey(c.tgt) \in c.keys
  <2> SUFFICES ASSUME c.tgt # NoEntry PROVE /\ c.tgt \in Visible /\ c.tgt.kind \in {"dir", "symlink"}
                         /\ c.tgt.parent = c.dir /\ c.tgt.name = c.name /\ NameKey(c.tgt) \in c.keys
    OBVIOUS
  <2>1. c.tgt \in Visible /\ c.tgt.parent = c.dir /\ c.tgt.name = c.name BY ZenonT(60), <1>2 DEF Here
  <2>2. c.tgt.kind # "none" BY ZenonT(60), <1>1, <2>1, EntryFacts DEF EntryKinds
  <2> QED BY ZenonT(60), <1>2, <2>1, <2>2 DEF NameKey
<1> DEFINE Gone(r) == r = c.tgt \/ (c.tgt.kind = "symlink" /\ r.kind = "alias" /\ r.of = c.tgt.of)
<1>4. /\ T \subseteq Entries /\ RowsSound(W, names \ {Name(c.tgt)}, seeds)
      /\ \A r \in Visible : r \notin W => c.tgt # NoEntry /\ Gone(r)
      /\ \A r \in W : r \notin Visible =>
            /\ r.kind # "alias"
            /\ \E a \in Visible : a.kind = "alias" /\ NameKey(a) = NameKey(r)
  <2>1. CASE c.tgt = NoEntry
    <3>1. c.tgt \notin rows BY ZenonT(60), <1>1, <2>1, EntryFacts
    <3>2. c.tgt.kind # "symlink" BY <2>1 DEF NoEntry, Entry
    <3>3. T = rows BY ZenonT(60), <3>1, <3>2 DEF WithoutTarget
    <3>4. W = Visible BY ZenonT(60), <3>3 DEF Visible
    <3>5. Name(c.tgt) \notin names
      <4>1. \A r \in Visible : Name(r) # Name(c.tgt) BY <1>1, <2>1, EntryFacts DEF Name, NoEntry, Entry
      <4> QED BY ZenonT(60), <1>1, <4>1 DEF RowsSound
    <3>6. names \ {Name(c.tgt)} = names BY ZenonT(60), <3>5
    <3> QED BY Zenon, <1>1, <3>3, <3>4, <3>6
  <2>2. CASE c.tgt # NoEntry /\ c.tgt.kind = "dir"
    <3>1. T = rows \ {c.tgt} BY ZenonT(60), <2>2 DEF WithoutTarget
    <3>2. W = Visible \ {c.tgt} BY ZenonT(60), <3>1 DEF Visible
    <3>3. RowsSound(W, names \ {Name(c.tgt)}, seeds) BY <1>1, <1>3, <2>2, <3>2, DropSound
    <3> QED BY ZenonT(60), <1>1, <2>2, <3>1, <3>2, <3>3
  <2>3. CASE c.tgt # NoEntry /\ c.tgt.kind = "symlink"
    <3>1. T = remove_symlink_entry_or_promote(rows, c.tgt) BY ZenonT(60), <2>3 DEF WithoutTarget
    <3>2. Visible = {r \in rows : r.kind # "hidden"} /\ c.tgt \in rows BY ZenonT(60), <1>3, <2>3 DEF Visible
    <3>3. W = remove_symlink_entry_or_promote(Visible, c.tgt) /\ T \subseteq Entries
      BY <1>1, <2>3, <3>1, <3>2, VisiblePromote
    <3>4. RowsSound(W, names \ {Name(c.tgt)}, seeds) /\ Promotes(Visible, c.tgt, W)
      BY ZenonT(60), <1>1, <1>3, <2>3, <3>3, PromoteSound
    <3> QED BY ZenonT(60), <2>3, <3>3, <3>4 DEF Promotes
  <2> QED BY ZenonT(60), <1>3, <2>1, <2>2, <2>3
<1>5. c.src \in W BY ZenonT(60), <1>2, <1>4
<1>6. ASSUME NEW r \in Here(W, c.dir, c.name) PROVE FALSE
  <2>1. r \in W /\ r.parent = c.dir /\ r.name = c.name BY ZenonT(60), <1>6 DEF Here
  <2>2. CASE r \in Visible
    <3>1. r = c.tgt BY ZenonT(60), <1>2, <2>1, <2>2 DEF Here
    <3>2. Name(r) \in names \ {Name(c.tgt)} BY ZenonT(60), <1>4, <2>1 DEF RowsSound
    <3> QED BY ZenonT(60), <3>1, <3>2
  <2>3. CASE r \notin Visible
    <3>1. PICK a \in Visible : a.kind = "alias" /\ NameKey(a) = NameKey(r) BY ZenonT(60), <1>4, <2>1, <2>3
    <3>2. a \in Here(Visible, c.dir, c.name) BY ZenonT(60), <2>1, <3>1 DEF NameKey, Key, Here
    <3> QED BY ZenonT(60), <1>2, <3>1, <3>2
  <2> QED BY ZenonT(60), <2>2, <2>3
<1>7. c.tgt.kind = "symlink" => c.tgt.of \in c.lock BY ZenonT(60), <1>2 DEF SymlinksOf
<1>8. ASSUME NEW r \in Visible, r \notin W PROVE IF r.kind = "alias" THEN r.of \in c.lock ELSE NameKey(r) \in c.keys
  BY ZenonT(60), <1>3, <1>4, <1>7, <1>8
<1>9. ASSUME NEW r \in W, r \notin Visible
      PROVE  \E a \in Visible : a.kind = "alias" /\ a.parent = r.parent /\ a.name = r.name
  BY ZenonT(60), <1>4, <1>9 DEF NameKey, Key
<1> QED BY ZenonT(60), <1>4, <1>5, <1>6, <1>8, <1>9 DEF TargetLeft

\* Then the source takes the name.
LEMMA RenameCommit ==
    ASSUME TreeInv, NEW m \in TreeMounts, NEW c, c = treeCall[m], Renaming(c), c.pc = "locked", Moved(c)
    PROVE  rows' \subseteq Entries /\ Change(c, Visible, Visible') /\ RowsSound(Visible', names', seeds)
<1>1. /\ Visible \in SUBSET Entries /\ seeds \in Nat /\ c \in Calls /\ RenameOK(c, Visible)
      /\ RowsSound(Visible, names, seeds)
  BY ZenonT(60), InvFacts DEF CallOK
<1>2. c.src \in Visible /\ c.src.kind \in {"dir", "symlink", "file"} /\ c.src \in Entries
      /\ NameKey(c.src) \in c.keys /\ Key(c.dir, c.name) \in c.keys
  BY ZenonT(60), <1>1 DEF RenameOK
<1>3. PICK T : T = WithoutTarget(c) OBVIOUS
<1>4. PICK W : W = {r \in T : r.kind # "hidden"} BY Zenon
<1>5. /\ T \subseteq Entries /\ c.src \in W /\ Here(W, c.dir, c.name) = {}
      /\ RowsSound(W, names \ {Name(c.tgt)}, seeds)
      /\ TargetLeft(c, Visible, W)
  BY Zenon, <1>3, <1>4, TargetGone
<1>6. PICK n : n = [c.src EXCEPT !.parent = c.dir, !.name = c.name] OBVIOUS
<1>7. /\ n \in Entries /\ n.kind = c.src.kind /\ n.id = c.src.id /\ n.of = c.src.of
      /\ n.parent = c.dir /\ n.name = c.name
  <2>1. c.dir \in Nat /\ c.name \in Names BY ZenonT(60), <1>1, CallFacts
  <2> QED BY Zenon, <1>2, <1>6, <2>1 DEF Entries
<1>8. rows' = (T \ {c.src}) \cup {n} BY ZenonT(60), <1>3, <1>6 DEF Moved
<1>9. Visible' = (W \ {c.src}) \cup {n} BY ZenonT(60), <1>2, <1>4, <1>7, <1>8 DEF Visible
<1>10. Name(n) = <<c.dir, c.name, c.src.of>> BY ZenonT(60), <1>7 DEF Name
<1>11. names' = ((names \ {Name(c.tgt)}) \ {Name(c.src)}) \cup {Name(n)}
  <2>1. names' = (names \ {Name(c.src), Name(c.tgt)}) \cup {Name(n)} BY ZenonT(60), <1>10 DEF Moved
  <2> QED BY ZenonT(60), <2>1
<1>12. W \in SUBSET Entries BY ZenonT(60), <1>4, <1>5
<1>13. RowsSound(W \ {c.src}, (names \ {Name(c.tgt)}) \ {Name(c.src)}, seeds)
  BY ZenonT(60), <1>1, <1>5, <1>12, DropSound
<1>14. Here(W \ {c.src}, n.parent, n.name) = {} BY ZenonT(60), <1>5, <1>7 DEF Here
<1>15. n.id <= NewId(seeds) /\ (n.kind = "symlink" => n.of = n.id) /\ n.kind # "alias"
  BY ZenonT(60), <1>1, <1>2, <1>7 DEF RowsSound
<1>16. RowsSound(Visible', names', seeds)
  BY ZenonT(60), <1>1, <1>7, <1>9, <1>11, <1>12, <1>13, <1>14, <1>15, AddSound
<1>17. Change(c, Visible, Visible')
  <2>1. Visible' \subseteq Entries BY ZenonT(60), <1>7, <1>9, <1>12
  <2>2. ASSUME NEW r \in Visible, r \notin Visible'
        PROVE  IF r.kind = "alias" THEN r.of \in c.lock ELSE NameKey(r) \in c.keys
    BY ZenonT(60), <1>2, <1>5, <1>9, <2>2 DEF TargetLeft
  <2>3. ASSUME NEW r \in Visible', r \notin Visible
        PROVE  /\ r.kind # "alias"
               /\ \/ ~Removing(c) /\ r.parent = c.dir /\ r.name = c.name /\ Key(c.dir, c.name) \in c.keys
                  \/ \E a \in Visible : a.kind = "alias" /\ a.parent = r.parent /\ a.name = r.name
    BY ZenonT(60), <1>2, <1>5, <1>7, <1>9, <1>15, <2>3 DEF TargetLeft, Removing, Renaming
  <2> QED BY ZenonT(60), <2>1, <2>2, <2>3 DEF Change
<1> QED BY ZenonT(60), <1>5, <1>7, <1>8, <1>16, <1>17

\* A removal takes its entry, or the row of an alias in its place, out of sight.
LEMMA RemoveCommit ==
    ASSUME TreeInv, NEW m \in TreeMounts, NEW c, c = treeCall[m], Removing(c), c.pc = "locked",
           c.op = "rmdir" => InTheWay(c) = {}, Removed(c)
    PROVE  rows' \subseteq Entries /\ Change(c, Visible, Visible') /\ RowsSound(Visible', names', seeds)
<1>1. /\ Visible \in SUBSET Entries /\ rows \in SUBSET Entries /\ seeds \in Nat /\ c \in Calls
      /\ RowsSound(Visible, names, seeds) /\ RemoveOK(c, Visible)
  BY ZenonT(60), InvFacts DEF CallOK
<1>2. /\ c.src \in Visible /\ c.src \in rows /\ c.src \in Entries /\ NameKey(c.src) \in c.keys
      /\ c.src.kind \in IF c.op = "rmdir" THEN {"dir"} ELSE {"symlink", "alias", "file"}
      /\ c.src.kind \in {"symlink", "alias"} => c.src.of \in c.lock
  BY ZenonT(60), <1>1 DEF RemoveOK, Visible
<1>3. names' = names \ {Name(c.src)} BY ZenonT(60) DEF Removed
<1>4. ASSUME Visible' = Visible \ {c.src}
      PROVE  Change(c, Visible, Visible') /\ RowsSound(Visible', names', seeds)
  <2>1. RowsSound(Visible', names', seeds) BY ZenonT(60), <1>1, <1>2, <1>3, <1>4, DropSound
  <2>2. Change(c, Visible, Visible') BY ZenonT(60), <1>1, <1>2, <1>4 DEF Change
  <2> QED BY ZenonT(60), <2>1, <2>2
<1>5. CASE c.op = "rmdir"
  <2> DEFINE Detach(r) == IF r.parent = c.src.id THEN [r EXCEPT !.parent = Root] ELSE r
  <2>1. rows' = {Detach(r) : r \in rows \ {c.src}} BY ZenonT(60), <1>5 DEF Removed, Remaining
  <2>2. ASSUME NEW r \in rows PROVE Detach(r) \in Entries /\ Detach(r).kind = r.kind
    BY ZenonT(60), <1>1, <2>2 DEF Entries, Root
  <2>3. ASSUME NEW r \in Visible PROVE Detach(r) = r BY ZenonT(60), <1>5, <2>3 DEF InTheWay, Referencing, Visible
  <2> HIDE DEF Detach
  <2>4. rows' \subseteq Entries BY ZenonT(60), <2>1, <2>2
  <2>5. Visible' = Visible \ {c.src}
    <3>1. \A r \in rows : r \in Visible <=> r.kind # "hidden" BY ZenonT(60) DEF Visible
    <3>2. Visible' = {r \in rows' : r.kind # "hidden"} BY ZenonT(60) DEF Visible
    <3>3. ASSUME NEW r \in Visible' PROVE r \in Visible \ {c.src}
      <4>1. PICK q \in rows \ {c.src} : r = Detach(q) BY ZenonT(60), <2>1, <3>2, <3>3
      <4>2. q \in Visible BY ZenonT(60), <2>2, <3>1, <3>2, <3>3, <4>1
      <4> QED BY ZenonT(60), <2>3, <4>1, <4>2
    <3>4. ASSUME NEW r \in Visible \ {c.src} PROVE r \in Visible'
      <4>1. r \in rows /\ r.kind # "hidden" /\ r = Detach(r) BY ZenonT(60), <2>3, <3>4 DEF Visible
      <4>2. r \in rows' BY ZenonT(60), <2>1, <3>4, <4>1
      <4> QED BY ZenonT(60), <3>2, <4>1, <4>2
    <3> QED BY ZenonT(60), <3>3, <3>4
  <2> QED BY ZenonT(60), <1>4, <2>4, <2>5
<1>6. CASE c.op = "unlink" /\ c.src.kind = "symlink"
  <2>1. rows' = remove_symlink_entry_or_promote(rows, c.src) BY ZenonT(60), <1>6 DEF Removed, Remaining
  <2>2. Visible = {r \in rows : r.kind # "hidden"} /\ Visible' = {r \in rows' : r.kind # "hidden"} BY ZenonT(60) DEF Visible
  <2>3. PICK T : T = rows' OBVIOUS
  <2>4. {r \in T : r.kind # "hidden"} = remove_symlink_entry_or_promote(Visible, c.src) /\ T \subseteq Entries
    BY SMTT(60), <1>1, <1>2, <1>6, <2>1, <2>2, <2>3, VisiblePromote
  <2>5. PICK W : W = Visible' OBVIOUS
  <2>6. W = remove_symlink_entry_or_promote(Visible, c.src) BY ZenonT(60), <2>2, <2>3, <2>4, <2>5
  <2>7. W \subseteq Entries /\ RowsSound(W, names \ {Name(c.src)}, seeds) /\ Promotes(Visible, c.src, W)
    BY Zenon, <1>1, <1>2, <1>6, <2>6, PromoteSound
  <2>8. Change(c, Visible, W) BY ZenonT(60), <1>2, <1>6, <2>7 DEF Change, Promotes, NameKey, Key
  <2> QED BY ZenonT(60), <1>3, <2>3, <2>4, <2>5, <2>7, <2>8
<1>7. CASE c.op = "unlink" /\ c.src.kind = "alias"
  <2>1. rows' = {r \in rows : ~(r.kind = "alias" /\ r.id = c.src.id)} BY ZenonT(60), <1>7 DEF Removed, Remaining
  <2>2. \A r \in rows : r.kind = "alias" /\ r.id = c.src.id => r = c.src BY ZenonT(60), <1>1, <1>2, <1>7 DEF RowsSound, Visible
  <2>3. rows' = rows \ {c.src} BY ZenonT(60), <1>7, <2>1, <2>2
  <2>4. Visible' = Visible \ {c.src} BY ZenonT(60), <2>3 DEF Visible
  <2> QED BY ZenonT(60), <1>1, <1>4, <2>3, <2>4
<1>8. CASE c.op = "unlink" /\ c.src.kind = "file"
  <2>1. PICK h : h = [c.src EXCEPT !.kind = "hidden"] BY Zenon
  <2>2. h \in Entries /\ h.kind = "hidden" BY ZenonT(60), <1>2, <2>1 DEF Entries, EntryKinds
  <2>3. rows' = (rows \ {c.src}) \cup {h} BY ZenonT(60), <1>8, <2>1 DEF Removed, Remaining
  <2>4. Visible' = Visible \ {c.src} BY ZenonT(60), <2>2, <2>3 DEF Visible
  <2> QED BY ZenonT(60), <1>1, <1>4, <2>2, <2>3, <2>4
<1> QED BY ZenonT(60), <1>2, <1>5, <1>6, <1>7, <1>8 DEF Removing

-----------------------------------------------------------------------------
\* The invariant, from what a step does.

\* A step that changes only the call of one mount, and perhaps takes a seed.
Becomes(m, n) ==
    /\ treeCall' = [treeCall EXCEPT ![m] = n]
    /\ UNCHANGED <<tree, rows, names>>
    /\ seeds' \in Nat /\ seeds <= seeds'
FitsOthers(m, n) == \A o \in TreeMounts \ {m} : Apart(n, treeCall[o]) /\ Apart(treeCall[o], n)

LEMMA CallStep ==
    ASSUME TreeInv, NEW m \in TreeMounts, NEW n, n \in Calls, Becomes(m, n), FitsOthers(m, n),
           CallOK(n, Visible, seeds')
    PROVE  TreeInv'
<1> USE DEF Becomes, FitsOthers
<1>1. TreeMounts' = TreeMounts /\ Visible' = Visible BY ZenonT(60) DEF TreeMounts, Visible
<1>2. treeCall \in [TreeMounts -> Calls] BY ZenonT(60) DEF TreeInv, TreeTypes
<1>3. treeCall'[m] = n /\ \A o \in TreeMounts \ {m} : treeCall'[o] = treeCall[o] BY ZenonT(60), <1>2
<1>4. TreeTypes'
  <2>1. treeCall' \in [TreeMounts -> Calls] BY ZenonT(60), <1>2
  <2> QED BY ZenonT(60), <1>1, <2>1 DEF TreeInv, TreeTypes
<1>5. RowsSound(Visible, names, seeds') 
  BY InvFacts, EntryFacts DEF RowsSound, NewId
<1>6. ASSUME NEW o \in TreeMounts PROVE CallOK(treeCall'[o], Visible, seeds')
  <2>1. CASE o = m BY ZenonT(60), <1>3, <2>1
  <2>2. CASE o # m
    <3>1. treeCall[o] \in Calls /\ CallOK(treeCall[o], Visible, seeds) /\ seeds \in Nat BY ZenonT(60), InvFacts
    <3>2. CallOK(treeCall[o], Visible, seeds') BY SMTT(60), <3>1, CallFacts DEF CallOK, CreateOK
    <3> QED BY ZenonT(60), <1>3, <2>2, <3>2
  <2> QED BY ZenonT(60), <2>1, <2>2
<1>7. ASSUME NEW o \in TreeMounts, NEW p \in TreeMounts, o # p PROVE Apart(treeCall'[o], treeCall'[p])
  BY ZenonT(60), <1>3, <1>7 DEF TreeInv
<1> QED BY ZenonT(60), <1>1, <1>4, <1>5, <1>6, <1>7 DEF TreeInv

LEMMA IdleFacts ==
    /\ Idle \in Calls
    /\ Idle.pc = "idle" /\ Idle.id = 0 /\ Idle.keys = {} /\ Idle.lock = {} /\ Idle.share = {}
<1>1. Idle \in Calls
  <2>1. NoEntry \in SomeEntries BY ZenonT(60) DEF SomeEntries
  <2>2. "none" \in Names BY ZenonT(60) DEF Names
  <2> QED BY ZenonT(60), <2>1, <2>2 DEF Idle, Calls, Ops
<1>2. Idle.pc = "idle" /\ Idle.id = 0 /\ Idle.keys = {} /\ Idle.lock = {} /\ Idle.share = {} BY ZenonT(60) DEF Idle
<1> QED BY ZenonT(60), <1>1, <1>2

\* An idle call, and one that starts over, holds nothing.
LEMMA FreeApart ==
    ASSUME NEW n \in Calls, NEW d \in Calls, n.keys = {}, n.lock = {}, n.id # 0 => n.id # d.id,
           n.pc \in {"idle", "resolved"}
    PROVE  Apart(n, d) /\ Apart(d, n)
BY ZenonT(60), CallFacts DEF Apart, Emptied, Filling

LEMMA IdleApart ==
    ASSUME NEW d \in Calls, NEW V, NEW k \in Nat
    PROVE  Apart(Idle, d) /\ Apart(d, Idle) /\ CallOK(Idle, V, k)
BY FreeApart, IdleFacts DEF CallOK

LEMMA RefuseInv ==
    ASSUME TreeInv, NEW m \in TreeMounts, NEW answer, Refuse(m, answer)
    PROVE  TreeInv'
<1>1. seeds \in Nat /\ CallOK(Idle, Visible, seeds) BY ZenonT(60), InvFacts, IdleApart, IdleFacts
<1>2. Becomes(m, Idle) /\ seeds' = seeds BY <1>1 DEF Refuse, Reply, Becomes
<1>3. FitsOthers(m, Idle) BY ZenonT(60), InvFacts, IdleApart, <1>1 DEF FitsOthers
<1> QED BY ZenonT(60), <1>1, <1>2, <1>3, IdleFacts, CallStep

\* A step that keeps the rows gives the mount another call.
LEMMA StepInv ==
    ASSUME TreeInv, NEW m \in TreeMounts, NEW n, Step(m, n), n \in Calls, FitsOthers(m, n),
           CallOK(n, Visible, seeds)
    PROVE  TreeInv'
<1>1. Becomes(m, n) /\ seeds' = seeds BY InvFacts DEF Step, Becomes
<1> QED BY ZenonT(60), <1>1, CallStep

-----------------------------------------------------------------------------
\* The callbacks up to the transaction.

LEMMA AskedFacts ==
    ASSUME TreeConstants, TreeInv, NEW m \in TreeMounts, NEW op, NEW c \in Asked(m, op)
    PROVE  NewPlace(c)[1] \in Nat /\ NewPlace(c)[2] \in Names /\ c.op = op
<1>1. tree \in Trees /\ c \in tree.calls[m] /\ c.op = op /\ m \in DOMAIN tree.calls
  BY ZenonT(60) DEF Asked, TreeInv, TreeTypes, TreeMounts
<1>2. NewPlace(c)[1] \in Nat BY ZenonT(60), <1>1 DEF TreeConstants
<1>3. c \in UNION {tree.calls[o] : o \in DOMAIN tree.calls} BY ZenonT(60), <1>1
<1>4. NewPlace(c)[2] \in Names BY <1>1, <1>3 DEF Names
<1> QED BY ZenonT(60), <1>1, <1>2, <1>4

LEMMA AtFacts ==
    ASSUME TreeInv, NEW d, NEW n, NEW r \in At(d, n)
    PROVE  r \in Visible /\ r \in Entries /\ r \in SomeEntries /\ r # NoEntry
BY ZenonT(60), EntryFacts DEF At, TreeInv, TreeTypes, Visible, SomeEntries

Opened(c, i) == [c EXCEPT !.pc = "resolved", !.id = i]

LEMMA OpenedFacts ==
    ASSUME NEW c \in Calls, NEW i \in Nat, NEW n, n = Opened(c, i)
    PROVE  /\ n \in Calls /\ n.pc = "resolved" /\ n.id = i /\ n.op = c.op /\ n.src = c.src
           /\ n.keys = c.keys /\ n.lock = c.lock
<1>1. n.pc = "resolved" /\ n.id = i /\ n.op = c.op /\ n.src = c.src /\ n.keys = c.keys /\ n.lock = c.lock
  BY ZenonT(60) DEF Calls, Opened
<1>2. n \in Calls BY Zenon DEF Calls, Opened
<1> QED BY ZenonT(60), <1>1, <1>2

\* A new seed is nobody's.
LEMMA OpeningInv ==
    ASSUME TreeInv, NEW m \in TreeMounts, NEW c \in Calls, Creating(c), c.keys = {}, c.lock = {},
           c.op = "link" => c.src # NoEntry, Opening(m, c)
    PROVE  TreeInv'
<1>1. PICK n : n = Opened(c, seeds + 1) BY ZenonT(60)
<1>2. seeds \in Nat /\ Visible \in SUBSET Entries /\ RowsSound(Visible, names, seeds) BY ZenonT(60), InvFacts
<1>3. n \in Calls /\ n.pc = "resolved" /\ n.id = seeds + 1 /\ n.op = c.op /\ n.src = c.src
      /\ n.keys = c.keys /\ n.lock = c.lock
  <2>1. seeds + 1 \in Nat BY <1>2
  <2> QED BY SMTT(60), <1>1, <2>1, OpenedFacts
<1>4. n.keys = {} /\ n.lock = {} BY ZenonT(60), <1>3
<1>5. treeCall' = [treeCall EXCEPT ![m] = n] /\ seeds' = seeds + 1 /\ UNCHANGED <<tree, rows, names>>
  BY ZenonT(60), <1>1 DEF Opening, Opened
<1>6. Becomes(m, n) BY <1>2, <1>5 DEF Becomes
<1>7. ASSUME NEW r \in Visible PROVE r.id # NewId(seeds + 1)
  BY SMTT(60), <1>2, <1>7, EntryFacts DEF RowsSound, NewId
<1>8. CallOK(n, Visible, seeds')
  BY <1>2, <1>3, <1>5, <1>7 DEF CallOK, CreateOK, Creating, Renaming, Removing
<1>9. FitsOthers(m, n)
  <2>1. ASSUME NEW o \in TreeMounts \ {m} PROVE Apart(n, treeCall[o]) /\ Apart(treeCall[o], n)
    <3>1. treeCall[o] \in Calls /\ treeCall[o].id \in 0..seeds BY ZenonT(60), InvFacts DEF CallOK
    <3> QED BY SMTT(60), <1>2, <1>3, <1>4, <3>1, FreeApart
  <2> QED BY ZenonT(60), <2>1 DEF FitsOthers
<1> QED BY ZenonT(60), <1>3, <1>6, <1>8, <1>9, CallStep

LEMMA NewEntryInv ==
    ASSUME TreeConstants, TreeInv, NEW m \in TreeMounts, NEW op \in {"mkdir", "symlink", "mknod"}, NewEntry(m, op)
    PROVE  TreeInv'
<1>1. PICK c \in Asked(m, op) : Opening(m, [Idle EXCEPT !.op = op, !.dir = c.dir, !.name = c.name])
  BY Zenon DEF NewEntry
<1>2. c.dir \in Nat /\ c.name \in Names BY ZenonT(60), <1>1, AskedFacts DEF NewPlace
<1>3. PICK n : n = [Idle EXCEPT !.op = op, !.dir = c.dir, !.name = c.name] OBVIOUS
<1>4. n \in Calls BY ZenonT(60), <1>2, <1>3, IdleFacts DEF Calls, Ops
<1>5. n.op = op /\ n.keys = {} /\ n.lock = {} BY ZenonT(60), <1>3 DEF Idle
<1> QED BY Zenon, <1>1, <1>3, <1>4, <1>5, OpeningInv DEF Creating

LEMMA LinkInv ==
    ASSUME TreeConstants, TreeInv, NEW m \in TreeMounts, link(m)
    PROVE  TreeInv'
<1>1. PICK c \in Asked(m, "link") : \E r \in At(c.dir, c.name) :
         Opening(m, [Idle EXCEPT !.op = "link", !.src = r, !.dir = c.newdir, !.name = c.newname])
  BY ZenonT(60) DEF link
<1>2. PICK r \in At(c.dir, c.name) :
         Opening(m, [Idle EXCEPT !.op = "link", !.src = r, !.dir = c.newdir, !.name = c.newname])
  BY Zenon, <1>1
<1>3. c.newdir \in Nat /\ c.newname \in Names BY ZenonT(60), <1>1, AskedFacts DEF NewPlace
<1>4. r \in SomeEntries /\ r # NoEntry BY ZenonT(60), <1>2, AtFacts
<1>5. PICK n : n = [Idle EXCEPT !.op = "link", !.src = r, !.dir = c.newdir, !.name = c.newname] BY ZenonT(60)
<1>6. n \in Calls BY ZenonT(60), <1>3, <1>4, <1>5, IdleFacts DEF Calls, Ops
<1>7. n.op = "link" /\ n.src = r /\ n.keys = {} /\ n.lock = {} BY ZenonT(60), <1>5 DEF Idle
<1> QED BY ZenonT(60), <1>2, <1>4, <1>5, <1>6, <1>7, OpeningInv DEF Creating

\* A call that has resolved its names holds nothing yet.
LEMMA ResolvedInv ==
    ASSUME TreeInv, NEW m \in TreeMounts, NEW n \in Calls, Step(m, n), n.pc = "resolved",
           n.id = 0, n.keys = {}, n.lock = {}, Renaming(n) \/ Removing(n),
           Renaming(n) => n.src.kind \in {"dir", "symlink", "file"} /\ n.tgt.kind \in {"none", "dir", "symlink"},
           Removing(n) => n.src.kind \in IF n.op = "rmdir" THEN {"dir"} ELSE {"symlink", "alias", "file"}
    PROVE  TreeInv'
<1>1. CallOK(n, Visible, seeds)
  <2>1. n.id \in 0..seeds BY InvFacts
  <2>2. Renaming(n) => RenameOK(n, Visible) BY ZenonT(60) DEF RenameOK
  <2>3. Removing(n) => RemoveOK(n, Visible) BY ZenonT(60) DEF RemoveOK
  <2>4. ~Creating(n) BY ZenonT(60) DEF Creating, Renaming, Removing
  <2> QED BY ZenonT(60), <2>1, <2>2, <2>3, <2>4 DEF CallOK
<1>2. FitsOthers(m, n) BY ZenonT(60), InvFacts, FreeApart DEF FitsOthers
<1> QED BY ZenonT(60), <1>1, <1>2, StepInv

LEMMA NamedInv ==
    ASSUME TreeInv, NEW m \in TreeMounts, NEW op \in {"rmdir", "unlink"}, NEW kinds,
           kinds = IF op = "rmdir" THEN {"dir"} ELSE {"symlink", "alias", "file"}, Named(m, op, kinds)
    PROVE  TreeInv'
<1>1. PICK c \in Asked(m, op) : \E r \in At(c.dir, c.name) :
         r.kind \in kinds /\ Step(m, [Idle EXCEPT !.pc = "resolved", !.op = op, !.src = r])
  BY Zenon DEF Named
<1>2. PICK r \in At(c.dir, c.name) :
         r.kind \in kinds /\ Step(m, [Idle EXCEPT !.pc = "resolved", !.op = op, !.src = r])
  BY Zenon, <1>1
<1>3. r \in SomeEntries BY ZenonT(60), <1>2, AtFacts
<1>4. PICK n : n = [Idle EXCEPT !.pc = "resolved", !.op = op, !.src = r] OBVIOUS
<1>5. n \in Calls BY ZenonT(60), <1>3, <1>4, IdleFacts DEF Calls, Ops
<1>6. n.pc = "resolved" /\ n.op = op /\ n.src = r /\ n.id = 0 /\ n.keys = {} /\ n.lock = {} BY ZenonT(60), <1>4 DEF Idle
<1> QED BY ZenonT(60), <1>2, <1>4, <1>5, <1>6, ResolvedInv DEF Renaming, Removing

LEMMA RenameResolveInv ==
    ASSUME TreeConstants, TreeInv, NEW m \in TreeMounts, rename(m)
    PROVE  TreeInv'
<1> DEFINE Next(c, r, t) == [Idle EXCEPT !.pc = "resolved", !.op = c.op, !.src = r, !.tgt = t,
                                         !.dir = c.newdir, !.name = c.newname]
<1>1. PICK c \in Asked(m, "rename") \cup Asked(m, "noreplace") : \E r \in At(c.dir, c.name) :
         /\ r.kind \in {"dir", "symlink", "file"}
         /\ \E t \in ExpectedTarget(c, r) : Step(m, Next(c, r, t))
  BY ZenonT(60) DEF rename
<1>2. PICK r \in At(c.dir, c.name) :
         r.kind \in {"dir", "symlink", "file"} /\ \E t \in ExpectedTarget(c, r) : Step(m, Next(c, r, t))
  BY ZenonT(60), <1>1
<1>3. PICK t \in ExpectedTarget(c, r) : Step(m, Next(c, r, t)) BY Zenon, <1>2
<1>4. c.op \in {"rename", "noreplace"} /\ c.newdir \in Nat /\ c.newname \in Names BY ZenonT(60), <1>1, AskedFacts DEF NewPlace
<1>5. r \in SomeEntries BY ZenonT(60), <1>2, AtFacts
<1>6. t \in SomeEntries /\ t.kind \in {"none", "dir", "symlink"}
  <2>1. CASE t = NoEntry BY ZenonT(60), <2>1 DEF SomeEntries, NoEntry, Entry
  <2>2. CASE t # NoEntry
    <3>1. t \in At(c.newdir, c.newname) /\ t.kind \in {"dir", "symlink"} BY ZenonT(60), <1>3, <2>2 DEF ExpectedTarget
    <3> QED BY ZenonT(60), <3>1, AtFacts
  <2> QED BY ZenonT(60), <2>1, <2>2
<1>7. PICK n : n = Next(c, r, t) OBVIOUS
<1>8. n \in Calls BY Zenon, <1>4, <1>5, <1>6, <1>7, IdleFacts DEF Calls, Ops
<1>9. n.pc = "resolved" /\ n.op = c.op /\ n.src = r /\ n.tgt = t /\ n.id = 0 /\ n.keys = {} /\ n.lock = {}
  BY ZenonT(60), <1>7 DEF Idle
<1> QED BY ZenonT(60), <1>2, <1>3, <1>4, <1>6, <1>7, <1>8, <1>9, ResolvedInv DEF Renaming, Removing

-----------------------------------------------------------------------------
\* The transaction: the same call, with what it holds.

Same(c, n) ==
    /\ n.op = c.op /\ n.src = c.src /\ n.tgt = c.tgt /\ n.dir = c.dir /\ n.name = c.name /\ n.id = c.id

Keyed(c, K) == [c EXCEPT !.keys = K]
Holding(c, K, L) == [c EXCEPT !.keys = K, !.lock = L]
Goes(c, p) == [c EXCEPT !.pc = p]
Checked(c) == [c EXCEPT !.pc = "checked", !.share = {c.dir}]
Detaching(c, D) == [c EXCEPT !.pc = "checked", !.detached = D]
Locking(c, L) == [c EXCEPT !.pc = "locked", !.lock = L]
Restarted(c) == [c EXCEPT !.pc = "resolved", !.keys = {}, !.share = {}, !.lock = {}, !.lost = TRUE]

LEMMA KeyedFacts ==
    ASSUME NEW c \in Calls, NEW K \in SUBSET Keys
    PROVE  /\ Keyed(c, K) \in Calls /\ Same(c, Keyed(c, K)) /\ Keyed(c, K).pc = c.pc
           /\ Keyed(c, K).keys = K /\ Keyed(c, K).lock = c.lock
<1>1. Keyed(c, K) \in Calls BY Zenon DEF Calls, Keyed
<1>2. Same(c, Keyed(c, K)) /\ Keyed(c, K).pc = c.pc /\ Keyed(c, K).keys = K /\ Keyed(c, K).lock = c.lock
  BY ZenonT(60) DEF Calls, Keyed, Same
<1> QED BY ZenonT(60), <1>1, <1>2

LEMMA HoldingFacts ==
    ASSUME NEW c \in Calls, NEW K \in SUBSET Keys, NEW L \in SUBSET Nat
    PROVE  /\ Holding(c, K, L) \in Calls /\ Same(c, Holding(c, K, L)) /\ Holding(c, K, L).pc = c.pc
           /\ Holding(c, K, L).keys = K /\ Holding(c, K, L).lock = L
<1>1. Holding(c, K, L) \in Calls BY Zenon DEF Calls, Holding
<1>2. /\ Same(c, Holding(c, K, L)) /\ Holding(c, K, L).pc = c.pc
      /\ Holding(c, K, L).keys = K /\ Holding(c, K, L).lock = L
  BY ZenonT(60) DEF Calls, Holding, Same
<1> QED BY ZenonT(60), <1>1, <1>2

LEMMA GoesFacts ==
    ASSUME NEW c \in Calls, NEW p \in {"idle", "resolved", "checked", "locked"}
    PROVE  /\ Goes(c, p) \in Calls /\ Same(c, Goes(c, p)) /\ Goes(c, p).pc = p
           /\ Goes(c, p).keys = c.keys /\ Goes(c, p).lock = c.lock
<1>1. Goes(c, p) \in Calls BY Zenon DEF Calls, Goes
<1>2. Same(c, Goes(c, p)) /\ Goes(c, p).pc = p /\ Goes(c, p).keys = c.keys /\ Goes(c, p).lock = c.lock
  BY ZenonT(60) DEF Calls, Goes, Same
<1> QED BY ZenonT(60), <1>1, <1>2

LEMMA CheckedFacts ==
    ASSUME NEW c \in Calls
    PROVE  /\ Checked(c) \in Calls /\ Same(c, Checked(c)) /\ Checked(c).pc = "checked"
           /\ Checked(c).keys = c.keys /\ Checked(c).lock = c.lock /\ Checked(c).share = {c.dir}
<1>1. PICK S : S = {c.dir} BY Zenon
<1>2. S \in SUBSET Nat BY ZenonT(60), <1>1, CallFacts
<1>3. Checked(c) = [c EXCEPT !.pc = "checked", !.share = S] BY ZenonT(60), <1>1 DEF Checked
<1>4. Checked(c) \in Calls BY <1>2, <1>3, Zenon DEF Calls
<1>5. /\ Same(c, Checked(c)) /\ Checked(c).pc = "checked"
      /\ Checked(c).keys = c.keys /\ Checked(c).lock = c.lock /\ Checked(c).share = {c.dir}
  BY ZenonT(60) DEF Calls, Checked, Same
<1> QED BY ZenonT(60), <1>4, <1>5

LEMMA DetachingFacts ==
    ASSUME NEW c \in Calls, NEW D \in SUBSET Nat
    PROVE  /\ Detaching(c, D) \in Calls /\ Same(c, Detaching(c, D)) /\ Detaching(c, D).pc = "checked"
           /\ Detaching(c, D).keys = c.keys /\ Detaching(c, D).lock = c.lock
<1>1. Detaching(c, D) \in Calls BY Zenon DEF Calls, Detaching
<1>2. /\ Same(c, Detaching(c, D)) /\ Detaching(c, D).pc = "checked"
      /\ Detaching(c, D).keys = c.keys /\ Detaching(c, D).lock = c.lock
  BY ZenonT(60) DEF Calls, Detaching, Same
<1> QED BY ZenonT(60), <1>1, <1>2

LEMMA LockingFacts ==
    ASSUME NEW c \in Calls, NEW L \in SUBSET Nat
    PROVE  /\ Locking(c, L) \in Calls /\ Same(c, Locking(c, L)) /\ Locking(c, L).pc = "locked"
           /\ Locking(c, L).keys = c.keys /\ Locking(c, L).lock = L
<1>1. Locking(c, L) \in Calls BY Zenon DEF Calls, Locking
<1>2. /\ Same(c, Locking(c, L)) /\ Locking(c, L).pc = "locked"
      /\ Locking(c, L).keys = c.keys /\ Locking(c, L).lock = L
  BY ZenonT(60) DEF Calls, Locking, Same
<1> QED BY ZenonT(60), <1>1, <1>2

LEMMA RestartedFacts ==
    ASSUME NEW c \in Calls
    PROVE  /\ Restarted(c) \in Calls /\ Same(c, Restarted(c)) /\ Restarted(c).pc = "resolved"
           /\ Restarted(c).keys = {} /\ Restarted(c).lock = {}
<1>1. {} \in SUBSET Keys /\ {} \in SUBSET Nat /\ TRUE \in BOOLEAN OBVIOUS
<1>2. Restarted(c) \in Calls BY <1>1, Zenon DEF Calls, Restarted
<1>3. Same(c, Restarted(c)) /\ Restarted(c).pc = "resolved" /\ Restarted(c).keys = {} /\ Restarted(c).lock = {}
  BY ZenonT(60) DEF Calls, Restarted, Same
<1> QED BY ZenonT(60), <1>2, <1>3

LEMMA KeyFacts ==
    ASSUME NEW c \in Calls
    PROVE  /\ Key(c.dir, c.name) \in Keys /\ Key(c.src.parent, c.src.name) \in Keys
           /\ c.src.of \in Nat /\ c.src.id \in Nat /\ c.tgt.of \in Nat
<1>1. "none" \in Names BY ZenonT(60) DEF Names
<1>2. ASSUME NEW r \in SomeEntries PROVE r.parent \in Nat /\ r.name \in Names /\ r.of \in Nat /\ r.id \in Nat
  BY SMTT(60), <1>1, EntryFacts DEF SomeEntries, NoEntry, Entry
<1> QED BY <1>2, CallFacts DEF Keys, Key

\* New keys and locks are nobody else's.
LEMMA HoldFits ==
    ASSUME TreeInv, NEW m \in TreeMounts, NEW n \in Calls, n.id = treeCall[m].id,
           KeysFree(m, n.keys), \A l \in n.lock \ treeCall[m].lock : Unlocked(m, l),
           Filling(n) => Unlocked(m, n.dir), Emptied(n) => Unshared(m, n.src.id)
    PROVE  FitsOthers(m, n)
<1> SUFFICES ASSUME NEW o \in TreeMounts \ {m}
             PROVE  Apart(n, treeCall[o]) /\ Apart(treeCall[o], n)
  BY ZenonT(60) DEF FitsOthers
<1>1. PICK d : d = treeCall[o] BY ZenonT(60)
<1>2. d \in Calls /\ CallOK(d, Visible, seeds) /\ Apart(treeCall[m], d) /\ Apart(d, treeCall[m])
  BY ZenonT(60), <1>1, InvFacts
<1>3. n.keys \cap d.keys = {} BY ZenonT(60), <1>1 DEF KeysFree
<1>4. n.lock \cap d.lock = {} BY ZenonT(60), <1>1, <1>2 DEF Unlocked, Apart
<1>5. ASSUME Emptied(n), Filling(d) PROVE d.dir # n.src.id
  <2>1. d.dir \in d.share BY ZenonT(60), <1>2, <1>5 DEF CallOK, CreateOK, Filling
  <2> QED BY ZenonT(60), <1>1, <1>5, <2>1 DEF Unshared
<1>6. ASSUME Emptied(d), Filling(n) PROVE n.dir # d.src.id
  <2>1. d.src.id \in d.lock BY ZenonT(60), <1>2, <1>6 DEF CallOK, RemoveOK, Emptied, Removing
  <2> QED BY ZenonT(60), <1>1, <1>6, <2>1 DEF Unlocked
<1> QED BY ZenonT(60), <1>1, <1>2, <1>3, <1>4, <1>5, <1>6 DEF Apart

LEMMA AtIsHere == \A d, n : At(d, n) = Here(Visible, d, n) /\ Children(d) = In(Visible, d)
BY ZenonT(60) DEF At, Here, Children, In

\* A creation that finds its name free keeps the key of the name and shares the parent.
LEMMA VacantInv ==
    ASSUME TreeInv, NEW m \in TreeMounts, NEW c \in Calls, Same(treeCall[m], c), c.pc = "resolved",
           treeCall[m].pc = "resolved", Creating(c), Key(c.dir, c.name) \in c.keys,
           KeysFree(m, c.keys), Unlocked(m, c.dir), \A l \in c.lock \ treeCall[m].lock : Unlocked(m, l),
           require_namespace_vacant(m, c)
    PROVE  TreeInv'
<1>1. CASE At(c.dir, c.name) = {} /\ Step(m, Checked(c))
  <2>1. PICK n : n = Checked(c) OBVIOUS
  <2>2. /\ n \in Calls /\ Same(c, n) /\ n.pc = "checked" /\ n.keys = c.keys /\ n.lock = c.lock /\ n.share = {c.dir}
    BY ZenonT(60), <2>1, CheckedFacts
  <2>3. CreateOK(treeCall[m], Visible, seeds) /\ treeCall[m].id \in 0..seeds
    BY ZenonT(60), InvFacts DEF CallOK, Same, Creating
  <2>4. Here(Visible, n.dir, n.name) = {} BY ZenonT(60), <1>1, <2>2, AtIsHere DEF Same
  <2>5. CreateOK(n, Visible, seeds) BY ZenonT(60), <2>2, <2>3, <2>4 DEF CreateOK, Same
  <2>6. CallOK(n, Visible, seeds) BY ZenonT(60), <2>2, <2>3, <2>5 DEF CallOK, Same, Creating, Renaming, Removing
  <2>7. FitsOthers(m, n) BY ZenonT(60), <2>2, HoldFits DEF Same, Creating, Emptied
  <2> QED BY ZenonT(60), <1>1, <2>1, <2>2, <2>6, <2>7, StepInv
<1>2. CASE \E answer : Refuse(m, answer) BY ZenonT(60), <1>2, RefuseInv
<1> QED BY ZenonT(60), <1>1, <1>2 DEF require_namespace_vacant, Checked

LEMMA CreateBeginInv ==
    ASSUME TreeInv, NEW m \in TreeMounts, NEW op \in {"mkdir", "symlink", "mknod"}, CreateBegin(m, op)
    PROVE  TreeInv'
<1>1. PICK K : K = {Key(treeCall[m].dir, treeCall[m].name)} BY ZenonT(60)
<1>2. PICK c : c = Keyed(treeCall[m], K) OBVIOUS
<1>3. c.pc = "resolved" /\ c.op = op /\ KeysFree(m, c.keys) /\ Unlocked(m, c.dir) /\ require_namespace_vacant(m, c)
  BY ZenonT(60), <1>1, <1>2 DEF CreateBegin, Keyed
<1>4. treeCall[m] \in Calls BY ZenonT(60), InvFacts
<1>5. K \in SUBSET Keys BY ZenonT(60), <1>1, <1>4, KeyFacts
<1>6. c \in Calls /\ Same(treeCall[m], c) /\ c.pc = treeCall[m].pc /\ c.keys = K /\ c.lock = treeCall[m].lock
  BY ZenonT(60), <1>2, <1>4, <1>5, KeyedFacts
<1>7. Key(c.dir, c.name) \in c.keys BY ZenonT(60), <1>1, <1>6 DEF Same
<1> QED BY ZenonT(60), <1>3, <1>6, <1>7, VacantInv DEF Creating

LEMMA LinkBeginInv ==
    ASSUME TreeInv, NEW m \in TreeMounts, create_symlink_hardlink_internal(m)
    PROVE  TreeInv'
<1>1. PICK K : K = {Key(treeCall[m].dir, treeCall[m].name), Key(treeCall[m].src.parent, treeCall[m].src.name)} BY ZenonT(60)
<1>2. PICK L : L = {treeCall[m].src.of} BY ZenonT(60)
<1>3. PICK c : c = Holding(treeCall[m], K, L) OBVIOUS
<1>4. /\ c.pc = "resolved" /\ c.op = "link" /\ KeysFree(m, c.keys) /\ Unlocked(m, c.src.of) /\ Unlocked(m, c.dir)
      /\ Refuse(m, "missing") \/ require_namespace_vacant(m, c)
  BY ZenonT(60), <1>1, <1>2, <1>3 DEF create_symlink_hardlink_internal, Holding
<1>5. treeCall[m] \in Calls BY ZenonT(60), InvFacts
<1>6. K \in SUBSET Keys /\ L \in SUBSET Nat BY ZenonT(60), <1>1, <1>2, <1>5, KeyFacts
<1>7. c \in Calls /\ Same(treeCall[m], c) /\ c.pc = treeCall[m].pc /\ c.keys = K /\ c.lock = L
  BY SMTT(60), <1>3, <1>5, <1>6, HoldingFacts
<1>8. Key(c.dir, c.name) \in c.keys /\ \A l \in c.lock : Unlocked(m, l) BY ZenonT(60), <1>1, <1>2, <1>4, <1>7 DEF Same
<1>9. CASE Refuse(m, "missing") BY ZenonT(60), <1>9, RefuseInv
<1>10. CASE require_namespace_vacant(m, c) BY ZenonT(60), <1>4, <1>7, <1>8, <1>10, VacantInv DEF Creating
<1> QED BY ZenonT(60), <1>4, <1>9, <1>10

\* A removal keeps the key of its entry, and once it is locked what it has found.
LEMMA RemoveStepInv ==
    ASSUME TreeInv, NEW m \in TreeMounts, NEW n \in Calls, Same(treeCall[m], n), treeCall[m].pc # "idle",
           Removing(n), Step(m, n), NameKey(n.src) \in n.keys, KeysFree(m, n.keys),
           \A l \in n.lock \ treeCall[m].lock : Unlocked(m, l),
           n.pc = "locked" =>
              /\ n.src \in rows
              /\ n.src.kind \in {"symlink", "alias"} => n.src.of \in n.lock
              /\ n.op = "rmdir" => Children(n.src.id) = {} /\ n.src.id \in n.lock /\ Unshared(m, n.src.id)
    PROVE  TreeInv'
<1>1. RemoveOK(treeCall[m], Visible) /\ treeCall[m].id \in 0..seeds BY ZenonT(60), InvFacts DEF CallOK, Same, Removing
<1>2. n.src.kind \in IF n.op = "rmdir" THEN {"dir"} ELSE {"symlink", "alias", "file"} BY ZenonT(60), <1>1 DEF RemoveOK, Same
<1>3. n.pc = "locked" => n.src \in Visible BY ZenonT(60), <1>2 DEF Visible
<1>4. RemoveOK(n, Visible) BY ZenonT(60), <1>2, <1>3, AtIsHere DEF RemoveOK
<1>5. CallOK(n, Visible, seeds) BY ZenonT(60), <1>1, <1>4 DEF CallOK, Same, Creating, Renaming, Removing
<1>6. FitsOthers(m, n) BY ZenonT(60), HoldFits DEF Same, Removing, Creating, Filling, Emptied
<1> QED BY ZenonT(60), <1>5, <1>6, StepInv

LEMMA UnlinkSymlinkInv ==
    ASSUME TreeInv, NEW m \in TreeMounts, unlink_symlink_entry_internal(m)
    PROVE  TreeInv'
<1>1. PICK K : K = {Key(treeCall[m].src.parent, treeCall[m].src.name)} BY ZenonT(60)
<1>2. PICK L : L = {treeCall[m].src.of} BY Zenon
<1>3. PICK c : c = Holding(treeCall[m], K, L) OBVIOUS
<1>4. /\ c.pc = "resolved" /\ c.op = "unlink" /\ c.src.kind = "symlink" /\ KeysFree(m, c.keys) /\ Unlocked(m, c.src.of)
      /\ (c.src \in rows /\ Step(m, Goes(c, "locked"))) \/ Refuse(m, "missing")
  BY ZenonT(60), <1>1, <1>2, <1>3 DEF unlink_symlink_entry_internal, Holding, Goes
<1>5. treeCall[m] \in Calls BY ZenonT(60), InvFacts
<1>6. K \in SUBSET Keys /\ L \in SUBSET Nat BY ZenonT(60), <1>1, <1>2, <1>5, KeyFacts
<1>7. c \in Calls /\ Same(treeCall[m], c) /\ c.pc = treeCall[m].pc /\ c.keys = K /\ c.lock = L
  BY <1>3, <1>5, <1>6, HoldingFacts
<1>8. CASE Refuse(m, "missing") BY ZenonT(60), <1>8, RefuseInv
<1>9. CASE c.src \in rows /\ Step(m, Goes(c, "locked"))
  <2>1. PICK n : n = Goes(c, "locked") OBVIOUS
  <2>2. n \in Calls /\ Same(c, n) /\ n.pc = "locked" /\ n.keys = K /\ n.lock = L BY ZenonT(60), <1>7, <2>1, GoesFacts
  <2>3. Same(treeCall[m], n) /\ n.op = "unlink" /\ n.src = c.src BY ZenonT(60), <1>4, <1>7, <2>2 DEF Same
  <2>4. NameKey(n.src) \in n.keys /\ n.src.of \in n.lock /\ \A l \in n.lock : Unlocked(m, l)
    BY ZenonT(60), <1>1, <1>2, <1>4, <1>7, <2>2, <2>3 DEF NameKey, Same
  <2> QED BY ZenonT(60), <1>4, <1>7, <1>9, <2>1, <2>2, <2>3, <2>4, RemoveStepInv DEF Removing
<1> QED BY ZenonT(60), <1>4, <1>8, <1>9

\* The look at an alias, at a file or at a directory, under the key of its name.
LEMMA KeyStepInv ==
    ASSUME TreeInv, NEW m \in TreeMounts, NEW K, K = {Key(treeCall[m].src.parent, treeCall[m].src.name)},
           NEW c, c = Keyed(treeCall[m], K), c.pc = "resolved", Removing(c), KeysFree(m, c.keys),
           NEW n, n \in Calls, Same(c, n), n.keys = c.keys, n.lock = c.lock, n.pc \in {"checked", "locked"},
           n.pc = "locked" => n.src \in rows /\ n.src.kind = "file" /\ n.op = "unlink",
           Step(m, n)
    PROVE  TreeInv'
<1>1. treeCall[m] \in Calls BY ZenonT(60), InvFacts
<1>2. K \in SUBSET Keys BY ZenonT(60), <1>1, KeyFacts
<1>3. Same(treeCall[m], c) /\ c.pc = treeCall[m].pc /\ c.keys = K /\ c.lock = treeCall[m].lock
  BY ZenonT(60), <1>1, <1>2, KeyedFacts
<1>4. Same(treeCall[m], n) /\ Removing(n) BY ZenonT(60), <1>3 DEF Same, Removing
<1>5. NameKey(n.src) \in n.keys BY ZenonT(60), <1>3, <1>4 DEF NameKey, Same
<1> QED BY ZenonT(60), <1>3, <1>4, <1>5, RemoveStepInv

LEMMA UnlinkAliasInv ==
    ASSUME TreeInv, NEW m \in TreeMounts, unlink_symlink_hardlink_entry(m)
    PROVE  TreeInv'
<1>1. PICK K : K = {Key(treeCall[m].src.parent, treeCall[m].src.name)} BY Zenon
<1>2. PICK c : c = Keyed(treeCall[m], K) OBVIOUS
<1>3. /\ c.pc = "resolved" /\ c.op = "unlink" /\ KeysFree(m, c.keys)
      /\ Step(m, Goes(c, "checked")) \/ Refuse(m, "missing")
  BY ZenonT(60), <1>1, <1>2 DEF unlink_symlink_hardlink_entry, Keyed, Goes
<1>4. c \in Calls BY SMTT(60), <1>1, <1>2, InvFacts, KeyFacts, KeyedFacts
<1>5. CASE Refuse(m, "missing") BY ZenonT(60), <1>5, RefuseInv
<1>6. CASE Step(m, Goes(c, "checked"))
  <2>1. PICK n : n = Goes(c, "checked") OBVIOUS
  <2>2. n \in Calls /\ Same(c, n) /\ n.pc = "checked" /\ n.keys = c.keys /\ n.lock = c.lock BY ZenonT(60), <1>4, <2>1, GoesFacts
  <2> QED BY ZenonT(60), <1>1, <1>2, <1>3, <1>6, <2>1, <2>2, KeyStepInv DEF Removing
<1> QED BY ZenonT(60), <1>3, <1>5, <1>6

LEMMA UnlinkFileInv ==
    ASSUME TreeInv, NEW m \in TreeMounts, UnlinkOpenFile(m)
    PROVE  TreeInv'
<1>1. PICK K : K = {Key(treeCall[m].src.parent, treeCall[m].src.name)} BY Zenon
<1>2. PICK c : c = Keyed(treeCall[m], K) OBVIOUS
<1>3. /\ c.pc = "resolved" /\ c.op = "unlink" /\ c.src.kind = "file" /\ KeysFree(m, c.keys)
      /\ (c.src \in rows /\ Step(m, Goes(c, "locked"))) \/ Refuse(m, "missing")
  BY ZenonT(60), <1>1, <1>2 DEF UnlinkOpenFile, Keyed, Goes
<1>4. c \in Calls BY <1>1, <1>2, InvFacts, KeyFacts, KeyedFacts
<1>5. CASE Refuse(m, "missing") BY ZenonT(60), <1>5, RefuseInv
<1>6. CASE c.src \in rows /\ Step(m, Goes(c, "locked"))
  <2>1. PICK n : n = Goes(c, "locked") OBVIOUS
  <2>2. n \in Calls /\ Same(c, n) /\ n.pc = "locked" /\ n.keys = c.keys /\ n.lock = c.lock BY ZenonT(60), <1>4, <2>1, GoesFacts
  <2>3. n.src \in rows /\ n.src.kind = "file" /\ n.op = "unlink" BY ZenonT(60), <1>3, <1>6, <2>2 DEF Same
  <2> QED BY ZenonT(60), <1>1, <1>2, <1>3, <1>6, <2>1, <2>2, <2>3, KeyStepInv DEF Removing
<1> QED BY ZenonT(60), <1>3, <1>5, <1>6

LEMMA RmdirBeginInv ==
    ASSUME TreeInv, NEW m \in TreeMounts, unlink_directory_entry_internal(m)
    PROVE  TreeInv'
<1>1. PICK K : K = {Key(treeCall[m].src.parent, treeCall[m].src.name)} BY Zenon
<1>2. PICK c : c = Keyed(treeCall[m], K) OBVIOUS
<1>3. PICK D : D = {r.id : r \in Referencing(c.src.id)} BY ZenonT(60)
<1>4. /\ c.pc = "resolved" /\ c.op = "rmdir" /\ KeysFree(m, c.keys)
      /\ Step(m, Detaching(c, D)) \/ \E answer : Refuse(m, answer)
  BY ZenonT(60), <1>1, <1>2, <1>3 DEF unlink_directory_entry_internal, Keyed, Detaching
<1>5. c \in Calls BY <1>1, <1>2, InvFacts, KeyFacts, KeyedFacts
<1>6. D \in SUBSET Nat BY ZenonT(60), <1>3, InvFacts, EntryFacts DEF Referencing
<1>7. CASE \E answer : Refuse(m, answer) BY ZenonT(60), <1>7, RefuseInv
<1>8. CASE Step(m, Detaching(c, D))
  <2>1. PICK n : n = Detaching(c, D) OBVIOUS
  <2>2. n \in Calls /\ Same(c, n) /\ n.pc = "checked" /\ n.keys = c.keys /\ n.lock = c.lock
    BY ZenonT(60), <1>5, <1>6, <2>1, DetachingFacts
  <2> QED BY ZenonT(60), <1>1, <1>2, <1>4, <1>8, <2>1, <2>2, KeyStepInv DEF Removing
<1> QED BY ZenonT(60), <1>4, <1>7, <1>8

\* The row lock of a symlink, or of the directory.
LEMMA LockStepInv ==
    ASSUME TreeInv, NEW m \in TreeMounts, NEW c, c = treeCall[m], c.pc = "checked", Removing(c),
           NEW l \in Nat, Unlocked(m, l), NEW n, n = Locking(c, {l}), Step(m, n), c.src \in rows,
           c.src.kind \in {"symlink", "alias"} => l = c.src.of,
           c.op = "rmdir" => l = c.src.id /\ Children(c.src.id) = {} /\ Unshared(m, c.src.id)
    PROVE  TreeInv'
<1>1. c \in Calls /\ RemoveOK(c, Visible) BY ZenonT(60), InvFacts DEF CallOK
<1>2. {l} \in SUBSET Nat BY ZenonT(60)
<1>3. n \in Calls /\ Same(c, n) /\ n.pc = "locked" /\ n.keys = c.keys /\ n.lock = {l} BY ZenonT(60), <1>1, <1>2, LockingFacts
<1>4. KeysFree(m, n.keys) BY ZenonT(60), <1>3, KeysKept
<1>5. NameKey(n.src) \in n.keys BY ZenonT(60), <1>1, <1>3 DEF RemoveOK, Same
<1>6. Removing(n) /\ n.src = c.src /\ n.op = c.op BY ZenonT(60), <1>3 DEF Same, Removing
<1> QED BY ZenonT(60), <1>3, <1>4, <1>5, <1>6, RemoveStepInv

LEMMA AliasLockInv ==
    ASSUME TreeInv, NEW m \in TreeMounts, AliasLock(m)
    PROVE  TreeInv'
<1>1. PICK c : c = treeCall[m] OBVIOUS
<1>2. /\ c.pc = "checked" /\ c.op = "unlink" /\ c.src.kind = "alias" /\ Unlocked(m, c.src.of)
      /\ (c.src \in rows /\ Step(m, Locking(c, {c.src.of}))) \/ Refuse(m, "missing")
  BY ZenonT(60), <1>1 DEF AliasLock, Locking
<1>3. c.src.of \in Nat BY ZenonT(60), <1>1, InvFacts, KeyFacts
<1>4. CASE Refuse(m, "missing") BY ZenonT(60), <1>4, RefuseInv
<1>5. CASE c.src \in rows /\ Step(m, Locking(c, {c.src.of})) BY ZenonT(60), <1>1, <1>2, <1>3, <1>5, LockStepInv DEF Removing
<1> QED BY ZenonT(60), <1>2, <1>4, <1>5

LEMMA RmdirLockInv ==
    ASSUME TreeInv, NEW m \in TreeMounts, RmdirLock(m)
    PROVE  TreeInv'
<1>1. PICK c : c = treeCall[m] OBVIOUS
<1>2. /\ c.pc = "checked" /\ c.op = "rmdir" /\ Unshared(m, c.src.id) /\ Unlocked(m, c.src.id)
      /\ \/ c.src \in rows /\ Children(c.src.id) = {} /\ Step(m, Locking(c, {c.src.id}))
         \/ \E answer : Refuse(m, answer)
  BY ZenonT(60), <1>1 DEF RmdirLock, Locking
<1>3. c.src.id \in Nat /\ c.src.kind = "dir"
  BY ZenonT(60), <1>1, <1>2, InvFacts, KeyFacts DEF CallOK, RemoveOK, Removing
<1>4. CASE \E answer : Refuse(m, answer) BY ZenonT(60), <1>4, RefuseInv
<1>5. CASE c.src \in rows /\ Children(c.src.id) = {} /\ Step(m, Locking(c, {c.src.id}))
  BY ZenonT(60), <1>1, <1>2, <1>3, <1>5, LockStepInv DEF Removing
<1> QED BY ZenonT(60), <1>2, <1>4, <1>5

LEMMA OutcomeFacts ==
    ASSUME NEW m, NEW c, Outcome(m, c) = "proceed"
    PROVE  KeysFree(m, c.keys) /\ c.src \in rows /\ TargetMatches(c) /\ c.src.of # c.tgt.of
<1>1. CASE RenameProbe(c) BY ZenonT(60), <1>1 DEF Outcome
<1>2. CASE ~RenameProbe(c) /\ ~KeysFree(m, c.keys) BY ZenonT(60), <1>2 DEF Outcome
<1>3. CASE ~RenameProbe(c) /\ KeysFree(m, c.keys)
  <2>1. Outcome(m, c) =
           IF c.src \notin rows THEN "missing"
           ELSE IF c.op = "noreplace" /\ At(c.dir, c.name) # {} THEN "exists"
           ELSE IF ~TargetMatches(c) THEN "busy"
           ELSE IF ~NoCycle(c) THEN "cycle"
           ELSE IF c.src.of = c.tgt.of THEN "ok"
           ELSE IF c.tgt.kind = "dir" /\ Children(c.tgt.id) # {} THEN "notempty"
           ELSE "proceed"
    BY ZenonT(60), <1>3 DEF Outcome
  <2> QED BY ZenonT(60), <1>3, <2>1
<1> QED BY ZenonT(60), <1>1, <1>2, <1>3

LEMMA RenameBeginInv ==
    ASSUME TreeInv, NEW m \in TreeMounts, rename_namespace_replace(m)
    PROVE  TreeInv'
<1>1. PICK K : K = RenameKeys(treeCall[m]) BY ZenonT(60)
<1>2. PICK L : L = SymlinksOf(treeCall[m]) OBVIOUS
<1>3. PICK c : c = Holding(treeCall[m], K, L) OBVIOUS
<1>4. /\ c.pc = "resolved" /\ Renaming(c)
      /\ Outcome(m, c) \notin {"ok", "busy"} => \A s \in c.lock : Unlocked(m, s)
      /\ \/ Outcome(m, c) = "proceed" /\ Step(m, Goes(c, "locked"))
         \/ \E answer : Refuse(m, answer)
  BY ZenonT(60), <1>1, <1>2, <1>3 DEF rename_namespace_replace, Holding, Goes
<1>5. treeCall[m] \in Calls BY ZenonT(60), InvFacts
<1>6. K \in SUBSET Keys
  <2>1. ASSUME NEW r \in {treeCall[m].src, treeCall[m].tgt} PROVE Key(0 - r.of, "inode") \in Keys
    <3>1. r.of \in Nat BY ZenonT(60), <1>5, KeyFacts
    <3>2. PICK i : i = 0 - r.of OBVIOUS
    <3>3. i \in Int BY <3>1, <3>2
    <3>4. <<i, "inode">> \in Int \X (Names \cup {"inode"}) BY ZenonT(60), <3>3
    <3> QED BY ZenonT(60), <3>2, <3>4 DEF Keys, Key
  <2> QED BY ZenonT(60), <1>1, <1>5, <2>1, KeyFacts DEF RenameKeys
<1>7. L \in SUBSET Nat BY ZenonT(60), <1>2, <1>5, KeyFacts DEF SymlinksOf
<1>8. c \in Calls /\ Same(treeCall[m], c) /\ c.pc = treeCall[m].pc /\ c.keys = K /\ c.lock = L
  BY <1>3, <1>5, <1>6, <1>7, HoldingFacts
<1>9. CASE \E answer : Refuse(m, answer) BY ZenonT(60), <1>9, RefuseInv
<1>10. CASE Outcome(m, c) = "proceed" /\ Step(m, Goes(c, "locked"))
  <2>1. PICK n : n = Goes(c, "locked") OBVIOUS
  <2>2. n \in Calls /\ Same(c, n) /\ n.pc = "locked" /\ n.keys = K /\ n.lock = L BY ZenonT(60), <1>8, <2>1, GoesFacts
  <2>3. /\ n.op = c.op /\ n.src = c.src /\ n.tgt = c.tgt /\ n.dir = c.dir /\ n.name = c.name
        /\ n.src = treeCall[m].src /\ n.tgt = treeCall[m].tgt /\ n.dir = treeCall[m].dir
        /\ n.name = treeCall[m].name /\ n.id = treeCall[m].id /\ n.op = treeCall[m].op
    BY ZenonT(60), <1>8, <2>2 DEF Same
  <2>4. KeysFree(m, n.keys) /\ n.src \in rows /\ TargetMatches(c) /\ n.src.of # n.tgt.of
    BY ZenonT(60), <1>8, <1>10, <2>2, <2>3, OutcomeFacts
  <2>5. \A l \in n.lock : Unlocked(m, l) BY ZenonT(60), <1>4, <1>8, <1>10, <2>2
  <2>6. RenameOK(treeCall[m], Visible) /\ treeCall[m].id \in 0..seeds
    BY ZenonT(60), <1>4, <1>8, InvFacts DEF CallOK, Same, Renaming
  <2>7. n.src.kind \in {"dir", "symlink", "file"} /\ n.tgt.kind \in {"none", "dir", "symlink"}
    BY ZenonT(60), <2>3, <2>6 DEF RenameOK
  <2>8. n.src \in Visible BY ZenonT(60), <2>4, <2>7 DEF Visible
  <2>9. Here(Visible, n.dir, n.name) = {n.tgt} \ {NoEntry} BY ZenonT(60), <2>3, <2>4, AtIsHere DEF TargetMatches
  <2>10. NameKey(n.src) \in n.keys /\ Key(n.dir, n.name) \in n.keys
    BY ZenonT(60), <1>1, <2>2, <2>3 DEF RenameKeys, NameKey
  <2>11. SymlinksOf(n) \subseteq n.lock BY ZenonT(60), <1>2, <2>2, <2>3 DEF SymlinksOf
  <2>12. RenameOK(n, Visible) BY ZenonT(60), <2>4, <2>7, <2>8, <2>9, <2>10, <2>11 DEF RenameOK
  <2>13. Renaming(n) BY ZenonT(60), <1>4, <2>3 DEF Renaming
  <2>14. CallOK(n, Visible, seeds) BY ZenonT(60), <2>3, <2>6, <2>12, <2>13 DEF CallOK, Creating, Renaming, Removing
  <2>15. FitsOthers(m, n) BY ZenonT(60), <2>2, <2>3, <2>4, <2>5, <2>13, HoldFits DEF Renaming, Filling, Emptied
  <2> QED BY ZenonT(60), <1>10, <2>1, <2>2, <2>14, <2>15, StepInv
<1> QED BY ZenonT(60), <1>4, <1>9, <1>10

-----------------------------------------------------------------------------
\* The change and its COMMIT.

LEMMA ReadyFacts ==
    ASSUME TreeInv, NEW m \in TreeMounts, NEW c, c = treeCall[m], Ready(m)
    PROVE  \/ Creating(c) /\ c.pc = "checked"
           \/ Renaming(c) /\ c.pc = "locked" /\ Unlocked(m, c.dir)
           \/ Removing(c) /\ c.pc = "locked" /\ (c.op = "rmdir" => InTheWay(c) = {})
<1>1. c.op \in Ops BY ZenonT(60), InvFacts, CallFacts
<1>2. CASE Creating(c) BY ZenonT(60), <1>2 DEF Ready, Creating, Renaming
<1>3. CASE Renaming(c) BY Zenon, <1>3 DEF Ready, Renaming, RenameWaits
<1>4. CASE Removing(c) BY Zenon, <1>4 DEF Ready, Renaming, Removing
<1>5. CASE c.op = "none" BY ZenonT(60), <1>5 DEF Ready, Renaming
<1> QED BY ZenonT(60), <1>1, <1>2, <1>3, <1>4, <1>5 DEF Ops, Creating, Renaming, Removing

LEMMA AppliedFacts ==
    ASSUME TreeInv, NEW m \in TreeMounts, NEW c, c = treeCall[m], Ready(m), Applied(c)
    PROVE  /\ rows' \subseteq Entries /\ Change(c, Visible, Visible') /\ RowsSound(Visible', names', seeds)
           /\ Creating(c) => \A r \in Visible' : r \in Visible \/ NameKey(r) = Key(c.dir, c.name)
<1>1. CASE Creating(c)
  <2>1. Inserted(c) /\ c.pc = "checked" BY Zenon, <1>1, ReadyFacts DEF Applied, Creating, Renaming, Removing
  <2> QED BY ZenonT(60), <1>1, <2>1, InsertCommit
<1>2. CASE Renaming(c)
  <2>1. Moved(c) /\ c.pc = "locked" BY ZenonT(60), <1>2, ReadyFacts DEF Applied, Creating, Renaming, Removing
  <2> QED BY ZenonT(60), <1>2, <2>1, RenameCommit DEF Creating, Renaming
<1>3. CASE Removing(c)
  <2>1. Removed(c) /\ c.pc = "locked" /\ (c.op = "rmdir" => InTheWay(c) = {})
    BY ZenonT(60), <1>3, ReadyFacts DEF Applied, Creating, Renaming, Removing
  <2> QED BY ZenonT(60), <1>3, <2>1, RemoveCommit DEF Creating, Removing
<1> QED BY Zenon, <1>1, <1>2, <1>3, ReadyFacts

\* What the others have made sure of survives the change.
LEMMA OthersOK ==
    ASSUME TreeInv, NEW m \in TreeMounts, NEW c, c = treeCall[m], Ready(m), Applied(c),
           NEW o \in TreeMounts \ {m}
    PROVE  CallOK(treeCall[o], Visible', seeds)
<1>1. PICK d : d = treeCall[o] OBVIOUS
<1>2. /\ c \in Calls /\ d \in Calls /\ Visible \in SUBSET Entries /\ seeds \in Nat
      /\ CallOK(d, Visible, seeds) /\ Apart(c, d) /\ Apart(d, c)
  BY ZenonT(60), <1>1, InvFacts
<1>3. ASSUME Emptied(d), ~Removing(c) PROVE c.dir # d.src.id
  <2>1. CASE Creating(c) /\ c.pc = "checked" BY ZenonT(60), <1>2, <1>3, <2>1 DEF Apart, Filling
  <2>2. CASE Unlocked(m, c.dir)
    <3>1. d.src.id \in d.lock BY ZenonT(60), <1>2, <1>3 DEF CallOK, RemoveOK, Emptied, Removing
    <3> QED BY ZenonT(60), <1>1, <2>2, <3>1 DEF Unlocked
  <2> QED BY ZenonT(60), <1>3, <2>1, <2>2, ReadyFacts
<1>4. PICK W : W = Visible' BY ZenonT(60)
<1>5. Change(c, Visible, W) BY ZenonT(60), <1>4, AppliedFacts
<1>6. CallOK(d, W, seeds) BY ZenonT(60), <1>2, <1>3, <1>5, Undisturbed
<1> QED BY ZenonT(60), <1>1, <1>4, <1>6

\* A step that changes the rows, or leaves them, and ends or restarts the call.
LEMMA CommitStep ==
    ASSUME TreeInv, NEW m \in TreeMounts, NEW c, c = treeCall[m], NEW n \in Calls,
           treeCall' = [treeCall EXCEPT ![m] = n], UNCHANGED <<tree, seeds>>,
           rows' \subseteq Entries, RowsSound(Visible', names', seeds),
           \A o \in TreeMounts \ {m} : CallOK(treeCall[o], Visible', seeds),
           CallOK(n, Visible', seeds), FitsOthers(m, n)
    PROVE  TreeInv'
<1>1. TreeMounts' = TreeMounts BY ZenonT(60) DEF TreeMounts
<1>2. treeCall \in [TreeMounts -> Calls] BY ZenonT(60) DEF TreeInv, TreeTypes
<1>3. treeCall'[m] = n /\ \A o \in TreeMounts \ {m} : treeCall'[o] = treeCall[o] BY ZenonT(60), <1>2
<1>4. TreeTypes'
  <2>1. treeCall' \in [TreeMounts -> Calls] BY ZenonT(60), <1>2
  <2> QED BY ZenonT(60), <1>1, <2>1 DEF TreeInv, TreeTypes
<1>5. ASSUME NEW o \in TreeMounts PROVE CallOK(treeCall'[o], Visible', seeds)
  BY ZenonT(60), <1>3
<1>6. ASSUME NEW o \in TreeMounts, NEW p \in TreeMounts, o # p PROVE Apart(treeCall'[o], treeCall'[p])
  BY ZenonT(60), <1>3, <1>6 DEF TreeInv, FitsOthers
<1> QED BY ZenonT(60), <1>1, <1>4, <1>5, <1>6 DEF TreeInv

LEMMA CommitInv ==
    ASSUME TreeInv, NEW m \in TreeMounts, TreeCommit(m)
    PROVE  TreeInv'
<1>1. PICK c : c = treeCall[m] OBVIOUS
<1>2. Ready(m) /\ Applied(c) /\ treeCall' = [treeCall EXCEPT ![m] = Idle] /\ UNCHANGED <<tree, seeds>>
  BY ZenonT(60), <1>1 DEF TreeCommit
<1>3. CallOK(Idle, Visible', seeds) BY ZenonT(60), InvFacts, IdleApart
<1>4. FitsOthers(m, Idle) BY ZenonT(60), InvFacts, IdleApart DEF FitsOthers
<1> QED BY ZenonT(60), <1>1, <1>2, <1>3, <1>4, AppliedFacts, OthersOK, IdleFacts, CommitStep

\* A replay starts with what the first attempt may have left.
LEMMA RestartOK ==
    ASSUME TreeInv, NEW m \in TreeMounts, NEW c, c = treeCall[m], Ready(m), Replayed(c.op),
           NEW W, Creating(c) => \A r \in W : r \in Visible \/ NameKey(r) = Key(c.dir, c.name)
    PROVE  CallOK(Restarted(c), W, seeds) /\ Restarted(c) \in Calls /\ FitsOthers(m, Restarted(c))
<1>1. c \in Calls /\ CallOK(c, Visible, seeds) /\ seeds \in Nat BY ZenonT(60), InvFacts
<1>2. PICK n : n = Restarted(c) BY ZenonT(60)
<1>3. n \in Calls /\ Same(c, n) /\ n.pc = "resolved" /\ n.keys = {} /\ n.lock = {} BY ZenonT(60), <1>1, <1>2, RestartedFacts
<1>4. (Creating(c) \/ Renaming(c)) /\ c.pc # "idle" BY ZenonT(60), ReadyFacts DEF Replayed, Removing
<1>5. CallOK(n, W, seeds)
  <2>1. CASE Creating(c)
    <3>1. CreateOK(c, Visible, seeds) BY ZenonT(60), <1>1, <1>4, <2>1 DEF CallOK
    <3>2. CreateOK(n, W, seeds) BY ZenonT(60), <1>3, <2>1, <3>1 DEF CreateOK, Same
    <3> QED BY ZenonT(60), <1>1, <1>3, <2>1, <3>2 DEF CallOK, Same, Creating, Renaming, Removing
  <2>2. CASE Renaming(c)
    <3>1. RenameOK(n, W) BY ZenonT(60), <1>1, <1>3, <1>4, <2>2 DEF CallOK, RenameOK, Same
    <3> QED BY ZenonT(60), <1>1, <1>3, <2>2, <3>1 DEF CallOK, Same, Creating, Renaming, Removing
  <2> QED BY ZenonT(60), <1>4, <2>1, <2>2
<1>6. FitsOthers(m, n)
  <2>1. ASSUME NEW o \in TreeMounts \ {m} PROVE Apart(n, treeCall[o]) /\ Apart(treeCall[o], n)
    <3>1. treeCall[o] \in Calls /\ Apart(c, treeCall[o]) BY ZenonT(60), InvFacts
    <3>2. n.id # 0 => n.id # treeCall[o].id BY ZenonT(60), <1>3, <3>1 DEF Same, Apart
    <3> QED BY ZenonT(60), <1>3, <3>1, <3>2, FreeApart
  <2> QED BY ZenonT(60), <2>1 DEF FitsOthers
<1> QED BY ZenonT(60), <1>2, <1>3, <1>5, <1>6

LEMMA LoseAnswerInv ==
    ASSUME TreeInv, NEW m \in TreeMounts, TreeLoseAnswer(m)
    PROVE  TreeInv'
<1>1. PICK c : c = treeCall[m] OBVIOUS
<1>2. /\ Ready(m) /\ UNCHANGED <<tree, seeds>>
      /\ Applied(c) \/ UNCHANGED <<rows, names>>
      /\ \/ Replayed(c.op) /\ treeCall' = [treeCall EXCEPT ![m] = Restarted(c)]
         \/ treeCall' = [treeCall EXCEPT ![m] = Idle]
  BY <1>1, Zenon DEF TreeLoseAnswer, Restarted
<1>3. /\ rows' \subseteq Entries /\ RowsSound(Visible', names', seeds)
      /\ \A o \in TreeMounts \ {m} : CallOK(treeCall[o], Visible', seeds)
      /\ Creating(c) => \A r \in Visible' : r \in Visible \/ NameKey(r) = Key(c.dir, c.name)
  <2>1. CASE Applied(c) BY ZenonT(60), <1>1, <1>2, <2>1, AppliedFacts, OthersOK
  <2>2. CASE UNCHANGED <<rows, names>>
    <3>1. Visible' = Visible /\ rows' = rows /\ names' = names BY ZenonT(60), <2>2 DEF Visible
    <3> QED BY ZenonT(60), <3>1, InvFacts
  <2> QED BY ZenonT(60), <1>2, <2>1, <2>2
<1>4. CASE Replayed(c.op) /\ treeCall' = [treeCall EXCEPT ![m] = Restarted(c)]
  <2>1. PICK W : W = Visible' BY ZenonT(60)
  <2>2. Creating(c) => \A r \in W : r \in Visible \/ NameKey(r) = Key(c.dir, c.name) BY ZenonT(60), <1>3, <2>1
  <2>3. CallOK(Restarted(c), W, seeds) /\ Restarted(c) \in Calls /\ FitsOthers(m, Restarted(c))
    BY ZenonT(60), <1>1, <1>2, <1>4, <2>2, RestartOK
  <2> QED BY ZenonT(60), <1>1, <1>2, <1>3, <1>4, <2>1, <2>3, CommitStep
<1>5. CASE treeCall' = [treeCall EXCEPT ![m] = Idle]
  <2>1. CallOK(Idle, Visible', seeds) BY ZenonT(60), InvFacts, IdleApart
  <2>2. FitsOthers(m, Idle) BY ZenonT(60), InvFacts, IdleApart DEF FitsOthers
  <2> QED BY ZenonT(60), <1>1, <1>2, <1>3, <1>5, <2>1, <2>2, IdleFacts, CommitStep
<1> QED BY ZenonT(60), <1>2, <1>4, <1>5

-----------------------------------------------------------------------------
LEMMA TreeInvInit == TreeConstants /\ TreeInit => TreeInv
<1> SUFFICES ASSUME TreeConstants, TreeInit PROVE TreeInv
  OBVIOUS
<1>1. tree \in Trees /\ rows = tree.rows /\ seeds = 0 BY ZenonT(60) DEF TreeInit
<1>2. rows \subseteq Entries BY ZenonT(60), <1>1 DEF TreeConstants
<1>3. treeCall \in [TreeMounts -> Calls] /\ \A m \in TreeMounts : treeCall[m] = Idle
  BY ZenonT(60), IdleFacts DEF TreeInit
<1>4. RowsSound(Visible, names, seeds)
  <2>1. {Name(r) : r \in Visible} = names BY ZenonT(60) DEF TreeInit, Visible
  <2>2. /\ \A r \in Visible : r.id <= 100 /\ (r.kind = "symlink" => r.of = r.id)
        /\ \A r, q \in Visible :
              \/ r.parent = q.parent /\ r.name = q.name
              \/ r.kind = "alias" /\ q.kind = "alias" /\ r.id = q.id
              => r = q
    BY ZenonT(60), <1>1 DEF TreeConstants, Visible
  <2>3. NewId(seeds) = 100 BY <1>1 DEF NewId
  <2> QED BY SMTT(60), <2>1, <2>2, <2>3 DEF RowsSound
<1>5. \A m \in TreeMounts : CallOK(treeCall[m], Visible, seeds) BY <1>1, <1>3, IdleApart, IdleFacts
<1>6. \A m, o \in TreeMounts : m # o => Apart(treeCall[m], treeCall[o]) BY ZenonT(60), <1>3, IdleApart, IdleFacts
<1> QED BY ZenonT(60), <1>1, <1>2, <1>3, <1>4, <1>5, <1>6 DEF TreeInv, TreeTypes

LEMMA TreeInvStutter == TreeInv /\ UNCHANGED treeVars => TreeInv'
<1> SUFFICES ASSUME TreeInv, UNCHANGED treeVars PROVE TreeInv'
  OBVIOUS
<1>1. TreeMounts' = TreeMounts /\ Visible' = Visible BY ZenonT(60) DEF treeVars, TreeMounts, Visible
<1> QED BY ZenonT(60), <1>1 DEF TreeInv, TreeTypes, treeVars

LEMMA TreeInvNext ==
    ASSUME TreeConstants, TreeInv, TreeNext PROVE TreeInv'
<1>1. PICK m \in TreeMounts : TreeStep(m) BY ZenonT(60) DEF TreeNext
<1>2. CASE mkdir(m) \/ symlink(m) \/ mknod(m) BY ZenonT(60), <1>2, NewEntryInv DEF mkdir, symlink, mknod
<1>3. CASE link(m) BY ZenonT(60), <1>3, LinkInv
<1>4. CASE rmdir(m) \/ unlink(m) BY ZenonT(60), <1>4, NamedInv DEF rmdir, unlink
<1>5. CASE rename(m) BY ZenonT(60), <1>5, RenameResolveInv
<1>6. CASE create_directory_internal(m) \/ create_symlink_internal(m) \/ create_special_file_internal(m)
  BY ZenonT(60), <1>6, CreateBeginInv DEF create_directory_internal, create_symlink_internal, create_special_file_internal
<1>7. CASE create_symlink_hardlink_internal(m) BY ZenonT(60), <1>7, LinkBeginInv
<1>8. CASE unlink_symlink_entry_internal(m) BY ZenonT(60), <1>8, UnlinkSymlinkInv
<1>9. CASE unlink_symlink_hardlink_entry(m) BY ZenonT(60), <1>9, UnlinkAliasInv
<1>10. CASE AliasLock(m) BY ZenonT(60), <1>10, AliasLockInv
<1>11. CASE UnlinkOpenFile(m) BY ZenonT(60), <1>11, UnlinkFileInv
<1>12. CASE unlink_directory_entry_internal(m) BY ZenonT(60), <1>12, RmdirBeginInv
<1>13. CASE RmdirLock(m) BY ZenonT(60), <1>13, RmdirLockInv
<1>14. CASE RmdirFails(m) \/ RenameFails(m) BY ZenonT(60), <1>14, RefuseInv DEF RmdirFails, RenameFails
<1>15. CASE rename_namespace_replace(m) BY ZenonT(60), <1>15, RenameBeginInv
<1>16. CASE TreeCommit(m) BY ZenonT(60), <1>16, CommitInv
<1>17. CASE TreeLoseAnswer(m) BY ZenonT(60), <1>17, LoseAnswerInv
<1> QED BY ZenonT(60), <1>1, <1>2, <1>3, <1>4, <1>5, <1>6, <1>7, <1>8, <1>9, <1>10, <1>11, <1>12, <1>13, <1>14, <1>15,
           <1>16, <1>17 DEF TreeStep

(* TreeInvariant: what a transaction found under its keys and locks is so until it       *)
(* commits, whatever other mounts commit, lose or replay meanwhile                       *)
(* (rename_namespace_replace, require_namespace_vacant, unlink_directory_entry_internal).*)
THEOREM TreeInvariant == TreeConstants => (TreeSpec => []TreeInv)
<1> SUFFICES ASSUME TreeConstants PROVE TreeSpec => []TreeInv
  OBVIOUS
<1>1. TreeInit => TreeInv BY ZenonT(60), TreeInvInit
<1>2. TreeInv /\ [TreeNext]_treeVars => TreeInv' BY ZenonT(60), TreeInvNext, TreeInvStutter
<1> QED BY <1>1, <1>2, PTL DEF TreeSpec

(* NamesStayExact: for any number of mounts, calls and lost answers the rows show        *)
(* exactly the names that the committed calls leave, each once: a resolution that went   *)
(* stale changes nothing, and a symlink that loses its name keeps the others             *)
(* (rename_namespace_replace, remove_symlink_entry_or_promote).                          *)
THEOREM NamesStayExact == TreeConstants => (TreeSpec => []NamesExact)
<1>1. TreeInv => NamesExact BY ZenonT(60) DEF TreeInv, RowsSound, NamesExact
<1> QED BY <1>1, TreeInvariant, PTL

(* RmdirKeepsEmpty: a directory that rmdir has locked has nothing visible in it until    *)
(* the transaction ends, whoever creates, renames or promotes an entry meanwhile         *)
(* (unlink_directory_entry_internal).                                                    *)
THEOREM RmdirKeepsEmpty == TreeConstants => (TreeSpec => []RmdirAnswered)
<1>1. ASSUME TreeInv PROVE RmdirAnswered
  <2> SUFFICES ASSUME NEW m \in TreeMounts, treeCall[m].op = "rmdir", treeCall[m].pc = "locked",
                      NEW r \in InTheWay(treeCall[m])
               PROVE  r.kind = "hidden"
    BY ZenonT(60) DEF RmdirAnswered
  <2>1. In(Visible, treeCall[m].src.id) = {} BY Zenon, <1>1, InvFacts DEF CallOK, RemoveOK, Removing
  <2> QED BY ZenonT(60), <2>1 DEF In, InTheWay, Referencing, Visible
<1>2. TreeInv => RmdirAnswered BY ZenonT(60), <1>1
<1> QED BY <1>2, TreeInvariant, PTL
=============================================================================
