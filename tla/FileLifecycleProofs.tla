-------------------------- MODULE FileLifecycleProofs --------------------------
(***************************************************************************)
(* Proof, for every number of mounts, names, files, hardlinks and handles, *)
(* that an open handle keeps its inode, that a name stands for one entry,  *)
(* that what maintenance has selected stays nameless, and that deleting a  *)
(* file takes no hardlink with it.                                         *)
(*                                                                         *)
(* The argument is about the advisory locks.  A transaction decides under  *)
(* them what its commit will do, and the commit comes later: what it has   *)
(* seen of the rows of a locked file, and of a locked name, stays true     *)
(* because whoever changes them holds the same key.  Leases are not held   *)
(* by a key.  A purge is decided when no lease is active; handles opened   *)
(* later need the key of the file, and handles opened before have lapsed.  *)
(***************************************************************************)
EXTENDS FileLifecycle, FiniteSetTheorems, WellFoundedInduction, TLAPS

(* The inductive invariant. *)

\* The tables files and hardlinks, as F and L: a file with hardlinks has a name of its
\* own, an unlinked one has none, and no two rows have the same name.
TablesSound(F, L) ==
  /\ F \in [FileIds -> FileRow]
  /\ L \subseteq LinkRow
  /\ \A f \in FileIds : F[f].state = "named" => F[f].name \in Names
  /\ \A f \in FileIds : F[f].state = "unlinked" => F[f].name = Hidden
  /\ \A l \in L : F[l.file].state = "named"
  /\ \A k, l \in L : k.id = l.id => k = l
  /\ \A f, g \in FileIds :
       F[f].state = "named" /\ F[g].state = "named" /\ F[f].name = F[g].name => f = g
  /\ \A f \in FileIds, l \in L : F[f].state = "named" => F[f].name # l.name
  /\ \A k, l \in L : k.name = l.name => k = l

\* Ids are serial: the next file is one that has not been, the next link one above all.
Serial ==
  /\ \E n \in 0..MaxFiles : \A f \in FileIds : file[f].state # "unborn" <=> f <= n
  /\ \A l \in links : l.id <= linkSeq

\* No two transactions hold the same key.
LocksApart ==
  \A a, b \in Actors :
    a # b /\ tx[a] # None /\ tx[b] # None => tx[a].keys \cap tx[b].keys = {}

\* No handle on f is open whose lease and session have been live ever since.
NoneOpen(f) ==
  \A m \in Mounts, h \in Handles : handle[m][h] = f => h \in lapsed[m]

\* What a transaction with these keys has decided is still right, and the rows it has
\* looked at are under its keys.
EffectSound(keys, effect) ==
  /\ effect.op = "drop" =>
       effect.link \in links /\ OpenKey(effect.link.file) \in keys
  /\ effect.op # "drop" => OpenKey(effect.file) \in keys
  /\ effect.op = "promote" =>
       file[effect.file].state = "named" /\ LinksOf(effect.file) # {}
  /\ effect.op \in {"hide", "purge", "remove"} =>
       Exists(effect.file) /\ LinksOf(effect.file) = {}
  /\ effect.op = "purge" => NoneOpen(effect.file)

\* The source of a rename is as it was resolved, and its new name is vacant or that of
\* the one entry of another file that the effect takes away.
MoveSound(keys, effect, move) ==
  /\ NameKey(move.to) \in keys
  /\ OpenKey(move.entry.file) \in keys
  /\ move.entry \in Entries
  /\ effect = None => Vacant(move.to)
  /\ effect # None =>
       /\ effect.op # "remove"
       /\ effect.op = "drop" =>
            effect.link.name = move.to /\ effect.link.file # move.entry.file
       /\ effect.op # "drop" =>
            /\ file[effect.file].state = "named"
            /\ file[effect.file].name = move.to
            /\ effect.file # move.entry.file

TransactionSound(t) ==
  /\ t.effect # None => EffectSound(t.keys, t.effect)
  /\ t.move # None => MoveSound(t.keys, t.effect, t.move)

\* A handle that has not lapsed is backed by a live lease of its file in a live session.
HandlesBacked ==
  \A m \in Mounts, h \in Handles :
    handle[m][h] # None /\ h \notin lapsed[m] =>
      /\ lease[m][h] # None
      /\ lease[m][h].file = handle[m][h]
      /\ lease[m][h].left > 0
      /\ SessionLive(m)

\* A callback that is about to register a lease has not opened its handle yet.
CallsOK ==
  /\ call \in [Mounts -> CallRecord]
  /\ \A m \in Mounts :
       call[m].step \in {"open", "created"} => handle[m][call[m].handle] = None

IInv ==
  /\ TypeOK
  /\ CallsOK
  /\ TablesSound(file, links)
  /\ Serial
  /\ LocksApart
  /\ \A a \in Actors : tx[a] # None => TransactionSound(tx[a])
  /\ HandlesBacked
  /\ InodeKept
  /\ SelectedIsNameless

-----------------------------------------------------------------------------
(* Lemmas about the operators. *)

\* Every nonempty set of numbers has a least one.
LEMMA LeastNumber ==
  ASSUME NEW T, T \subseteq Nat, T # {}
  PROVE  \E n \in T : \A m \in T : n <= m
<1> DEFINE Less == {mn \in Nat \X Nat : mn[1] < mn[2]}
<1>1. OpToRel(<, Nat) = Less
  BY ZenonT(60) DEF OpToRel
<1>2. IsWellFoundedOn(Less, Nat)
  BY Zenon, <1>1, NatLessThanWellFounded
<1>3. PICK n \in T : \A m \in T : ~(<<m, n>> \in Less)
  <2> HIDE DEF Less
  <2> QED BY Zenon, <1>2, WFMin
<1>4. ASSUME NEW m \in T PROVE n <= m
  <2>1. m \in Nat /\ n \in Nat /\ <<m, n>> \notin Less
    BY ZenonT(60), <1>3
  <2>2. ~(m < n)
    BY ZenonT(60), <2>1
  <2> QED BY <2>1, <2>2
<1> QED BY ZenonT(60), <1>4

\* A file with hardlinks has an oldest one (ORDER BY id_hardlink ASC LIMIT 1).
LEMMA OldestExists ==
  ASSUME links \subseteq LinkRow, NEW f, LinksOf(f) # {}
  PROVE  OldestLink(f) \in LinksOf(f)
<1>1. {l.id : l \in LinksOf(f)} \subseteq Nat /\ {l.id : l \in LinksOf(f)} # {}
  BY ConstantsOK DEF LinksOf, LinkRow, LinkIds
<1>2. \E n \in {l.id : l \in LinksOf(f)} : \A k \in {l.id : l \in LinksOf(f)} : n <= k
  BY Zenon, <1>1, LeastNumber
<1>3. \E l \in LinksOf(f) : \A k \in LinksOf(f) : l.id <= k.id
  BY ZenonT(60), <1>2
<1> QED
  BY ZenonT(60), <1>3 DEF OldestLink

\* The two kinds of entries, and that each is one.
LEMMA EntryShape ==
  ASSUME TablesSound(file, links), NEW e \in Entries
  PROVE  /\ e \in Entry
         /\ file[e.file].state = "named"
         /\ \/ e.kind = "file" /\ e.id = e.file /\ e.name = file[e.file].name
            \/ e.kind = "hardlink" /\ [id |-> e.id, file |-> e.file, name |-> e.name] \in links
<1>1. CASE \E f \in {g \in FileIds : file[g].state = "named"} :
             e = [kind |-> "file", id |-> f, file |-> f, name |-> file[f].name]
  BY <1>1 DEF TablesSound, Entry
<1>2. CASE \E l \in links :
             e = [kind |-> "hardlink", id |-> l.id, file |-> l.file, name |-> l.name]
  <2>1. PICK l \in links :
          e = [kind |-> "hardlink", id |-> l.id, file |-> l.file, name |-> l.name]
    BY ZenonT(60), <1>2
  <2>2. l \in LinkRow /\ l = [id |-> l.id, file |-> l.file, name |-> l.name]
    BY ZenonT(60) DEF TablesSound, LinkRow
  <2>3. e.id = l.id /\ e.file = l.file /\ e.name = l.name
    BY ZenonT(60), <2>1
  <2>4. file[l.file].state = "named"
    BY ZenonT(60) DEF TablesSound
  <2> QED
    BY ZenonT(60), <2>1, <2>2, <2>3, <2>4 DEF Entry, LinkRow
<1> QED
  BY ZenonT(60), <1>1, <1>2 DEF Entries

LEMMA FileEntry ==
  ASSUME NEW f \in FileIds, file[f].state = "named"
  PROVE  [kind |-> "file", id |-> f, file |-> f, name |-> file[f].name] \in Entries
  BY ZenonT(60) DEF Entries

LEMMA LinkEntry ==
  ASSUME NEW l \in links
  PROVE  [kind |-> "hardlink", id |-> l.id, file |-> l.file, name |-> l.name] \in Entries
  BY ZenonT(60) DEF Entries

\* A name is vacant when neither table has it.
LEMMA VacantRows ==
  ASSUME NEW n
  PROVE  Vacant(n) <=> /\ \A f \in FileIds : file[f].state = "named" => file[f].name # n
                       /\ \A l \in links : l.name # n
<1>1. ASSUME Vacant(n) PROVE \A f \in FileIds : file[f].state = "named" => file[f].name # n
  BY Zenon, <1>1, FileEntry DEF Vacant
<1>2. ASSUME Vacant(n) PROVE \A l \in links : l.name # n
  BY Zenon, <1>2, LinkEntry DEF Vacant
<1>3. ASSUME \A f \in FileIds : file[f].state = "named" => file[f].name # n,
             \A l \in links : l.name # n
      PROVE  Vacant(n)
  BY <1>3 DEF Vacant, Entries
<1> QED BY ZenonT(60), <1>1, <1>2, <1>3

LEMMA VacantNext ==
  ASSUME NEW n,
         \A f \in FileIds : file'[f].state = "named" => file'[f].name # n,
         \A l \in links' : l.name # n
  PROVE  Vacant(n)'
<1>1. SUFFICES ASSUME NEW d \in Entries' PROVE d.name # n
  BY Zenon DEF Vacant
<1>2. \/ \E f \in FileIds : /\ file'[f].state = "named"
                            /\ d = [kind |-> "file", id |-> f, file |-> f, name |-> file'[f].name]
      \/ \E l \in links' : d = [kind |-> "hardlink", id |-> l.id, file |-> l.file, name |-> l.name]
  BY ZenonT(60), <1>1 DEF Entries
<1>3. ASSUME NEW f \in FileIds, file'[f].state = "named",
             d = [kind |-> "file", id |-> f, file |-> f, name |-> file'[f].name]
      PROVE  d.name # n
  <2>1. d.name = file'[f].name
    BY Zenon, <1>3
  <2> QED BY Zenon, <1>3, <2>1
<1>4. ASSUME NEW l \in links', d = [kind |-> "hardlink", id |-> l.id, file |-> l.file, name |-> l.name]
      PROVE  d.name # n
  <2>1. d.name = l.name
    BY Zenon, <1>4
  <2> QED BY Zenon, <2>1
<1> QED BY Zenon, <1>2, <1>3, <1>4

\* Sound tables give each name to one entry.
LEMMA TablesGiveNames ==
  ASSUME TablesSound(file, links)
  PROVE  NamesSound
<1>1. ASSUME NEW d \in Entries, NEW e \in Entries, d.name = e.name PROVE d = e
  <2>1. /\ d \in Entry /\ e \in Entry
        /\ file[d.file].state = "named" /\ file[e.file].state = "named"
    BY Zenon, EntryShape
  <2>2. \/ d.kind = "file" /\ d.id = d.file /\ d.name = file[d.file].name
        \/ d.kind = "hardlink" /\ [id |-> d.id, file |-> d.file, name |-> d.name] \in links
    BY ZenonT(60), EntryShape
  <2>3. \/ e.kind = "file" /\ e.id = e.file /\ e.name = file[e.file].name
        \/ e.kind = "hardlink" /\ [id |-> e.id, file |-> e.file, name |-> e.name] \in links
    BY ZenonT(60), EntryShape
  <2>4. d.file \in FileIds /\ e.file \in FileIds
    BY ZenonT(60), <2>1 DEF Entry
  <2>5. d.kind = e.kind /\ d.id = e.id /\ d.file = e.file
    <3> DEFINE kd == [id |-> d.id, file |-> d.file, name |-> d.name]
               ke == [id |-> e.id, file |-> e.file, name |-> e.name]
    <3>1. kd.name = d.name /\ ke.name = e.name /\ kd.id = d.id /\ ke.id = e.id
          /\ kd.file = d.file /\ ke.file = e.file
      OBVIOUS
    <3> HIDE DEF kd, ke
    <3>2. (d.kind = "hardlink" => kd \in links) /\ (e.kind = "hardlink" => ke \in links)
      BY ZenonT(60), <2>2, <2>3 DEF kd, ke
    <3>3. CASE d.kind = "file" /\ e.kind = "file"
      BY ZenonT(60), <3>3, <2>1, <2>2, <2>3, <2>4, <1>1 DEF TablesSound
    <3>4. CASE d.kind = "hardlink" /\ e.kind = "hardlink"
      <4>1. kd = ke
        BY ZenonT(60), <3>4, <3>1, <3>2, <1>1 DEF TablesSound
      <4> QED BY ZenonT(60), <4>1, <3>1, <3>4
    <3>5. CASE d.kind # e.kind
      BY SMTT(60), <3>5, <3>1, <3>2, <2>1, <2>2, <2>3, <2>4, <1>1 DEF TablesSound
    <3> QED BY ZenonT(60), <3>3, <3>4, <3>5, <2>2, <2>3
  <2> QED
    BY <2>1, <2>5, <1>1 DEF Entry
<1>2. ASSUME NEW f \in FileIds, file[f].state = "unlinked"
      PROVE  LinksOf(f) = {} /\ file[f].name = Hidden
  BY ZenonT(60), <1>2 DEF TablesSound, LinksOf
<1> QED BY ZenonT(60), <1>1, <1>2 DEF NamesSound

\* The fields a callback has at each of its steps.
LEMMA CallShape ==
  ASSUME TypeOK, NEW m \in Mounts
  PROVE  LET c == call[m]
         IN  /\ c.step = "open" => c.file \in FileIds /\ c.handle \in Handles
             /\ c.step \in {"created", "attrs"} =>
                  /\ c \in [step : {"created", "attrs"}, file : FileIds, handle : Handles, name : Names]
                  /\ c.file \in FileIds /\ c.handle \in Handles /\ c.name \in Names
             /\ c.step \in {"rollback", "purge"} =>
                  c.file \in FileIds /\ c.name \in Names \cup {None}
             /\ c.step = "finalize" => c.file \in FileIds
             /\ c.step = "unlink" => c.file \in FileIds /\ c.name \in Names
             /\ c.step = "link" => c.source \in Entry /\ c.name \in Names
             /\ c.step = "rename" =>
                  /\ c.source \in Entry /\ c.target \in Entry \cup {None} /\ c.name \in Names
                  /\ c.target # None => c.target.name = c.name
<1> PICK c : c = call[m]
  OBVIOUS
<1>1. c \in CallRecord
  BY ZenonT(60) DEF TypeOK
<1>2. CASE c \in {Idle}
  BY <1>2 DEF Idle
<1>3. CASE c \in [step : {"open"}, file : FileIds, handle : Handles]
  BY ZenonT(60), <1>3
<1>4. CASE c \in [step : {"created", "attrs"}, file : FileIds, handle : Handles, name : Names]
  BY ZenonT(60), <1>4
<1>5. CASE c \in [step : {"rollback", "purge"}, file : FileIds, name : Names \cup {None}]
  BY ZenonT(60), <1>5
<1>6. CASE c \in [step : {"finalize"}, file : FileIds]
  BY ZenonT(60), <1>6
<1>7. CASE c \in [step : {"unlink"}, file : FileIds, name : Names]
  BY ZenonT(60), <1>7
<1>8. CASE c \in [step : {"link"}, source : Entry, name : Names]
  BY ZenonT(60), <1>8
<1>9. CASE c \in {d \in [step : {"rename"}, source : Entry, target : Entry \cup {None},
                        name : Names] : d.target # None => d.target.name = d.name}
  BY ZenonT(60), <1>9
<1> QED
  BY ZenonT(60), <1>1, <1>2, <1>3, <1>4, <1>5, <1>6, <1>7, <1>8, <1>9 DEF CallRecord

-----------------------------------------------------------------------------
(* What a step must show to preserve the invariant. *)

\* A step changes the rows of a file, or takes a vacant name, or opens a file, only
\* under one of the keys K; a file that is created is nobody's yet.
UnderKeys(K) ==
  /\ \A f \in FileIds : file[f].state # "unborn" /\ OpenKey(f) \notin K =>
       file'[f] = file[f] /\ LinksOf(f)' = LinksOf(f)
  /\ \A n \in Names : NameKey(n) \notin K /\ Vacant(n) => Vacant(n)'
  /\ \A f \in FileIds : OpenKey(f) \notin K /\ NoneOpen(f) => NoneOpen(f)'

\* A transaction with other keys is not disturbed.
LEMMA OthersKept ==
  ASSUME IInv, NEW K, UnderKeys(K), NEW t \in Transaction, TransactionSound(t),
         t.keys \cap K = {}
  PROVE  TransactionSound(t)'
<1>1. TablesSound(file, links)
  BY ZenonT(60) DEF IInv
<1>2. \A l \in links : l.file \in FileIds /\ file[l.file].state = "named"
  BY ZenonT(60), <1>1 DEF TablesSound, LinkRow
<1>3. ASSUME t.effect # None PROVE EffectSound(t.keys, t.effect)'
  <2> PICK keys, e : keys = t.keys /\ e = t.effect
    OBVIOUS
  <2>1. EffectSound(keys, e) /\ e \in Effect
    BY ZenonT(60), <1>3 DEF TransactionSound, Transaction
  <2>2. CASE e.op = "drop"
    <3>1. e.link \in links /\ OpenKey(e.link.file) \in keys
      BY ZenonT(60), <2>1, <2>2 DEF EffectSound
    <3>2. e.link \in LinksOf(e.link.file)
      BY ZenonT(60), <3>1 DEF LinksOf
    <3>3. LinksOf(e.link.file)' = LinksOf(e.link.file)
      BY ZenonT(60), <3>1, <1>2 DEF UnderKeys
    <3>4. e.link \in links'
      BY ZenonT(60), <3>2, <3>3 DEF LinksOf
    <3> QED
      BY ZenonT(60), <2>2, <3>1, <3>4 DEF EffectSound
  <2>3. CASE e.op # "drop"
    <3>1. e.file \in FileIds /\ OpenKey(e.file) \in keys /\ file[e.file].state # "unborn"
      BY ZenonT(60), <2>1, <2>3 DEF EffectSound, Effect, Exists
    <3>2. file'[e.file] = file[e.file] /\ LinksOf(e.file)' = LinksOf(e.file)
          /\ (NoneOpen(e.file) => NoneOpen(e.file)')
      BY ZenonT(60), <3>1 DEF UnderKeys
    <3> QED
      BY ZenonT(60), <2>1, <2>3, <3>2 DEF EffectSound, Exists
  <2> QED BY ZenonT(60), <2>2, <2>3
<1>4. ASSUME t.move # None PROVE MoveSound(t.keys, t.effect, t.move)'
  <2> PICK keys, e, v : keys = t.keys /\ e = t.effect /\ v = t.move
    OBVIOUS
  <2>1. /\ MoveSound(keys, e, v)
        /\ e # None => EffectSound(keys, e) /\ e \in Effect
        /\ v \in [entry : Entry, to : Names]
    BY ZenonT(60), <1>4 DEF TransactionSound, Transaction
  <2>2. /\ v.entry \in Entries /\ v.to \in Names /\ v.entry.file \in FileIds
        /\ OpenKey(v.entry.file) \notin K /\ NameKey(v.to) \notin K
    BY ZenonT(60), <2>1 DEF MoveSound, Entry
  <2>3. file[v.entry.file].state = "named"
    BY Zenon, <1>1, <2>2, EntryShape
  <2>4. file'[v.entry.file] = file[v.entry.file] /\ LinksOf(v.entry.file)' = LinksOf(v.entry.file)
    BY ZenonT(60), <2>2, <2>3 DEF UnderKeys
  <2>5. v.entry \in Entries'
    <3>1. CASE \E f \in {g \in FileIds : file[g].state = "named"} :
                 v.entry = [kind |-> "file", id |-> f, file |-> f, name |-> file[f].name]
      <4>1. PICK f \in {g \in FileIds : file[g].state = "named"} :
                 v.entry = [kind |-> "file", id |-> f, file |-> f, name |-> file[f].name]
        BY ZenonT(60), <3>1
      <4>2. v.entry.file = f
        BY <4>1
      <4> QED BY ZenonT(60), <4>1, <4>2, <2>4 DEF Entries
    <3>2. CASE \E l \in links :
                 v.entry = [kind |-> "hardlink", id |-> l.id, file |-> l.file, name |-> l.name]
      <4>1. PICK l \in links :
                 v.entry = [kind |-> "hardlink", id |-> l.id, file |-> l.file, name |-> l.name]
        BY ZenonT(60), <3>2
      <4>2. v.entry.file = l.file
        BY <4>1
      <4>3. l \in links'
        BY ZenonT(60), <4>2, <2>4 DEF LinksOf
      <4> QED BY ZenonT(60), <4>1, <4>3 DEF Entries
    <3> QED BY ZenonT(60), <3>1, <3>2, <2>2 DEF Entries
  <2>6. CASE e = None
    BY ZenonT(60), <2>1, <2>2, <2>5, <2>6 DEF MoveSound, UnderKeys
  <2>7. CASE e # None /\ e.op = "drop"
    BY ZenonT(60), <2>1, <2>5, <2>7 DEF MoveSound
  <2>8. CASE e # None /\ e.op # "drop"
    <3>1. e.file \in FileIds /\ OpenKey(e.file) \notin K /\ file[e.file].state = "named"
      BY ZenonT(60), <2>1, <2>8 DEF EffectSound, Effect, MoveSound
    <3>2. file'[e.file] = file[e.file]
      BY ZenonT(60), <3>1 DEF UnderKeys
    <3> QED
      BY ZenonT(60), <2>1, <2>5, <2>8, <3>2 DEF MoveSound
  <2> QED BY ZenonT(60), <2>6, <2>7, <2>8
<1> QED BY ZenonT(60), <1>3, <1>4 DEF TransactionSound

\* So a step under keys that no transaction left holds has only the tables, the handles
\* and the types to look after.
LEMMA StepUnderKeys ==
  ASSUME IInv, NEW K, UnderKeys(K),
         \A a \in Actors : tx'[a] # None => tx'[a] = tx[a] /\ tx[a].keys \cap K = {},
         TypeOK', CallsOK', TablesSound(file', links'), Serial', HandlesBacked', InodeKept',
         SelectedIsNameless'
  PROVE  IInv'
<1>1. LocksApart'
  BY ZenonT(60) DEF IInv, LocksApart
<1>2. ASSUME NEW a \in Actors, tx'[a] # None PROVE TransactionSound(tx[a])'
  <2> PICK t : t = tx[a]
    BY ZenonT(60)
  <2>1. t \in Transaction /\ TransactionSound(t) /\ t.keys \cap K = {} /\ tx'[a] = t
    BY SMTT(60), <1>2 DEF IInv, TypeOK
  <2>2. TransactionSound(t)'
    BY ZenonT(60), <2>1, OthersKept
  <2> QED BY ZenonT(60), <2>1, <2>2
<1> QED BY ZenonT(60), <1>1, <1>2 DEF IInv

\* No handle that counts is new.
OpenShrinks ==
  \A m \in Mounts, h \in Handles :
    handle'[m][h] # None /\ h \notin lapsed'[m] =>
      handle'[m][h] = handle[m][h] /\ h \notin lapsed[m]

\* A step that leaves the tables and the transactions alone.
LEMMA LeaseStep ==
  ASSUME IInv, UNCHANGED <<file, links, linkSeq, tx>>, TypeOK', CallsOK', OpenShrinks,
         HandlesBacked', SelectedIsNameless'
  PROVE  IInv'
<1>1. UnderKeys({})
  <2>1. \A f \in FileIds : LinksOf(f)' = LinksOf(f)
    BY ZenonT(60) DEF LinksOf
  <2>2. \A n \in Names : Vacant(n) => Vacant(n)'
    BY ZenonT(60) DEF Vacant, Entries
  <2>3. \A f \in FileIds : f # None
    BY ConstantsOK, NoneIsApart DEF FileIds
  <2>4. \A f \in FileIds : NoneOpen(f) => NoneOpen(f)'
    BY ZenonT(60), <2>3 DEF NoneOpen, OpenShrinks
  <2> QED BY ZenonT(60), <2>1, <2>2, <2>4 DEF UnderKeys
<1>2. TablesSound(file', links')
  BY ZenonT(60) DEF IInv
<1>3. Serial'
  BY ZenonT(60) DEF IInv, Serial
<1>4. InodeKept'
  BY ZenonT(60) DEF IInv, InodeKept, OpenShrinks, Exists
<1> QED
  BY ZenonT(60), <1>1, <1>2, <1>3, <1>4, StepUnderKeys

\* A step of a callback that writes nothing.
LEMMA CallStep ==
  ASSUME IInv, UNCHANGED <<dbVars, tx, up, handle, todo, lapsed>>,
         CallsOK'
  PROVE  IInv'
<1>1. TypeOK'
  BY ZenonT(60) DEF IInv, TypeOK, CallsOK, dbVars
<1>2. OpenShrinks
  BY ZenonT(60) DEF OpenShrinks
<1>3. HandlesBacked' /\ SelectedIsNameless'
  BY ZenonT(60) DEF IInv, HandlesBacked, SessionLive, SelectedIsNameless, dbVars
<1> QED
  BY ZenonT(60), <1>1, <1>2, <1>3, LeaseStep DEF dbVars

\* A step that begins a transaction, decides more of it, or ends it without effect.
LEMMA TransactionStep ==
  ASSUME IInv, UNCHANGED <<dbVars, up, handle, lapsed>>,
         CallsOK',
         todo' \in [Mounts -> SUBSET FileIds],
         \A m \in Mounts : todo'[m] \subseteq todo[m],
         NEW a \in Actors, NEW t, tx' = [tx EXCEPT ![a] = t],
         t # None =>
           /\ t \in Transaction
           /\ TransactionSound(t)
           /\ \A b \in Actors : b # a /\ tx[b] # None => tx[b].keys \cap t.keys = {}
  PROVE  IInv'
<1>1. tx'[a] = t /\ \A b \in Actors : b # a => tx'[b] = tx[b]
  BY ZenonT(60) DEF IInv, TypeOK
<1>2. TypeOK'
  BY ZenonT(60) DEF IInv, TypeOK, CallsOK, dbVars
<1>3. LocksApart'
  BY ZenonT(60), <1>1 DEF IInv, LocksApart
<1>4. \A x : TransactionSound(x) => TransactionSound(x)'
  <2>1. file' = file /\ links' = links /\ handle' = handle /\ lapsed' = lapsed
    BY Zenon DEF dbVars
  <2>2. /\ \A f : (Exists(f)' <=> Exists(f)) /\ LinksOf(f)' = LinksOf(f) /\ (NoneOpen(f)' <=> NoneOpen(f))
        /\ Entries' = Entries
    BY Zenon, <2>1 DEF Exists, LinksOf, NoneOpen, Entries
  <2>3. \A n : Vacant(n)' <=> Vacant(n)
    BY Zenon, <2>2 DEF Vacant
  <2>4. ASSUME NEW keys, NEW e, EffectSound(keys, e) PROVE EffectSound(keys, e)'
    BY Zenon, <2>1, <2>2, <2>4 DEF EffectSound
  <2>5. ASSUME NEW keys, NEW e, NEW v, MoveSound(keys, e, v) PROVE MoveSound(keys, e, v)'
    BY Zenon, <2>1, <2>2, <2>3, <2>5 DEF MoveSound
  <2> QED BY Zenon, <2>4, <2>5 DEF TransactionSound
<1>5. \A b \in Actors : tx'[b] # None => TransactionSound(tx'[b])
  BY ZenonT(60), <1>1 DEF IInv
<1>6. \A b \in Actors : (tx[b] # None => TransactionSound(tx[b]))'
  <2> TAKE b \in Actors
  <2> PICK x : x = tx'[b]
    OBVIOUS
  <2>1. x # None => TransactionSound(x)'
    BY ZenonT(60), <1>4, <1>5
  <2> QED BY ZenonT(60), <2>1
<1>7. TablesSound(file', links') /\ Serial' /\ HandlesBacked' /\ InodeKept'
  BY Zenon DEF IInv, Serial, HandlesBacked, SessionLive, InodeKept, Exists, dbVars
<1>8. SelectedIsNameless'
  BY ZenonT(60) DEF IInv, SelectedIsNameless, dbVars
<1> QED
  BY ZenonT(60), <1>2, <1>3, <1>6, <1>7, <1>8 DEF IInv

-----------------------------------------------------------------------------
(* The callbacks. *)

LEMMA InitIInv == Init => IInv
<1> SUFFICES ASSUME Init PROVE IInv
  BY ZenonT(60)
<1>1. TypeOK /\ CallsOK
  BY ConstantsOK DEF Init, TypeOK, CallsOK, FileRow, CallRecord, Idle
<1>2. TablesSound(file, links)
  BY ZenonT(60) DEF Init, TablesSound, FileRow
<1>3. Serial
  <2>1. \A f \in FileIds : file[f].state # "unborn" <=> f <= 0
    BY ConstantsOK DEF Init, FileIds
  <2>2. 0 \in 0..MaxFiles
    BY SMTT(60), ConstantsOK
  <2> QED BY ZenonT(60), <2>1, <2>2 DEF Init, Serial
<1>4. LocksApart /\ (\A a \in Actors : tx[a] # None => TransactionSound(tx[a]))
  BY ZenonT(60) DEF Init, LocksApart
<1>5. HandlesBacked /\ InodeKept /\ SelectedIsNameless
  BY ZenonT(60) DEF Init, HandlesBacked, InodeKept, SelectedIsNameless
<1> QED BY ZenonT(60), <1>1, <1>2, <1>3, <1>4, <1>5 DEF IInv

\* A callback goes on to its next step, or answers.
LEMMA CallBecomes ==
  ASSUME IInv, NEW m \in Mounts, NEW c \in CallRecord, call' = [call EXCEPT ![m] = c],
         c.step \in {"open", "created"} => handle'[m][c.handle] = None,
         \A n \in Mounts : n # m => handle'[n] = handle[n]
  PROVE  CallsOK'
<1>1. call' \in [Mounts -> CallRecord] /\ call'[m] = c
  BY ZenonT(60) DEF IInv, TypeOK
<1>2. \A n \in Mounts : n # m => call'[n] = call[n]
  BY ZenonT(60) DEF IInv, TypeOK
<1> QED BY ZenonT(60), <1>1, <1>2 DEF IInv, CallsOK

LEMMA CallAnswered ==
  ASSUME IInv, NEW m \in Mounts, call' = [call EXCEPT ![m] = Idle],
         \A n \in Mounts : n # m => handle'[n] = handle[n]
  PROVE  CallsOK'
<1>1. Idle \in CallRecord /\ Idle.step = "idle"
  BY ZenonT(60) DEF CallRecord, Idle
<1> QED BY Zenon, <1>1, CallBecomes

\* The steps that only resolve, answer or give up.
LEMMA OpenResolveInv ==
  ASSUME IInv, NEW m \in Mounts, NEW h \in Handles, NEW e \in Entries, OpenResolve(m, h, e)
  PROVE  IInv'
<1>1. e.file \in FileIds
  BY ZenonT(60), EntryShape DEF IInv, Entry
<1> DEFINE c == [step |-> "open", file |-> e.file, handle |-> h]
<1>2. c \in CallRecord /\ c.handle = h
  BY ZenonT(60), <1>1 DEF CallRecord
<1>3. call' = [call EXCEPT ![m] = c] /\ handle' = handle /\ handle[m][h] = None
  BY ZenonT(60) DEF OpenResolve, Then, FreshHandle
<1> HIDE DEF c
<1>4. CallsOK'
  BY Zenon, <1>2, <1>3, CallBecomes
<1> QED BY ZenonT(60), <1>4, CallStep DEF OpenResolve

LEMMA CreateReplyInv ==
  ASSUME IInv, NEW m \in Mounts, CreateReply(m)
  PROVE  IInv'
<1>1. CallsOK'
  BY Zenon, CallAnswered DEF CreateReply, Reply
<1> QED BY ZenonT(60), <1>1, CallStep DEF CreateReply

LEMMA CallFailsInv ==
  ASSUME IInv, NEW m \in Mounts, CallFails(m)
  PROVE  IInv'
<1>1. TypeOK
  BY ZenonT(60) DEF IInv
<1>2. call[m].step = "created" => call[m].file \in FileIds /\ call[m].name \in Names
  BY ZenonT(60), <1>1, CallShape
<1>3. CallsOK'
  <2>1. CASE call[m].step = "created"
    <3> DEFINE c == [step |-> "rollback", file |-> call[m].file, name |-> call[m].name]
    <3>1. c \in CallRecord /\ c.step = "rollback"
      BY ZenonT(60), <1>2, <2>1 DEF CallRecord
    <3>2. call' = [call EXCEPT ![m] = c] /\ handle' = handle
      BY ZenonT(60), <2>1 DEF CallFails, Then
    <3> HIDE DEF c
    <3> QED BY ZenonT(60), <3>1, <3>2, CallBecomes
  <2>2. CASE call[m].step # "created"
    BY ZenonT(60), <2>2, CallAnswered DEF CallFails, Reply
  <2> QED BY ZenonT(60), <2>1, <2>2
<1> QED BY Zenon, <1>3, CallStep DEF CallFails

LEMMA UnlinkResolveInv ==
  ASSUME IInv, NEW m \in Mounts, NEW e \in Entries, UnlinkResolve(m, e)
  PROVE  IInv'
<1>1. e.file \in FileIds /\ e.name \in Names
  BY Zenon, EntryShape DEF IInv, Entry
<1> DEFINE c == [step |-> "unlink", file |-> e.file, name |-> e.name]
<1>2. c \in CallRecord /\ c.step = "unlink"
  BY ZenonT(60), <1>1 DEF CallRecord
<1>3. call' = [call EXCEPT ![m] = c] /\ handle' = handle
  BY ZenonT(60) DEF UnlinkResolve, Then
<1> HIDE DEF c
<1>4. CallsOK'
  BY Zenon, <1>2, <1>3, CallBecomes
<1> QED BY ZenonT(60), <1>4, CallStep DEF UnlinkResolve

LEMMA LinkResolveInv ==
  ASSUME IInv, NEW m \in Mounts, NEW e \in Entries, NEW n \in Names, LinkResolve(m, e, n)
  PROVE  IInv'
<1>1. e \in Entry
  BY Zenon, EntryShape DEF IInv
<1> DEFINE c == [step |-> "link", source |-> e, name |-> n]
<1>2. c \in CallRecord /\ c.step = "link"
  BY ZenonT(60), <1>1 DEF CallRecord
<1>3. call' = [call EXCEPT ![m] = c] /\ handle' = handle
  BY ZenonT(60) DEF LinkResolve, Then
<1> HIDE DEF c
<1>4. CallsOK'
  BY Zenon, <1>2, <1>3, CallBecomes
<1> QED BY ZenonT(60), <1>4, CallStep DEF LinkResolve

LEMMA RenameResolveInv ==
  ASSUME IInv, NEW m \in Mounts, NEW e \in Entries, NEW n \in Names, RenameResolve(m, e, n)
  PROVE  IInv'
<1>1. PICK t \in Entries \cup {None} :
        /\ t # None => t.name = n
        /\ Then(m, [step |-> "rename", source |-> e, target |-> t, name |-> n])
  BY Zenon DEF RenameResolve
<1>2. e \in Entry /\ t \in Entry \cup {None}
  BY Zenon, EntryShape DEF IInv
<1> DEFINE c == [step |-> "rename", source |-> e, target |-> t, name |-> n]
<1>3. c \in CallRecord /\ c.step = "rename"
  BY ZenonT(60), <1>1, <1>2 DEF CallRecord
<1>4. call' = [call EXCEPT ![m] = c] /\ handle' = handle
  BY Zenon, <1>1 DEF RenameResolve, Then
<1> HIDE DEF c
<1>5. CallsOK'
  BY ZenonT(60), <1>3, <1>4, CallBecomes
<1> QED BY ZenonT(60), <1>5, CallStep DEF RenameResolve

LEMMA FinalizeInv ==
  ASSUME IInv, NEW m \in Mounts, Finalize(m)
  PROVE  IInv'
<1>1. TypeOK /\ call[m].step = "finalize"
  BY ZenonT(60) DEF IInv, Finalize, Serving
<1>2. call[m].file \in FileIds
  BY ZenonT(60), <1>1, CallShape
<1>3. CallsOK'
  <2> PICK f : f = call[m].file
    OBVIOUS
  <2>1. CASE file[f].state = "unlinked" /\ ~ActiveLease(f)
    <3> DEFINE c == [step |-> "purge", file |-> f, name |-> None]
    <3>1. c \in CallRecord /\ c.step = "purge"
      BY ZenonT(60), <1>2 DEF CallRecord
    <3>2. call' = [call EXCEPT ![m] = c] /\ handle' = handle
      BY ZenonT(60), <2>1 DEF Finalize, Then
    <3> HIDE DEF c
    <3> QED BY ZenonT(60), <3>1, <3>2, CallBecomes
  <2>2. CASE ~(file[f].state = "unlinked" /\ ~ActiveLease(f))
    BY Zenon, <2>2, CallAnswered DEF Finalize, Reply
  <2> QED BY ZenonT(60), <2>1, <2>2
<1> QED BY ZenonT(60), <1>3, CallStep DEF Finalize

\* A transaction begins under keys no other holds, with a decision that is right.
LEMMA BeginStep ==
  ASSUME IInv, UNCHANGED <<dbVars, up, handle, lapsed>>,
         CallsOK',
         todo' \in [Mounts -> SUBSET FileIds],
         \A n \in Mounts : todo'[n] \subseteq todo[n],
         NEW a \in Actors, NEW keys \in SUBSET Key, NEW effect \in Effect \cup {None},
         NEW move \in [entry : Entry, to : Names] \cup {None},
         NEW created \in Names \cup {None},
         KeysFree(keys),
         Begin(a, keys, effect, move, created),
         effect # None => EffectSound(keys, effect),
         move # None => MoveSound(keys, effect, move)
  PROVE  IInv'
<1> DEFINE t == [keys |-> keys, effect |-> effect, move |-> move, created |-> created]
<1>1. t \in Transaction
  BY Zenon DEF Transaction
<1>2. t.keys = keys /\ t.effect = effect /\ t.move = move
  BY ZenonT(60)
<1>3. tx' = [tx EXCEPT ![a] = t]
  BY ZenonT(60) DEF Begin
<1> HIDE DEF t
<1>4. TransactionSound(t)
  BY ZenonT(60), <1>2 DEF TransactionSound
<1>5. \A b \in Actors : tx[b] # None => tx[b].keys \cap t.keys = {}
  BY ZenonT(60), <1>2 DEF KeysFree
<1> QED
  BY ZenonT(60), <1>1, <1>3, <1>4, <1>5, TransactionStep

\* A file whose leases are not active has no open handle that counts.
LEMMA NotActive ==
  ASSUME IInv, NEW f \in FileIds, ~ActiveLease(f)
  PROVE  NoneOpen(f)
<1>1. f # None
  BY ConstantsOK, NoneIsApart DEF FileIds
<1> QED BY ZenonT(60), <1>1 DEF IInv, HandlesBacked, NoneOpen, ActiveLease

LEMMA RollbackPromoteInv ==
  ASSUME IInv, NEW m \in Mounts, RollbackPromote(m)
  PROVE  IInv'
<1> PICK f : f = call[m].file
  OBVIOUS
<1>1. TypeOK /\ TablesSound(file, links) /\ call[m].step = "rollback"
  BY ZenonT(60) DEF IInv, RollbackPromote, Serving
<1>2. f \in FileIds /\ call[m].name \in Names \cup {None}
  BY ZenonT(60), <1>1, CallShape
<1>3. CASE Exists(f) /\ LinksOf(f) # {}
  <2> DEFINE effect == [op |-> "promote", file |-> f]
  <2>1. /\ Begin(<<m, "fuse">>, {OpenKey(f)}, effect, None, call[m].name)
        /\ call' = [call EXCEPT ![m] = Idle]
        /\ KeysFree({OpenKey(f)})
        /\ UNCHANGED <<dbVars, up, handle, todo, lapsed>>
    BY ZenonT(60), <1>3 DEF RollbackPromote, Reply
  <2>2. file[f].state = "named"
    BY ZenonT(60), <1>1, <1>3 DEF LinksOf, TablesSound
  <2>3. effect \in Effect /\ {OpenKey(f)} \in SUBSET Key /\ <<m, "fuse">> \in Actors
    BY SMTT(60), <1>2 DEF Effect, Key, OpenKey, Actors
  <2>4. EffectSound({OpenKey(f)}, effect)
    BY ZenonT(60), <2>2, <1>3 DEF EffectSound
  <2>5. CallsOK'
    BY ZenonT(60), <2>1, CallAnswered
  <2>6. todo' \in [Mounts -> SUBSET FileIds] /\ \A n \in Mounts : todo'[n] \subseteq todo[n]
    BY ZenonT(60), <1>1, <2>1 DEF TypeOK
  <2> HIDE DEF effect
  <2> QED
    BY ZenonT(60), <1>2, <2>1, <2>3, <2>4, <2>5, <2>6, BeginStep
<1>4. CASE ~(Exists(f) /\ LinksOf(f) # {})
  <2> DEFINE c == [step |-> "purge", file |-> f, name |-> call[m].name]
  <2>1. call' = [call EXCEPT ![m] = c] /\ UNCHANGED <<dbVars, tx, up, handle, todo, lapsed>>
    BY ZenonT(60), <1>4 DEF RollbackPromote, Then
  <2>2. c \in CallRecord /\ c.step = "purge"
    BY ZenonT(60), <1>2 DEF CallRecord
  <2> HIDE DEF c
  <2>3. CallsOK'
    BY ZenonT(60), <2>1, <2>2, CallBecomes
  <2> QED BY ZenonT(60), <2>1, <2>3, CallStep
<1> QED BY ZenonT(60), <1>3, <1>4

\* A purge is a transaction on one file.
LEMMA RemoveTyped ==
  ASSUME NEW f \in FileIds
  PROVE  [op |-> "remove", file |-> f] \in Effect /\ {OpenKey(f)} \in SUBSET Key
  BY DEF Effect, Key, OpenKey

LEMMA CallPurgeInv ==
  ASSUME IInv, NEW m \in Mounts, CallPurge(m)
  PROVE  IInv'
<1> PICK f : f = call[m].file
  OBVIOUS
<1> DEFINE effect == [op |-> "remove", file |-> f]
<1>1. TypeOK /\ call[m].step = "purge"
  BY ZenonT(60) DEF IInv, CallPurge, Serving
<1>2. f \in FileIds /\ call[m].name \in Names \cup {None}
  BY ZenonT(60), <1>1, CallShape
<1>3. /\ Begin(<<m, "fuse">>, {OpenKey(f)}, effect, None, call[m].name)
      /\ call' = [call EXCEPT ![m] = Idle]
      /\ KeysFree({OpenKey(f)})
      /\ Purgeable(f)
      /\ UNCHANGED <<dbVars, up, handle, todo, lapsed>>
  BY ZenonT(60) DEF CallPurge, Reply
<1>4. effect \in Effect /\ {OpenKey(f)} \in SUBSET Key /\ <<m, "fuse">> \in Actors
  BY ZenonT(60), <1>2, RemoveTyped DEF Actors
<1>5. EffectSound({OpenKey(f)}, effect)
  BY ZenonT(60), <1>3 DEF EffectSound, Purgeable
<1>6. CallsOK'
  BY Zenon, <1>3, CallAnswered
<1>7. todo' \in [Mounts -> SUBSET FileIds] /\ \A n \in Mounts : todo'[n] \subseteq todo[n]
  BY ZenonT(60), <1>1, <1>3 DEF TypeOK
<1> HIDE DEF effect
<1> QED
  BY Zenon, <1>2, <1>3, <1>4, <1>5, <1>6, <1>7, BeginStep

LEMMA PurgeOrphanInv ==
  ASSUME IInv, NEW m \in Mounts, PurgeOrphan(m)
  PROVE  IInv'
<1> PICK f : f = CHOOSE g \in todo[m] : \A k \in todo[m] : g <= k
  BY ZenonT(60)
<1> DEFINE effect == [op |-> "remove", file |-> f]
<1>1. TypeOK /\ todo[m] \subseteq FileIds /\ todo[m] # {}
  BY ZenonT(60) DEF IInv, TypeOK, PurgeOrphan
<1>2. f \in FileIds
  <2>1. todo[m] \subseteq Nat
    BY <1>1, ConstantsOK DEF FileIds
  <2>2. \E g \in todo[m] : \A k \in todo[m] : g <= k
    BY ZenonT(60), <1>1, <2>1, LeastNumber
  <2> QED BY ZenonT(60), <1>1, <2>2
<1>3. /\ KeysFree({OpenKey(f)})
      /\ IF Purgeable(f) THEN Begin(<<m, "maintenance">>, {OpenKey(f)}, effect, None, None)
         ELSE UNCHANGED tx
      /\ todo' = [todo EXCEPT ![m] = IF Exists(f) /\ ~Purgeable(f) THEN {} ELSE @ \ {f}]
      /\ UNCHANGED <<dbVars, up, handle, call, lapsed>>
  BY ZenonT(60) DEF PurgeOrphan
<1>4. todo' \in [Mounts -> SUBSET FileIds] /\ \A n \in Mounts : todo'[n] \subseteq todo[n]
  BY ZenonT(60), <1>1, <1>3 DEF TypeOK
<1>5. CallsOK'
  BY Zenon, <1>3 DEF IInv, CallsOK
<1>6. <<m, "maintenance">> \in Actors
  BY ZenonT(60) DEF Actors
<1>7. CASE Purgeable(f)
  <2>1. effect \in Effect /\ {OpenKey(f)} \in SUBSET Key
    BY Zenon, <1>2, RemoveTyped
  <2>2. EffectSound({OpenKey(f)}, effect)
    BY ZenonT(60), <1>7 DEF EffectSound, Purgeable
  <2> HIDE DEF effect
  <2> QED
    BY ZenonT(60), <1>3, <1>4, <1>5, <1>6, <1>7, <2>1, <2>2, BeginStep
<1>8. CASE ~Purgeable(f)
  <2> PICK t : t = tx[<<m, "maintenance">>]
    OBVIOUS
  <2>1. tx' = [tx EXCEPT ![<<m, "maintenance">>] = t]
    BY ZenonT(60), <1>1, <1>3, <1>6, <1>8 DEF TypeOK
  <2>2. t = None
    BY ZenonT(60) DEF PurgeOrphan
  <2> QED
    BY ZenonT(60), <1>3, <1>4, <1>5, <1>6, <2>1, <2>2, TransactionStep
<1> QED BY ZenonT(60), <1>7, <1>8

\* What the removal of a primary name decides is right when it is decided: the rows of
\* the file are under its key, and a purge has seen that no lease is active.
LEMMA RemovalDecided ==
  ASSUME IInv, NEW f \in FileIds, file[f].state = "named", NEW keys, OpenKey(f) \in keys
  PROVE  /\ RemovePrimary(f) \in Effect /\ EffectSound(keys, RemovePrimary(f))
         /\ RemovePrimary(f).file = f /\ RemovePrimary(f).op \in {"promote", "hide", "purge"}
         /\ UnlinkPrimary(f) \in Effect /\ EffectSound(keys, UnlinkPrimary(f))
<1>1. CASE LinksOf(f) # {}
  BY ZenonT(60), <1>1 DEF RemovePrimary, UnlinkPrimary, Effect, EffectSound
<1>2. CASE LinksOf(f) = {} /\ ActiveLease(f)
  BY ZenonT(60), <1>2 DEF RemovePrimary, UnlinkPrimary, Effect, EffectSound, Exists
<1>3. CASE LinksOf(f) = {} /\ ~ActiveLease(f)
  <2>1. NoneOpen(f)
    BY ZenonT(60), <1>3, NotActive
  <2> QED
    BY ZenonT(60), <1>3, <2>1 DEF RemovePrimary, UnlinkPrimary, Effect, EffectSound, Exists
<1> QED BY ZenonT(60), <1>1, <1>2, <1>3

\* The row behind a hardlink entry is there to be dropped.
LEMMA DropDecided ==
  ASSUME IInv, NEW e \in Entries, e.kind # "file", NEW keys, OpenKey(e.file) \in keys
  PROVE  /\ DropLink(e) \in Effect /\ EffectSound(keys, DropLink(e)) /\ DropLink(e).op = "drop"
         /\ DropLink(e).link.name = e.name /\ DropLink(e).link.file = e.file
<1> DEFINE l == [id |-> e.id, file |-> e.file, name |-> e.name]
<1>1. l \in links /\ l \in LinkRow
  BY ZenonT(60), EntryShape DEF IInv, TablesSound
<1>2. DropLink(e) = [op |-> "drop", link |-> l] /\ l.file = e.file /\ l.name = e.name
  BY ZenonT(60) DEF DropLink
<1> HIDE DEF l
<1> QED
  BY SMTT(60), <1>1, <1>2 DEF Effect, EffectSound

LEMMA UnlinkBeginInv ==
  ASSUME IInv, NEW m \in Mounts, UnlinkBegin(m)
  PROVE  IInv'
<1> PICK f, n : f = call[m].file /\ n = call[m].name
  BY ZenonT(60)
<1> DEFINE keys == {NameKey(n), OpenKey(f)}
           effect(e) == IF e.kind = "file" THEN UnlinkPrimary(e.file) ELSE DropLink(e)
<1>1. TypeOK /\ TablesSound(file, links) /\ call[m].step = "unlink"
  BY ZenonT(60) DEF IInv, UnlinkBegin, Serving
<1>2. f \in FileIds /\ n \in Names
  BY ZenonT(60), <1>1, CallShape
<1>3. /\ KeysFree(keys)
      /\ call' = [call EXCEPT ![m] = Idle]
      /\ UNCHANGED <<dbVars, up, handle, todo, lapsed>>
  BY ZenonT(60) DEF UnlinkBegin, Reply
<1>4. PICK e \in Entries : e.file = f /\ Begin(<<m, "fuse">>, keys, effect(e), None, None)
  BY ZenonT(60) DEF UnlinkBegin
<1>5. keys \in SUBSET Key /\ OpenKey(f) \in keys /\ <<m, "fuse">> \in Actors
  BY <1>2 DEF Key, OpenKey, NameKey, Actors
<1>6. effect(e) \in Effect /\ EffectSound(keys, effect(e))
  <2>1. CASE e.kind = "file"
    <3>1. file[f].state = "named"
      BY ZenonT(60), <1>1, <1>4, EntryShape
    <3> HIDE DEF keys
    <3> QED BY ZenonT(60), <1>2, <1>4, <1>5, <2>1, <3>1, RemovalDecided
  <2>2. CASE e.kind # "file"
    <3> HIDE DEF keys
    <3> QED BY Zenon, <1>4, <1>5, <2>2, DropDecided
  <2> QED BY ZenonT(60), <2>1, <2>2
<1>7. CallsOK'
  BY Zenon, <1>3, CallAnswered
<1>8. todo' \in [Mounts -> SUBSET FileIds] /\ \A k \in Mounts : todo'[k] \subseteq todo[k]
  BY ZenonT(60), <1>1, <1>3 DEF TypeOK
<1> HIDE DEF keys, effect
<1> QED
  BY ZenonT(60), <1>3, <1>4, <1>5, <1>6, <1>7, <1>8, BeginStep

LEMMA RenameBeginInv ==
  ASSUME IInv, NEW m \in Mounts, RenameBegin(m)
  PROVE  IInv'
<1> PICK s, g, n : s = call[m].source /\ g = call[m].target /\ n = call[m].name
  BY ZenonT(60)
<1> DEFINE keys == {NameKey(s.name), NameKey(n), OpenKey(s.file)}
                   \cup IF g = None THEN {} ELSE {OpenKey(g.file)}
           effect == IF g = None THEN None
                     ELSE IF g.kind = "file" THEN RemovePrimary(g.file) ELSE DropLink(g)
           move == [entry |-> s, to |-> n]
<1>1. TypeOK /\ TablesSound(file, links) /\ call[m].step = "rename"
  BY ZenonT(60) DEF IInv, RenameBegin, Serving
<1>2. s \in Entry /\ g \in Entry \cup {None} /\ n \in Names /\ (g # None => g.name = n)
  BY ZenonT(60), <1>1, CallShape
<1>3. /\ KeysFree(keys)
      /\ s \in Entries
      /\ IF g = None THEN Vacant(n) ELSE g \in Entries
      /\ IF g # None /\ g.file = s.file THEN UNCHANGED tx
         ELSE Begin(<<m, "fuse">>, keys, effect, move, None)
      /\ call' = [call EXCEPT ![m] = Idle]
      /\ UNCHANGED <<dbVars, up, handle, todo, lapsed>>
  BY ZenonT(60) DEF RenameBegin, Reply
<1>4. CallsOK'
  BY ZenonT(60), <1>3, CallAnswered
<1>5. CASE g # None /\ g.file = s.file
  BY ZenonT(60), <1>3, <1>4, <1>5, CallStep
<1>6. CASE ~(g # None /\ g.file = s.file)
  <2>1. keys \in SUBSET Key /\ NameKey(n) \in keys /\ OpenKey(s.file) \in keys
        /\ (g # None => OpenKey(g.file) \in keys) /\ <<m, "fuse">> \in Actors
    BY SMTT(60), <1>2 DEF Key, OpenKey, NameKey, Actors, Entry
  <2>2. move \in [entry : Entry, to : Names] /\ move.entry = s /\ move.to = n
    BY ZenonT(60), <1>2
  <2>3. todo' \in [Mounts -> SUBSET FileIds] /\ \A k \in Mounts : todo'[k] \subseteq todo[k]
    BY ZenonT(60), <1>1, <1>3 DEF TypeOK
  <2> HIDE DEF keys, move
  <2>4. CASE g = None
    <3>1. effect = None
      BY ZenonT(60), <2>4
    <3>2. MoveSound(keys, None, move)
      BY ZenonT(60), <1>3, <2>1, <2>2, <2>4 DEF MoveSound
    <3> HIDE DEF effect
    <3> QED
      BY ZenonT(60), <1>3, <1>4, <1>6, <2>1, <2>2, <2>3, <3>1, <3>2, BeginStep
  <2>5. CASE g # None /\ g.kind = "file"
    <3>1. effect = RemovePrimary(g.file) /\ g.file \in FileIds /\ g.file # s.file
      BY ZenonT(60), <1>2, <1>6, <2>5 DEF Entry
    <3>2. file[g.file].state = "named" /\ g.name = file[g.file].name
      BY ZenonT(60), <1>1, <1>3, <2>5, EntryShape
    <3>3. /\ effect \in Effect /\ EffectSound(keys, effect)
          /\ effect.file = g.file /\ effect.op \in {"promote", "hide", "purge"}
      BY ZenonT(60), <2>1, <2>5, <3>1, <3>2, RemovalDecided
    <3>4. g.name = n
      BY ZenonT(60), <1>2, <2>5
    <3> HIDE DEF effect
    <3>5. effect # None
      BY ZenonT(60), <3>3, NoneIsApart
    <3>6. MoveSound(keys, effect, move)
      BY ZenonT(60), <1>3, <2>1, <2>2, <3>1, <3>2, <3>3, <3>4, <3>5 DEF MoveSound
    <3> QED
      BY ZenonT(60), <1>3, <1>4, <1>6, <2>1, <2>2, <2>3, <3>3, <3>6, BeginStep
  <2>6. CASE g # None /\ g.kind # "file"
    <3>1. effect = DropLink(g) /\ g \in Entries /\ g.file # s.file /\ g.name = n
      BY ZenonT(60), <1>2, <1>3, <1>6, <2>6
    <3>2. /\ effect \in Effect /\ EffectSound(keys, effect) /\ effect.op = "drop"
          /\ effect.link.name = n /\ effect.link.file = g.file
      BY ZenonT(60), <2>1, <2>6, <3>1, DropDecided
    <3> HIDE DEF effect
    <3>3. effect # None
      BY ZenonT(60), <3>2, NoneIsApart
    <3>4. MoveSound(keys, effect, move)
      BY ZenonT(60), <1>3, <2>1, <2>2, <3>1, <3>2, <3>3 DEF MoveSound
    <3> QED
      BY ZenonT(60), <1>3, <1>4, <1>6, <2>1, <2>2, <2>3, <3>2, <3>4, BeginStep
  <2> QED BY ZenonT(60), <2>4, <2>5, <2>6
<1> QED BY ZenonT(60), <1>5, <1>6

\* A purge looks a second time, under the same key: what it finds then is right.
LEMMA RemoveInv ==
  ASSUME IInv, NEW a \in Actors, Remove(a)
  PROVE  IInv'
<1> PICK old, f : old = tx[a] /\ f = old.effect.file
  OBVIOUS
<1> DEFINE t == [old EXCEPT !.effect = RemovePrimary(f)]
<1>1. /\ old # None /\ old.effect # None /\ old.effect.op = "remove"
      /\ tx' = [tx EXCEPT ![a].effect = RemovePrimary(@.file)]
      /\ UNCHANGED <<dbVars, mountVars>>
  BY ZenonT(60) DEF Remove, Removing
<1>2. old \in Transaction /\ TransactionSound(old) /\ a \in DOMAIN tx
  BY ZenonT(60), <1>1 DEF IInv, TypeOK
<1>3. tx' = [tx EXCEPT ![a] = t]
  BY ZenonT(60), <1>1, <1>2
<1>4. old.effect \in Effect /\ EffectSound(old.keys, old.effect)
  BY ZenonT(60), <1>1, <1>2 DEF Transaction, TransactionSound
<1>5. f \in FileIds /\ OpenKey(f) \in old.keys /\ Exists(f) /\ LinksOf(f) = {}
  BY ZenonT(60), <1>1, <1>4 DEF Effect, EffectSound
<1>6. RemovePrimary(f) \in Effect /\ EffectSound(old.keys, RemovePrimary(f))
  <2>1. CASE ActiveLease(f)
    BY ZenonT(60), <1>5, <2>1 DEF RemovePrimary, Effect, EffectSound
  <2>2. CASE ~ActiveLease(f)
    <3>1. NoneOpen(f)
      BY Zenon, <1>5, <2>2, NotActive
    <3> QED
      BY ZenonT(60), <1>5, <2>2, <3>1 DEF RemovePrimary, Effect, EffectSound
  <2> QED BY ZenonT(60), <2>1, <2>2
<1>7. old.move = None
  BY ZenonT(60), <1>1, <1>2 DEF TransactionSound, MoveSound
<1>8. t \in Transaction /\ t.keys = old.keys /\ t.move = None /\ t.effect = RemovePrimary(f)
  BY ZenonT(60), <1>2, <1>6, <1>7 DEF Transaction
<1> HIDE DEF t
<1>9. TransactionSound(t)
  BY Zenon, <1>6, <1>8 DEF TransactionSound
<1>10. \A b \in Actors : b # a /\ tx[b] # None => tx[b].keys \cap t.keys = {}
  BY ZenonT(60), <1>1, <1>8 DEF IInv, LocksApart
<1>11. /\ CallsOK'
       /\ todo' \in [Mounts -> SUBSET FileIds] /\ \A m \in Mounts : todo'[m] \subseteq todo[m]
  BY ZenonT(60), <1>1 DEF IInv, TypeOK, CallsOK, mountVars
<1> QED
  BY Zenon, <1>1, <1>3, <1>8, <1>9, <1>10, <1>11, TransactionStep DEF mountVars

LEMMA AbortInv ==
  ASSUME IInv, NEW a \in Actors, Abort(a)
  PROVE  IInv'
<1>1. /\ tx' = [tx EXCEPT ![a] = None]
      /\ todo' = [todo EXCEPT ![a[1]] = IF a[2] = "maintenance" THEN {} ELSE @]
      /\ UNCHANGED <<dbVars, up, handle, call, lapsed>>
  BY ZenonT(60) DEF Abort
<1>2. /\ CallsOK'
      /\ todo' \in [Mounts -> SUBSET FileIds] /\ \A m \in Mounts : todo'[m] \subseteq todo[m]
  BY ZenonT(60), <1>1 DEF IInv, TypeOK, CallsOK, Actors
<1> QED
  BY ZenonT(60), <1>1, <1>2, TransactionStep

-----------------------------------------------------------------------------
(* Leases, sessions and handles. *)

\* A lease on a file that still has a name, under the key of the file: no transaction
\* that has decided on the file is under way.
LEMMA RegisterLeaseInv ==
  ASSUME IInv, NEW m \in Mounts, RegisterLease(m)
  PROVE  IInv'
<1> PICK f, h : f = call[m].file /\ h = call[m].handle
  OBVIOUS
<1>1. TypeOK /\ call[m].step \in {"open", "created"}
  BY ZenonT(60) DEF IInv, RegisterLease
<1>2. f \in FileIds /\ h \in Handles /\ f # None
  BY <1>1, CallShape, ConstantsOK, NoneIsApart DEF FileIds
<1>3. /\ KeysFree({OpenKey(f)})
      /\ file[f].state = "named"
      /\ SessionLive(m)
      /\ lease' = [lease EXCEPT ![m][h] = [file |-> f, left |-> TTL]]
      /\ handle' = [handle EXCEPT ![m][h] = f]
      /\ lapsed' = [lapsed EXCEPT ![m] = @ \ {h}]
      /\ UNCHANGED <<file, links, linkSeq, session, tx, up, todo>>
  BY ZenonT(60) DEF RegisterLease
<1>4. [file |-> f, left |-> TTL] \in LeaseRow
  BY SMTT(60), <1>2, ConstantsOK DEF LeaseRow
<1>5. CallsOK'
  <2>1. CASE call[m].step = "created"
    <3> DEFINE c == [call[m] EXCEPT !.step = "attrs"]
    <3>1. call' = [call EXCEPT ![m] = c]
      BY ZenonT(60), <2>1 DEF RegisterLease, Then
    <3>2. c \in CallRecord /\ c.step = "attrs"
      <4>1. call[m] \in [step : {"created", "attrs"}, file : FileIds, handle : Handles, name : Names]
        BY ZenonT(60), <1>1, <2>1, CallShape
      <4> QED BY ZenonT(60), <4>1 DEF CallRecord
    <3> HIDE DEF c
    <3> QED BY Zenon, <1>3, <3>1, <3>2, CallBecomes DEF IInv, TypeOK
  <2>2. CASE call[m].step # "created"
    BY ZenonT(60), <1>3, <2>2, CallAnswered DEF RegisterLease, Reply, IInv, TypeOK
  <2> QED BY ZenonT(60), <2>1, <2>2
<1>6. TypeOK'
  BY ZenonT(60), <1>1, <1>2, <1>3, <1>4, <1>5 DEF TypeOK, CallsOK
<1>7. \A n \in Mounts, k \in Handles : <<n, k>> # <<m, h>> =>
        /\ lease'[n][k] = lease[n][k] /\ handle'[n][k] = handle[n][k]
        /\ k \in lapsed'[n] <=> k \in lapsed[n]
  BY ZenonT(60), <1>1, <1>2, <1>3 DEF TypeOK
<1>8. lease'[m][h] = [file |-> f, left |-> TTL] /\ handle'[m][h] = f
  BY ZenonT(60), <1>1, <1>2, <1>3 DEF TypeOK
<1>9. UnderKeys({OpenKey(f)})
  <2>1. \A g \in FileIds : LinksOf(g)' = LinksOf(g)
    BY ZenonT(60), <1>3 DEF LinksOf
  <2>2. \A n \in Names : Vacant(n) => Vacant(n)'
    BY ZenonT(60), <1>3 DEF Vacant, Entries
  <2>3. ASSUME NEW g \in FileIds, OpenKey(g) \notin {OpenKey(f)}, NoneOpen(g) PROVE NoneOpen(g)'
    <3>1. g # f
      BY ZenonT(60), <2>3
    <3> QED BY ZenonT(60), <1>7, <1>8, <2>3, <3>1 DEF NoneOpen
  <2> QED BY ZenonT(60), <1>3, <2>1, <2>2, <2>3 DEF UnderKeys
<1>10. HandlesBacked'
  <2>1. SUFFICES ASSUME NEW n \in Mounts, NEW k \in Handles,
                        handle'[n][k] # None, k \notin lapsed'[n]
                 PROVE  /\ lease'[n][k] # None /\ lease'[n][k].file = handle'[n][k]
                        /\ lease'[n][k].left > 0 /\ SessionLive(n)'
    BY ZenonT(60) DEF HandlesBacked
  <2>2. CASE <<n, k>> = <<m, h>>
    <3>1. lease'[n][k] = [file |-> f, left |-> TTL] /\ handle'[n][k] = f /\ SessionLive(n)'
      BY ZenonT(60), <1>3, <1>8, <2>2 DEF SessionLive
    <3>2. lease'[n][k] # None
      BY ZenonT(60), <1>4, <3>1, NoneIsApart
    <3>3. TTL > 0
      BY SMTT(60), ConstantsOK
    <3> QED BY SMTT(60), <3>1, <3>2, <3>3
  <2>3. CASE <<n, k>> # <<m, h>>
    BY SMTT(60), <1>3, <1>7, <2>1, <2>3 DEF IInv, HandlesBacked, SessionLive
  <2> QED BY ZenonT(60), <2>2, <2>3
<1>11. InodeKept'
  BY SMTT(60), <1>3, <1>7, <1>8 DEF IInv, InodeKept, Exists
<1>12. TablesSound(file', links') /\ Serial' /\ SelectedIsNameless'
  BY ZenonT(60), <1>3 DEF IInv, Serial, SelectedIsNameless
<1>13. \A a \in Actors : tx'[a] # None => tx'[a] = tx[a] /\ tx[a].keys \cap {OpenKey(f)} = {}
  BY ZenonT(60), <1>3 DEF KeysFree
<1> QED
  BY ZenonT(60), <1>5, <1>6, <1>9, <1>10, <1>11, <1>12, <1>13, StepUnderKeys

\* A lease row changes in one place where no handle that counts is open, or with its handle.
LEMMA OneLease ==
  ASSUME IInv, NEW m \in Mounts, NEW h \in Handles, NEW r \in LeaseRow \cup {None},
         lease' = [lease EXCEPT ![m][h] = r],
         UNCHANGED <<file, links, linkSeq, session, tx, up, todo, lapsed>>,
         CallsOK',
         \/ handle[m][h] = None /\ handle' = handle
         \/ handle' = [handle EXCEPT ![m][h] = None]
  PROVE  IInv'
<1>1. TypeOK'
  <2>1. lease' \in [Mounts -> [Handles -> LeaseRow \cup {None}]]
    BY ZenonT(60) DEF IInv, TypeOK
  <2>2. handle' \in [Mounts -> [Handles -> FileIds \cup {None}]]
    <3>1. handle \in [Mounts -> [Handles -> FileIds \cup {None}]]
      BY ZenonT(60) DEF IInv, TypeOK
    <3>2. CASE handle' = [handle EXCEPT ![m][h] = None]
      BY ZenonT(60), <3>1, <3>2
    <3> QED BY ZenonT(60), <3>1, <3>2
  <2> QED
    BY ZenonT(60), <2>1, <2>2 DEF IInv, TypeOK, CallsOK
<1>2. handle'[m][h] = None
  BY SMTT(60) DEF IInv, TypeOK
<1>3. \A n \in Mounts, k \in Handles : <<n, k>> # <<m, h>> =>
        lease'[n][k] = lease[n][k] /\ handle'[n][k] = handle[n][k]
  BY DEF IInv, TypeOK
<1>4. OpenShrinks
  BY ZenonT(60), <1>2, <1>3 DEF OpenShrinks
<1>5. HandlesBacked'
  BY <1>2, <1>3 DEF IInv, HandlesBacked, SessionLive
<1>6. SelectedIsNameless'
  BY ZenonT(60) DEF IInv, SelectedIsNameless
<1> QED
  BY ZenonT(60), <1>1, <1>4, <1>5, <1>6, LeaseStep

LEMMA RegisterLostInv ==
  ASSUME IInv, NEW m \in Mounts, RegisterLost(m)
  PROVE  IInv'
<1> PICK f, h, n : f = call[m].file /\ h = call[m].handle /\ n = call[m].name
  OBVIOUS
<1>1. TypeOK /\ CallsOK /\ call[m].step \in {"open", "created"}
  BY ZenonT(60) DEF IInv, RegisterLost
<1>2. f \in FileIds /\ h \in Handles /\ (call[m].step = "created" => n \in Names)
  BY Zenon, <1>1, CallShape
<1>3. handle[m][h] = None
  BY ZenonT(60), <1>1 DEF CallsOK
<1>4. /\ lease' = [lease EXCEPT ![m][h] = [file |-> f, left |-> TTL]]
      /\ UNCHANGED <<file, links, linkSeq, session, tx, up, handle, todo, lapsed>>
  BY ZenonT(60) DEF RegisterLost
<1>5. [file |-> f, left |-> TTL] \in LeaseRow
  BY SMTT(60), <1>2, ConstantsOK DEF LeaseRow
<1>6. CallsOK'
  <2>1. CASE call[m].step = "created"
    <3> DEFINE c == [step |-> "rollback", file |-> f, name |-> n]
    <3>1. c \in CallRecord /\ c.step = "rollback"
      BY ZenonT(60), <1>2, <2>1 DEF CallRecord
    <3>2. call' = [call EXCEPT ![m] = c]
      BY ZenonT(60), <2>1 DEF RegisterLost, Then
    <3> HIDE DEF c
    <3> QED BY ZenonT(60), <1>4, <3>1, <3>2, CallBecomes
  <2>2. CASE call[m].step # "created"
    BY ZenonT(60), <1>4, <2>2, CallAnswered DEF RegisterLost, Reply
  <2> QED BY ZenonT(60), <2>1, <2>2
<1> QED
  BY ZenonT(60), <1>2, <1>3, <1>4, <1>5, <1>6, OneLease

LEMMA CreateFailsInv ==
  ASSUME IInv, NEW m \in Mounts, NEW deleted \in BOOLEAN, CreateFails(m, deleted)
  PROVE  IInv'
<1> PICK f, h, n : f = call[m].file /\ h = call[m].handle /\ n = call[m].name
  BY ZenonT(60)
<1> PICK r : r = IF deleted THEN None ELSE lease[m][h]
  BY ZenonT(60)
<1> DEFINE c == [step |-> "rollback", file |-> f, name |-> n]
<1>1. TypeOK /\ call[m].step = "attrs"
  BY ZenonT(60) DEF IInv, CreateFails, Serving
<1>2. f \in FileIds /\ h \in Handles /\ n \in Names
  BY ZenonT(60), <1>1, CallShape
<1>3. /\ handle' = [handle EXCEPT ![m][h] = None]
      /\ lease' = [lease EXCEPT ![m][h] = IF deleted THEN None ELSE @]
      /\ call' = [call EXCEPT ![m] = c]
      /\ UNCHANGED <<file, links, linkSeq, session, tx, up, todo, lapsed>>
  BY ZenonT(60) DEF CreateFails, Then
<1>4. c \in CallRecord /\ c.step = "rollback"
  BY ZenonT(60), <1>2 DEF CallRecord
<1> HIDE DEF c
<1>5. CallsOK'
  BY ZenonT(60), <1>1, <1>3, <1>4, CallBecomes DEF TypeOK
<1>6. r \in LeaseRow \cup {None} /\ lease' = [lease EXCEPT ![m][h] = r]
  BY ZenonT(60), <1>1, <1>2, <1>3 DEF TypeOK
<1>7. /\ handle' = [handle EXCEPT ![m][h] = None]
      /\ UNCHANGED <<file, links, linkSeq, session, tx, up, todo, lapsed>>
  BY ZenonT(60), <1>3
<1> QED
  BY Zenon, <1>2, <1>5, <1>6, <1>7, OneLease

LEMMA ReleaseInv ==
  ASSUME IInv, NEW m \in Mounts, NEW h \in Handles, NEW deleted \in BOOLEAN,
         NEW flushed \in BOOLEAN, Release(m, h, deleted, flushed)
  PROVE  IInv'
<1> PICK f, r : f = handle[m][h] /\ r = IF deleted THEN None ELSE lease[m][h]
  BY ZenonT(60)
<1>1. TypeOK
  BY ZenonT(60) DEF IInv
<1>2. /\ f # None
      /\ handle' = [handle EXCEPT ![m][h] = None]
      /\ lease' = [lease EXCEPT ![m][h] = IF deleted THEN None ELSE @]
      /\ UNCHANGED <<file, links, linkSeq, session, tx, up, todo, lapsed>>
  BY ZenonT(60) DEF Release
<1>3. f \in FileIds
  BY SMTT(60), <1>1, <1>2 DEF TypeOK
<1>4. \A n \in Mounts : n # m => handle'[n] = handle[n]
  BY Zenon, <1>1, <1>2 DEF TypeOK
<1>5. CallsOK'
  <2>1. CASE flushed
    <3> DEFINE c == [step |-> "finalize", file |-> f]
    <3>1. c \in CallRecord /\ c.step = "finalize"
      BY ZenonT(60), <1>3 DEF CallRecord
    <3>2. call' = [call EXCEPT ![m] = c]
      BY ZenonT(60), <2>1 DEF Release, Then
    <3> HIDE DEF c
    <3> QED BY ZenonT(60), <1>4, <3>1, <3>2, CallBecomes
  <2>2. CASE ~flushed
    BY ZenonT(60), <1>4, <2>2, CallAnswered DEF Release, Reply
  <2> QED BY ZenonT(60), <2>1, <2>2
<1>6. r \in LeaseRow \cup {None} /\ lease' = [lease EXCEPT ![m][h] = r]
  BY ZenonT(60), <1>1, <1>2 DEF TypeOK
<1> QED
  BY ZenonT(60), <1>2, <1>5, <1>6, OneLease

\* A step of the leases and the sessions beside the callbacks.
LEMMA ClockStep ==
  ASSUME IInv, UNCHANGED <<file, links, linkSeq, tx, up, handle, call, todo>>,
         session' \in [Mounts -> 0..TTL \cup {None}],
         lease' \in [Mounts -> [Handles -> LeaseRow \cup {None}]],
         lapsed' \in [Mounts -> SUBSET Handles],
         \A m \in Mounts : lapsed[m] \subseteq lapsed'[m],
         HandlesBacked'
  PROVE  IInv'
<1>1. TypeOK' /\ CallsOK'
  BY ZenonT(60) DEF IInv, TypeOK, CallsOK
<1>2. OpenShrinks
  BY ZenonT(60) DEF OpenShrinks
<1>3. SelectedIsNameless'
  BY ZenonT(60) DEF IInv, SelectedIsNameless
<1> QED
  BY Zenon, <1>1, <1>2, <1>3, LeaseStep

\* heartbeat_client_session may revive an expired session; no handle comes back with it.
LEMMA HeartbeatSessionInv ==
  ASSUME IInv, NEW m \in Mounts, HeartbeatSession(m)
  PROVE  IInv'
<1>1. /\ session' = [session EXCEPT ![m] = TTL]
      /\ UNCHANGED <<file, links, linkSeq, lease, tx, up, handle, call, todo, lapsed>>
  BY ZenonT(60) DEF HeartbeatSession, mountVars
<1>2. TTL \in 0..TTL /\ TTL > 0 /\ TTL # None
  BY SMTT(60), ConstantsOK, NoneIsApart
<1>3. session' \in [Mounts -> 0..TTL \cup {None}]
  BY ZenonT(60), <1>1, <1>2 DEF IInv, TypeOK
<1>4. \A n \in Mounts : SessionLive(n) => SessionLive(n)'
  BY ZenonT(60), <1>1, <1>2 DEF IInv, TypeOK, SessionLive
<1>5. HandlesBacked'
  BY ZenonT(60), <1>1, <1>4 DEF IInv, HandlesBacked
<1>6. /\ lease' \in [Mounts -> [Handles -> LeaseRow \cup {None}]]
      /\ lapsed' \in [Mounts -> SUBSET Handles]
      /\ \A n \in Mounts : lapsed[n] \subseteq lapsed'[n]
  BY ZenonT(60), <1>1 DEF IInv, TypeOK
<1> QED
  BY ZenonT(60), <1>1, <1>3, <1>5, <1>6, ClockStep

LEMMA HeartbeatLeasesInv ==
  ASSUME IInv, NEW m \in Mounts, HeartbeatLeases(m)
  PROVE  IInv'
<1>1. /\ lease' = [lease EXCEPT ![m] = [h \in Handles |->
                     IF @[h] # None /\ @[h].left > 0 THEN [@[h] EXCEPT !.left = TTL]
                     ELSE @[h]]]
      /\ UNCHANGED <<file, links, linkSeq, session, tx, up, handle, call, todo, lapsed>>
  BY ZenonT(60) DEF HeartbeatLeases, mountVars
<1>2. TTL \in 0..TTL /\ TTL > 0
  BY SMTT(60), ConstantsOK
<1>3. lease \in [Mounts -> [Handles -> LeaseRow \cup {None}]]
  BY ZenonT(60) DEF IInv, TypeOK
<1>4. \A n \in Mounts, h \in Handles :
        lease'[n][h] = IF n = m /\ lease[n][h] # None /\ lease[n][h].left > 0
                       THEN [lease[n][h] EXCEPT !.left = TTL] ELSE lease[n][h]
  BY ZenonT(60), <1>1, <1>3
<1>5. ASSUME NEW r \in LeaseRow
      PROVE  LET s == [r EXCEPT !.left = TTL] IN s \in LeaseRow /\ s.file = r.file /\ s.left = TTL
  BY ZenonT(60), <1>2 DEF LeaseRow
<1>6. ASSUME NEW n \in Mounts, NEW h \in Handles PROVE lease'[n][h] \in LeaseRow \cup {None}
  <2> PICK r : r = lease[n][h]
    BY ZenonT(60)
  <2>1. r \in LeaseRow \/ r = None
    BY ZenonT(60), <1>3
  <2>2. lease'[n][h] = r \/ (r # None /\ lease'[n][h] = [r EXCEPT !.left = TTL])
    BY ZenonT(60), <1>4
  <2> QED BY ZenonT(60), <1>5, <2>1, <2>2
<1>7. lease' \in [Mounts -> [Handles -> LeaseRow \cup {None}]]
  BY ZenonT(60), <1>1, <1>3, <1>6
<1>8. HandlesBacked'
  <2>1. SUFFICES ASSUME NEW n \in Mounts, NEW h \in Handles,
                        handle[n][h] # None, h \notin lapsed[n]
                 PROVE  /\ lease'[n][h] # None /\ lease'[n][h].file = handle[n][h]
                        /\ lease'[n][h].left > 0 /\ SessionLive(n)
    BY SMTT(60), <1>1 DEF HandlesBacked, SessionLive
  <2>2. /\ lease[n][h] \in LeaseRow /\ lease[n][h].file = handle[n][h]
        /\ lease[n][h].left > 0 /\ SessionLive(n) /\ lease[n][h] # None
    BY SMTT(60), <1>3, <2>1 DEF IInv, HandlesBacked
  <2> PICK r : r = lease[n][h]
    OBVIOUS
  <2>3. CASE n = m
    <3>1. lease'[n][h] = [r EXCEPT !.left = TTL]
      BY ZenonT(60), <1>4, <2>2, <2>3
    <3>2. lease'[n][h] \in LeaseRow /\ lease'[n][h].file = r.file /\ lease'[n][h].left = TTL
      BY ZenonT(60), <1>5, <2>2, <3>1
    <3> QED BY ZenonT(60), <1>2, <2>2, <3>2, NoneIsApart
  <2>4. CASE n # m
    BY ZenonT(60), <1>4, <2>2, <2>4
  <2> QED BY ZenonT(60), <2>3, <2>4
<1>9. /\ session' \in [Mounts -> 0..TTL \cup {None}]
      /\ lapsed' \in [Mounts -> SUBSET Handles]
      /\ \A n \in Mounts : lapsed[n] \subseteq lapsed'[n]
  BY ZenonT(60), <1>1 DEF IInv, TypeOK
<1> QED
  BY ZenonT(60), <1>1, <1>7, <1>8, <1>9, ClockStep

\* Only sessions that have expired are pruned, and their handles have lapsed.
LEMMA PruneSessionsInv ==
  ASSUME IInv, NEW m \in Mounts, PruneSessions(m)
  PROVE  IInv'
<1> DEFINE expired == {n \in Mounts : session[n] = 0}
<1>1. /\ session' = [n \in Mounts |-> IF n \in expired THEN None ELSE session[n]]
      /\ lease' = [n \in Mounts |-> IF n \in expired THEN [h \in Handles |-> None] ELSE lease[n]]
      /\ UNCHANGED <<file, links, linkSeq, tx, up, handle, call, todo, lapsed>>
  BY ZenonT(60) DEF PruneSessions, mountVars
<1>2. /\ session' \in [Mounts -> 0..TTL \cup {None}]
      /\ lease' \in [Mounts -> [Handles -> LeaseRow \cup {None}]]
  BY ZenonT(60), <1>1 DEF IInv, TypeOK
<1>3. ASSUME NEW n \in Mounts, SessionLive(n) PROVE SessionLive(n)' /\ lease'[n] = lease[n]
  <2>1. session[n] # 0
    BY SMTT(60), <1>3 DEF SessionLive
  <2>2. n \notin expired
    BY Zenon, <2>1
  <2>3. session'[n] = session[n] /\ lease'[n] = lease[n]
    BY Zenon, <1>1, <2>2
  <2> QED BY Zenon, <1>3, <2>3 DEF SessionLive
<1>4. HandlesBacked'
  BY ZenonT(60), <1>1, <1>3 DEF IInv, HandlesBacked
<1>5. lapsed' \in [Mounts -> SUBSET Handles] /\ \A n \in Mounts : lapsed[n] \subseteq lapsed'[n]
  BY ZenonT(60), <1>1 DEF IInv, TypeOK
<1> QED
  BY ZenonT(60), <1>1, <1>2, <1>4, <1>5, ClockStep

\* What ends with a tick is marked as lapsed in the same step.
LEMMA TickInv ==
  ASSUME IInv, Tick
  PROVE  IInv'
<1>1. /\ session' = [m \in Mounts |-> Older(session[m])]
      /\ lease' = [m \in Mounts |-> [h \in Handles |->
           IF lease[m][h] = None THEN None ELSE [lease[m][h] EXCEPT !.left = Older(@)]]]
      /\ lapsed' = [m \in Mounts |-> {h \in Handles :
           \/ h \in lapsed[m]
           \/ handle[m][h] # None
              /\ (session'[m] \in {None, 0} \/ lease'[m][h] = None \/ lease'[m][h].left = 0)}]
      /\ UNCHANGED <<file, links, linkSeq, tx, up, handle, call, todo>>
  BY ZenonT(60) DEF Tick
<1>2. \A x \in 0..TTL : Older(x) \in 0..TTL
  BY ConstantsOK DEF Older
<1>3. Older(None) = None
  BY ZenonT(60) DEF Older
<1>4. session' \in [Mounts -> 0..TTL \cup {None}]
  BY Zenon, <1>1, <1>2, <1>3 DEF IInv, TypeOK
<1>5. ASSUME NEW r \in LeaseRow
      PROVE  LET s == [r EXCEPT !.left = Older(@)]
             IN  s \in LeaseRow /\ s.file = r.file
  BY ZenonT(60), <1>2 DEF LeaseRow
<1>6. ASSUME NEW m \in Mounts, NEW h \in Handles
      PROVE  /\ lease'[m][h] \in LeaseRow \cup {None}
             /\ lease[m][h] \in LeaseRow =>
                  lease'[m][h] \in LeaseRow /\ lease'[m][h].file = lease[m][h].file
  <2> PICK r : r = lease[m][h]
    OBVIOUS
  <2>1. r \in LeaseRow \/ r = None
    BY DEF IInv, TypeOK
  <2>2. lease'[m][h] = IF r = None THEN None ELSE [r EXCEPT !.left = Older(@)]
    BY ZenonT(60), <1>1
  <2> QED BY ZenonT(60), <1>5, <2>1, <2>2, NoneIsApart
<1>7. lease' \in [Mounts -> [Handles -> LeaseRow \cup {None}]]
  BY ZenonT(60), <1>1, <1>6
<1>8. lapsed' \in [Mounts -> SUBSET Handles] /\ \A n \in Mounts : lapsed[n] \subseteq lapsed'[n]
  <2>1. lapsed \in [Mounts -> SUBSET Handles]
    BY ZenonT(60) DEF IInv, TypeOK
  <2> QED BY ZenonT(60), <1>1, <2>1
<1>9. HandlesBacked'
  <2>1. SUFFICES ASSUME NEW m \in Mounts, NEW h \in Handles,
                        handle[m][h] # None, h \notin lapsed'[m]
                 PROVE  /\ lease'[m][h] # None /\ lease'[m][h].file = handle[m][h]
                        /\ lease'[m][h].left > 0 /\ session'[m] # None /\ session'[m] > 0
    BY SMTT(60), <1>1 DEF HandlesBacked, SessionLive
  <2>2. /\ h \notin lapsed[m] /\ session'[m] \notin {None, 0}
        /\ lease'[m][h] # None /\ lease'[m][h].left # 0
    BY ZenonT(60), <1>1, <2>1
  <2>3. lease[m][h] \in LeaseRow /\ lease[m][h].file = handle[m][h]
    <3>1. lease[m][h] # None /\ lease[m][h].file = handle[m][h]
      BY ZenonT(60), <2>1, <2>2 DEF IInv, HandlesBacked
    <3>2. lease[m][h] \in LeaseRow \cup {None}
      BY SMTT(60) DEF IInv, TypeOK
    <3> QED BY Zenon, <3>1, <3>2
  <2>4. lease'[m][h] \in LeaseRow /\ lease'[m][h].file = handle[m][h]
    BY ZenonT(60), <1>6, <2>3
  <2>5. session'[m] \in 0..TTL /\ lease'[m][h].left \in 0..TTL
    BY ZenonT(60), <1>4, <2>2, <2>4 DEF LeaseRow
  <2> QED BY SMTT(60), <2>2, <2>4, <2>5, ConstantsOK
<1> QED
  BY ZenonT(60), <1>1, <1>4, <1>7, <1>8, <1>9, ClockStep

LEMMA SelectOrphansInv ==
  ASSUME IInv, NEW m \in Mounts, SelectOrphans(m)
  PROVE  IInv'
<1> DEFINE orphans == {f \in FileIds : file[f].state = "unlinked" /\ ~ActiveLease(f)}
<1>1. /\ todo' = [todo EXCEPT ![m] = orphans]
      /\ UNCHANGED <<file, links, linkSeq, session, lease, tx, up, handle, call, lapsed>>
  BY ZenonT(60) DEF SelectOrphans, dbVars
<1>2. orphans \in SUBSET FileIds /\ \A f \in orphans : file[f].state = "unlinked"
  BY ZenonT(60)
<1> HIDE DEF orphans
<1>3. TypeOK' /\ CallsOK'
  BY ZenonT(60), <1>1, <1>2 DEF IInv, TypeOK, CallsOK
<1>4. OpenShrinks /\ HandlesBacked'
  BY ZenonT(60), <1>1 DEF IInv, OpenShrinks, HandlesBacked, SessionLive
<1>5. SelectedIsNameless'
  BY ZenonT(60), <1>1, <1>2 DEF IInv, TypeOK, SelectedIsNameless
<1> QED
  BY ZenonT(60), <1>1, <1>3, <1>4, <1>5, LeaseStep

LEMMA CrashInv ==
  ASSUME IInv, NEW m \in Mounts, Crash(m)
  PROVE  IInv'
<1>1. /\ up' = up \ {m}
      /\ handle' = [handle EXCEPT ![m] = [h \in Handles |-> None]]
      /\ call' = [call EXCEPT ![m] = Idle]
      /\ todo' = [todo EXCEPT ![m] = {}]
      /\ lapsed' = [lapsed EXCEPT ![m] = {}]
      /\ UNCHANGED <<file, links, linkSeq, session, lease, tx>>
  BY ZenonT(60) DEF Crash, dbVars
<1>2. \A h \in Handles : handle'[m][h] = None
  BY ZenonT(60), <1>1 DEF IInv, TypeOK
<1>3. \A n \in Mounts : n # m => handle'[n] = handle[n] /\ lapsed'[n] = lapsed[n]
  BY ZenonT(60), <1>1 DEF IInv, TypeOK
<1>4. CallsOK'
  BY ZenonT(60), <1>1, <1>3, CallAnswered
<1>5. TypeOK'
  BY ZenonT(60), <1>1, <1>4 DEF IInv, TypeOK, CallsOK
<1>6. OpenShrinks
  BY ZenonT(60), <1>2, <1>3 DEF OpenShrinks
<1>7. HandlesBacked'
  BY SMTT(60), <1>1, <1>2, <1>3 DEF IInv, HandlesBacked, SessionLive
<1>8. SelectedIsNameless'
  BY ZenonT(60), <1>1 DEF IInv, TypeOK, SelectedIsNameless
<1> QED
  BY ZenonT(60), <1>1, <1>4, <1>5, <1>6, <1>7, <1>8, LeaseStep

-----------------------------------------------------------------------------
(* The tables. *)

\* The next serial is the id of a file that has not been.
LEMMA NextIsUnborn ==
  ASSUME IInv, NEW f \in FileIds,
         f = 1 + Cardinality({g \in FileIds : file[g].state # "unborn"})
  PROVE  /\ file[f].state = "unborn"
         /\ \A g \in FileIds : file[g].state # "unborn" <=> g <= f - 1
<1>1. PICK n \in 0..MaxFiles : \A g \in FileIds : file[g].state # "unborn" <=> g <= n
  BY ZenonT(60) DEF IInv, Serial
<1>2. {g \in FileIds : file[g].state # "unborn"} = {g \in FileIds : g <= n}
  BY ZenonT(60), <1>1
<1>3. {g \in FileIds : g <= n} = 1..n
  BY ConstantsOK DEF FileIds
<1>4. Cardinality(1..n) = n
  BY FS_Interval
<1>5. f = n + 1
  <2>1. {g \in FileIds : file[g].state # "unborn"} = 1..n
    BY ZenonT(60), <1>2, <1>3
  <2>2. f = 1 + Cardinality(1..n)
    BY ZenonT(60), <2>1
  <2> QED BY <1>4, <2>2
<1>6. n \in Nat /\ ~(n + 1 <= n) /\ f - 1 = n
  BY <1>5
<1> QED BY ZenonT(60), <1>1, <1>5, <1>6

LEMMA CreateInv ==
  ASSUME IInv, NEW m \in Mounts, NEW h \in Handles, NEW n \in Names, NEW f \in FileIds,
         NEW known \in BOOLEAN, Create(m, h, n, f, known)
  PROVE  IInv'
<1> DEFINE row == [state |-> "named", name |-> n]
<1>1. /\ handle[m][h] = None
      /\ KeysFree({NameKey(n)})
      /\ Vacant(n)
      /\ file' = [file EXCEPT ![f] = row]
      /\ UNCHANGED <<links, linkSeq, session, lease, tx, up, handle, todo, lapsed>>
  BY ZenonT(60) DEF Create, FreshHandle
<1>2. file[f].state = "unborn" /\ \A g \in FileIds : file[g].state # "unborn" <=> g <= f - 1
  BY Zenon, NextIsUnborn DEF Create
<1>3. row \in FileRow /\ row.state = "named" /\ row.name = n
  BY ZenonT(60) DEF FileRow
<1> HIDE DEF row
<1>4. /\ file' \in [FileIds -> FileRow] /\ file'[f] = row
      /\ \A g \in FileIds : g # f => file'[g] = file[g]
  BY ZenonT(60), <1>1, <1>3 DEF IInv, TypeOK
<1>5. CallsOK'
  <2>1. CASE known
    <3> DEFINE c == [step |-> "created", file |-> f, handle |-> h, name |-> n]
    <3>1. c \in CallRecord /\ c.handle = h
      BY ZenonT(60) DEF CallRecord
    <3>2. call' = [call EXCEPT ![m] = c]
      BY ZenonT(60), <2>1 DEF Create, Then
    <3> HIDE DEF c
    <3> QED BY ZenonT(60), <1>1, <3>1, <3>2, CallBecomes
  <2>2. CASE ~known
    BY ZenonT(60), <1>1, <2>2, CallAnswered DEF Create, Reply
  <2> QED BY ZenonT(60), <2>1, <2>2
<1>6. TypeOK'
  BY ZenonT(60), <1>1, <1>4, <1>5 DEF IInv, TypeOK, CallsOK
<1>7. /\ \A g \in FileIds : file[g].state = "named" => file[g].name # n
      /\ \A l \in links : l.name # n
  BY ZenonT(60), <1>1, VacantRows
<1>8. \A l \in links : l.file \in FileIds /\ l.file # f
  BY ZenonT(60), <1>2 DEF IInv, TablesSound, LinkRow
<1>9. TablesSound(file', links')
  BY ZenonT(60), <1>1, <1>2, <1>3, <1>4, <1>7, <1>8 DEF IInv, TablesSound
<1>10. Serial'
  <2>1. f \in Nat /\ f \in 0..MaxFiles
    BY SMTT(60), ConstantsOK DEF FileIds
  <2>2. \A g \in FileIds : file'[g].state # "unborn" <=> g <= f
    BY SMTT(60), <1>2, <1>3, <1>4, <2>1 DEF FileIds
  <2> QED BY ZenonT(60), <1>1, <2>1, <2>2 DEF IInv, Serial
<1>11. HandlesBacked'
  BY ZenonT(60), <1>1 DEF IInv, HandlesBacked, SessionLive
<1>12. InodeKept'
  <2>1. \A g \in FileIds : Exists(g) => Exists(g)'
    BY ZenonT(60), <1>2, <1>4 DEF Exists
  <2> QED BY SMTT(60), <1>1, <2>1 DEF IInv, InodeKept, TypeOK
<1>13. SelectedIsNameless'
  BY ZenonT(60), <1>1, <1>2, <1>4 DEF IInv, SelectedIsNameless, TypeOK
<1>14. UnderKeys({NameKey(n)})
  <2>1. \A g \in FileIds : LinksOf(g)' = LinksOf(g) /\ (NoneOpen(g) => NoneOpen(g)')
    BY ZenonT(60), <1>1 DEF LinksOf, NoneOpen
  <2>2. ASSUME NEW k \in Names, NameKey(k) \notin {NameKey(n)}, Vacant(k) PROVE Vacant(k)'
    <3>1. k # n
      BY ZenonT(60), <2>2
    <3>2. /\ \A g \in FileIds : file[g].state = "named" => file[g].name # k
          /\ \A l \in links : l.name # k
      BY ZenonT(60), <2>2, VacantRows
    <3>3. /\ \A g \in FileIds : file'[g].state = "named" => file'[g].name # k
          /\ \A l \in links' : l.name # k
      BY ZenonT(60), <1>1, <1>3, <1>4, <3>1, <3>2
    <3> QED BY Zenon, <3>3, VacantNext
  <2> QED BY ZenonT(60), <1>2, <1>4, <2>1, <2>2 DEF UnderKeys
<1>15. \A a \in Actors : tx'[a] # None => tx'[a] = tx[a] /\ tx[a].keys \cap {NameKey(n)} = {}
  BY ZenonT(60), <1>1 DEF KeysFree
<1> QED
  BY ZenonT(60), <1>5, <1>6, <1>9, <1>10, <1>11, <1>12, <1>13, <1>14, <1>15, StepUnderKeys

LEMMA LinkCommitInv ==
  ASSUME IInv, NEW m \in Mounts, LinkCommit(m)
  PROVE  IInv'
<1> PICK s, n : s = call[m].source /\ n = call[m].name
  BY ZenonT(60)
<1> DEFINE l == [id |-> linkSeq + 1, file |-> s.file, name |-> n]
           K == {NameKey(s.name), NameKey(n), OpenKey(s.file)}
<1>1. TypeOK /\ TablesSound(file, links) /\ call[m].step = "link"
  BY ZenonT(60) DEF IInv, LinkCommit, Serving
<1>2. s \in Entry /\ n \in Names
  BY ZenonT(60), <1>1, CallShape
<1>3. /\ KeysFree(K)
      /\ s \in Entries
      /\ Vacant(n)
      /\ linkSeq + 1 \in LinkIds
      /\ linkSeq' = linkSeq + 1
      /\ links' = links \cup {l}
      /\ call' = [call EXCEPT ![m] = Idle]
      /\ UNCHANGED <<file, session, lease, tx, up, handle, todo, lapsed>>
  BY ZenonT(60) DEF LinkCommit, Reply
<1>4. s.file \in FileIds /\ file[s.file].state = "named"
  BY ZenonT(60), <1>1, <1>2, <1>3, EntryShape DEF Entry
<1>5. l \in LinkRow /\ l.id = linkSeq + 1 /\ l.file = s.file /\ l.name = n
  BY ZenonT(60), <1>2, <1>3, <1>4 DEF LinkRow
<1>6. NameKey(n) \in K /\ OpenKey(s.file) \in K
  BY ZenonT(60)
<1> HIDE DEF l, K
<1>7. CallsOK'
  BY Zenon, <1>3, CallAnswered
<1>8. TypeOK'
  <2>1. call' \in [Mounts -> CallRecord]
    BY Zenon, <1>7 DEF CallsOK
  <2>2. links' \subseteq LinkRow
    BY Zenon, <1>1, <1>3, <1>5 DEF TypeOK
  <2>3. linkSeq' \in 0..MaxLinks
    BY SMTT(60), <1>1, <1>3 DEF TypeOK, LinkIds
  <2> QED BY ZenonT(60), <1>1, <1>3, <2>1, <2>2, <2>3 DEF TypeOK
<1>9. linkSeq \in Nat /\ \A k \in links : k.id \in Nat /\ k.id <= linkSeq
  BY SMTT(60), <1>1, ConstantsOK DEF IInv, Serial, TypeOK, LinkRow, LinkIds
<1>10. \A k \in links : k.id # l.id
  BY <1>5, <1>9
<1>11. /\ \A g \in FileIds : file[g].state = "named" => file[g].name # n
       /\ \A k \in links : k.name # n
  BY ZenonT(60), <1>3, VacantRows
<1>12. TablesSound(file', links')
  <2>1. links' \subseteq LinkRow /\ \A k \in links' : file[k.file].state = "named"
    BY ZenonT(60), <1>1, <1>3, <1>4, <1>5 DEF TablesSound
  <2>2. \A j, k \in links' : j.id = k.id => j = k
    BY ZenonT(60), <1>1, <1>3, <1>10 DEF TablesSound
  <2>3. \A g \in FileIds, k \in links' : file[g].state = "named" => file[g].name # k.name
    BY ZenonT(60), <1>1, <1>3, <1>5, <1>11 DEF TablesSound
  <2>4. \A j, k \in links' : j.name = k.name => j = k
    BY ZenonT(60), <1>1, <1>3, <1>5, <1>11 DEF TablesSound
  <2>5. TablesSound(file, links')
    BY ZenonT(60), <1>1, <2>1, <2>2, <2>3, <2>4 DEF TablesSound
  <2> QED BY Zenon, <1>3, <2>5
<1>13. Serial'
  <2>1. ASSUME NEW k \in links' PROVE k.id <= linkSeq'
    <3>1. linkSeq' = linkSeq + 1 /\ linkSeq \in Nat
      BY Zenon, <1>3, <1>9
    <3>2. CASE k \in links
      <4>1. k.id \in Nat /\ k.id <= linkSeq
        BY Zenon, <1>9, <3>2
      <4> QED BY ONLY <3>1, <4>1, SMTT(60)
    <3>3. CASE k = l
      <4>1. k.id = linkSeq + 1
        BY Zenon, <1>5, <3>3
      <4> QED BY ONLY <3>1, <4>1, SMTT(60)
    <3> QED BY Zenon, <1>3, <3>2, <3>3
  <2>2. \E i \in 0..MaxFiles : \A f \in FileIds : file[f].state # "unborn" <=> f <= i
    BY Zenon DEF IInv, Serial
  <2> QED BY Zenon, <1>3, <2>1, <2>2 DEF Serial
<1>14. HandlesBacked' /\ InodeKept' /\ SelectedIsNameless'
  <2>1. HandlesBacked'
    BY Zenon, <1>3 DEF IInv, HandlesBacked, SessionLive
  <2>2. InodeKept'
    BY Zenon, <1>3 DEF IInv, InodeKept, Exists
  <2>3. SelectedIsNameless'
    BY Zenon, <1>3 DEF IInv, SelectedIsNameless
  <2> QED BY Zenon, <2>1, <2>2, <2>3
<1>15. UnderKeys(K)
  <2>1. ASSUME NEW g \in FileIds, OpenKey(g) \notin K PROVE LinksOf(g)' = LinksOf(g)
    <3>1. g # s.file
      BY ZenonT(60), <1>6, <2>1
    <3> QED BY ZenonT(60), <1>3, <1>5, <3>1 DEF LinksOf
  <2>2. ASSUME NEW k \in Names, NameKey(k) \notin K, Vacant(k) PROVE Vacant(k)'
    <3>1. k # n
      BY ZenonT(60), <1>6, <2>2
    <3>2. /\ \A g \in FileIds : file'[g].state = "named" => file'[g].name # k
          /\ \A j \in links' : j.name # k
      BY Zenon, <1>3, <1>5, <2>2, <3>1, VacantRows
    <3> QED BY Zenon, <3>2, VacantNext
  <2>3. \A g \in FileIds : NoneOpen(g) => NoneOpen(g)'
    BY ZenonT(60), <1>3 DEF NoneOpen
  <2> QED BY Zenon, <1>3, <2>1, <2>2, <2>3 DEF UnderKeys
<1>16. \A a \in Actors : tx'[a] # None => tx'[a] = tx[a] /\ tx[a].keys \cap K = {}
  BY ZenonT(60), <1>3 DEF KeysFree
<1> QED
  BY ZenonT(60), <1>7, <1>8, <1>12, <1>13, <1>14, <1>15, <1>16, StepUnderKeys

\* G is F but for the row of f, which fits the other rows and the links M.
RowFits(F, G, M, f) ==
  /\ G \in [FileIds -> FileRow]
  /\ \A g \in FileIds : g # f => G[g] = F[g]
  /\ G[f].state = "unlinked" => G[f].name = Hidden
  /\ G[f].state = "named" => G[f].name \in Names
  /\ G[f].state = "named" =>
       \A g \in FileIds : g # f /\ F[g].state = "named" => F[g].name # G[f].name
  /\ G[f].state = "named" => \A l \in M : l.name # G[f].name
  /\ \A l \in M : l.file \in FileIds
  /\ \A l \in M : l.file = f => G[f].state = "named"

\* One file's row changes, and no link is added.
LEMMA OneRowChanged ==
  ASSUME NEW F, NEW L, TablesSound(F, L), NEW G, NEW M, M \subseteq L,
         NEW f \in FileIds, RowFits(F, G, M, f)
  PROVE  TablesSound(G, M)
<1> USE DEF RowFits
<1>1. M \subseteq LinkRow
  BY Zenon DEF TablesSound
<1>2. ASSUME NEW g \in FileIds, G[g].state = "named" PROVE G[g].name \in Names
  BY Zenon, <1>2 DEF TablesSound
<1>3. ASSUME NEW g \in FileIds, G[g].state = "unlinked" PROVE G[g].name = Hidden
  BY Zenon, <1>3 DEF TablesSound
<1>4. ASSUME NEW l \in M PROVE G[l.file].state = "named"
  <2>1. CASE l.file = f
    BY Zenon, <2>1
  <2>2. CASE l.file # f
    <3>1. F[l.file].state = "named"
      BY Zenon DEF TablesSound
    <3> QED BY Zenon, <2>2, <3>1
  <2> QED BY Zenon, <2>1, <2>2
<1>5. \A k, l \in M : k.id = l.id => k = l
  BY Zenon DEF TablesSound
<1>6. ASSUME NEW g \in FileIds, NEW h \in FileIds,
             G[g].state = "named", G[h].state = "named", G[g].name = G[h].name
      PROVE  g = h
  <2>1. \A i, j \in FileIds :
          F[i].state = "named" /\ F[j].state = "named" /\ F[i].name = F[j].name => i = j
    BY Zenon DEF TablesSound
  <2>2. CASE g = f
    <3>1. CASE h # f
      BY Zenon, <1>6, <2>2, <3>1
    <3> QED BY Zenon, <2>2, <3>1
  <2>3. CASE g # f
    <3>1. CASE h = f
      BY Zenon, <1>6, <2>3, <3>1
    <3>2. CASE h # f
      BY Zenon, <1>6, <2>1, <2>3, <3>2
    <3> QED BY Zenon, <3>1, <3>2
  <2> QED BY Zenon, <2>2, <2>3
<1>7. ASSUME NEW g \in FileIds, NEW l \in M, G[g].state = "named" PROVE G[g].name # l.name
  <2>1. CASE g = f
    BY Zenon, <1>7, <2>1
  <2>2. CASE g # f
    <3>1. F[g].state = "named" /\ G[g] = F[g] /\ l \in L
      BY Zenon, <1>7, <2>2
    <3>2. \A i \in FileIds, k \in L : F[i].state = "named" => F[i].name # k.name
      BY Zenon DEF TablesSound
    <3> QED BY Zenon, <3>1, <3>2
  <2> QED BY Zenon, <2>1, <2>2
<1>8. \A k, l \in M : k.name = l.name => k = l
  BY Zenon DEF TablesSound
<1> QED
  BY ZenonT(60), <1>1, <1>2, <1>3, <1>4, <1>5, <1>6, <1>7, <1>8 DEF TablesSound

\* The effect of a transaction leaves the tables sound.
LEMMA EffectKeepsTables ==
  ASSUME IInv, NEW keys, NEW e \in Effect, EffectSound(keys, e), e.op # "remove"
  PROVE  TablesSound(Removed(e), Unlinked(e))
<1>1. TablesSound(file, links) /\ e # None
  BY ZenonT(60), NoneIsApart DEF IInv
<1>2. CASE e.op = "drop"
  <2>1. Removed(e) = file /\ Unlinked(e) = links \ {e.link}
    BY ZenonT(60), <1>1, <1>2 DEF Removed, Unlinked
  <2> QED BY Zenon, <1>1, <2>1 DEF TablesSound
<1>3. CASE e.op # "drop"
  <2> PICK f : f = e.file
    OBVIOUS
  <2>1. f \in FileIds /\ e.op \in {"promote", "hide", "purge"}
    BY ZenonT(60), <1>3 DEF Effect
  <2>2. CASE e.op = "promote"
    <3> PICK o : o = OldestLink(f)
      OBVIOUS
    <3>1. file[f].state = "named" /\ LinksOf(f) # {}
      BY ZenonT(60), <2>2 DEF EffectSound
    <3>2. o \in links /\ o.file = f
      BY ZenonT(60), <1>1, <3>1, OldestExists DEF LinksOf, TablesSound
    <3>3. Removed(e) = [file EXCEPT ![f].name = o.name]
      BY ZenonT(60), <1>1, <2>2 DEF Removed
    <3>4. Unlinked(e) = links \ {o}
      BY ZenonT(60), <1>1, <2>2 DEF Unlinked
    <3> PICK F : F = Removed(e)
      OBVIOUS
    <3>5. /\ F \in [FileIds -> FileRow] /\ F[f].state = "named" /\ F[f].name = o.name
          /\ \A g \in FileIds : g # f => F[g] = file[g]
      BY SMTT(60), <1>1, <2>1, <3>1, <3>2, <3>3 DEF TablesSound, FileRow, LinkRow
    <3>6. o.name \in Names /\ \A l \in links : l.file \in FileIds
      BY ZenonT(60), <1>1, <3>2 DEF TablesSound, LinkRow
    <3>7. /\ \A g \in FileIds : g # f /\ file[g].state = "named" => file[g].name # o.name
          /\ \A l \in links \ {o} : l.name # o.name
      BY ZenonT(60), <1>1, <3>2 DEF TablesSound
    <3>8. RowFits(file, F, links \ {o}, f)
      BY ZenonT(60), <3>5, <3>6, <3>7 DEF RowFits
    <3>9. links \ {o} \subseteq links
      BY Zenon
    <3> QED BY ZenonT(60), <1>1, <2>1, <3>4, <3>8, <3>9, OneRowChanged
  <2>3. CASE e.op = "hide"
    <3>1. LinksOf(f) = {}
      BY ZenonT(60), <2>3 DEF EffectSound
    <3>2. Removed(e) = [file EXCEPT ![f] = [state |-> "unlinked", name |-> Hidden]]
      BY ZenonT(60), <1>1, <2>3 DEF Removed
    <3>3. Unlinked(e) = links
      BY ZenonT(60), <1>1, <2>3 DEF Unlinked
    <3> PICK F : F = Removed(e)
      BY ZenonT(60)
    <3>4. /\ F \in [FileIds -> FileRow] /\ F[f].state = "unlinked" /\ F[f].name = Hidden
          /\ \A g \in FileIds : g # f => F[g] = file[g]
      BY SMTT(60), <1>1, <2>1, <3>2 DEF TablesSound, FileRow
    <3>5. \A l \in links : l.file \in FileIds /\ l.file # f
      BY ZenonT(60), <1>1, <3>1 DEF LinksOf, TablesSound, LinkRow
    <3>6. RowFits(file, F, links, f)
      BY ZenonT(60), <3>4, <3>5 DEF RowFits
    <3> QED BY ZenonT(60), <1>1, <2>1, <3>3, <3>6, OneRowChanged
  <2>4. CASE e.op = "purge"
    <3>1. LinksOf(f) = {}
      BY Zenon, <2>4 DEF EffectSound
    <3>2. Removed(e) = [file EXCEPT ![f] = [state |-> "gone", name |-> Hidden]]
      BY ZenonT(60), <1>1, <2>4 DEF Removed
    <3>3. Unlinked(e) = links
      BY ZenonT(60), <1>1, <2>4, <3>1 DEF Unlinked
    <3> PICK F : F = Removed(e)
      OBVIOUS
    <3>4. /\ F \in [FileIds -> FileRow] /\ F[f].state = "gone"
          /\ \A g \in FileIds : g # f => F[g] = file[g]
      BY SMTT(60), <1>1, <2>1, <3>2 DEF TablesSound, FileRow
    <3>5. \A l \in links : l.file \in FileIds /\ l.file # f
      BY ZenonT(60), <1>1, <3>1 DEF LinksOf, TablesSound, LinkRow
    <3>6. RowFits(file, F, links, f)
      BY ZenonT(60), <3>4, <3>5 DEF RowFits
    <3> QED BY ZenonT(60), <1>1, <2>1, <3>3, <3>6, OneRowChanged
  <2> QED BY ZenonT(60), <2>1, <2>2, <2>3, <2>4
<1> QED BY ZenonT(60), <1>2, <1>3

\* The source of a rename takes a name that no row has.
LEMMA MoveKeepsTables ==
  ASSUME NEW F, NEW L, TablesSound(F, L), NEW v \in [entry : Entry, to : Names], v # None,
         \/ v.entry.kind = "file" /\ v.entry.id \in FileIds /\ F[v.entry.id].state = "named"
         \/ v.entry.kind = "hardlink",
         \A f \in FileIds : F[f].state = "named" => F[f].name # v.to,
         \A l \in L : l.name # v.to
  PROVE  TablesSound(Moved(F, v), MovedLinks(L, v))
<1>1. \A l \in L : l.file \in FileIds /\ l \in LinkRow
  BY ZenonT(60) DEF TablesSound, LinkRow
<1>2. v.to \in Names
  OBVIOUS
<1>3. CASE v.entry.kind = "file"
  <2> PICK i, G : i = v.entry.id /\ G = Moved(F, v)
    OBVIOUS
  <2>1. MovedLinks(L, v) = L /\ G = [F EXCEPT ![i].name = v.to] /\ i \in FileIds
        /\ F[i].state = "named"
    BY ZenonT(60), <1>3 DEF Moved, MovedLinks
  <2>2. /\ G \in [FileIds -> FileRow] /\ G[i].state = "named" /\ G[i].name = v.to
        /\ \A g \in FileIds : g # i => G[g] = F[g]
    BY SMTT(60), <1>2, <2>1 DEF TablesSound, FileRow
  <2>3. RowFits(F, G, L, i)
    BY ZenonT(60), <1>1, <1>2, <2>2 DEF RowFits
  <2>4. TablesSound(G, L)
    BY ZenonT(60), <2>1, <2>3, OneRowChanged
  <2> QED BY Zenon, <2>1, <2>4
<1>4. CASE v.entry.kind = "hardlink"
  <2> PICK i, n : i = v.entry.id /\ n = v.to
    OBVIOUS
  <2> DEFINE new(l) == IF l.id = i THEN [l EXCEPT !.name = n] ELSE l
  <2>1. Moved(F, v) = F /\ MovedLinks(L, v) = {new(l) : l \in L}
    BY ZenonT(60), <1>4 DEF Moved, MovedLinks
  <2>2. ASSUME NEW l \in L
        PROVE  /\ new(l) \in LinkRow /\ new(l).id = l.id /\ new(l).file = l.file
               /\ new(l).name = IF l.id = i THEN n ELSE l.name
    BY ZenonT(60), <1>1, <1>2 DEF LinkRow
  <2> HIDE DEF new
  <2> PICK M : M = {new(l) : l \in L}
    BY ZenonT(60)
  <2>3. M \subseteq LinkRow /\ \A k \in M : F[k.file].state = "named"
    BY <2>2 DEF TablesSound
  <2>4. \A k, l \in L : k.id = l.id => k = l
    BY Zenon DEF TablesSound
  <2>5. \A k, l \in M : k.id = l.id => k = l
    BY SMTT(60), <2>2, <2>4
  <2>6. \A f \in FileIds, k \in M : F[f].state = "named" => F[f].name # k.name
    BY SMTT(60), <2>2 DEF TablesSound
  <2>7. ASSUME NEW k \in L, NEW l \in L, new(k).name = new(l).name PROVE k = l
    <3>1. CASE k.id = i /\ l.id = i
      BY ZenonT(60), <2>4, <3>1
    <3>2. CASE k.id # i /\ l.id # i
      <4>1. k.name = l.name
        BY Zenon, <2>2, <2>7, <3>2
      <4> QED BY Zenon, <4>1 DEF TablesSound
    <3>3. CASE (k.id = i /\ l.id # i) \/ (k.id # i /\ l.id = i)
      BY SMTT(60), <2>2, <2>7, <3>3
    <3> QED BY ZenonT(60), <3>1, <3>2, <3>3
  <2>8. \A k, l \in M : k.name = l.name => k = l
    BY SMTT(60), <2>7
  <2>9. TablesSound(F, M)
    BY Zenon, <2>3, <2>5, <2>6, <2>8 DEF TablesSound
  <2> QED BY ZenonT(60), <2>1, <2>9
<1> QED BY Zenon, <1>3, <1>4

\* What one file has to show for an effect and a move that do not concern it.
LEMMA CommitElsewhere ==
  ASSUME IInv, NEW a \in Actors, Commit(a), NEW f \in FileIds, OpenKey(f) \notin tx[a].keys
  PROVE  file'[f] = file[f] /\ LinksOf(f)' = LinksOf(f)
<1> PICK t : t = tx[a]
  BY ZenonT(60)
<1>1. t \in Transaction /\ TransactionSound(t) /\ TablesSound(file, links)
  BY ZenonT(60) DEF Commit, IInv, TypeOK
<1> PICK keys, e, v : keys = t.keys /\ e = t.effect /\ v = t.move
  BY ZenonT(60)
<1>2. /\ e = None \/ (e \in Effect /\ e # None /\ EffectSound(keys, e) /\ e.op # "remove")
      /\ v = None \/ (v \in [entry : Entry, to : Names] /\ v # None /\ MoveSound(keys, e, v))
      /\ file' = Moved(Removed(e), v) /\ links' = MovedLinks(Unlinked(e), v)
  BY ZenonT(60), <1>1 DEF Commit, Removing, Transaction, TransactionSound
<1> PICK F, L : F = Removed(e) /\ L = Unlinked(e)
  BY ZenonT(60)
<1>3. F \in [FileIds -> FileRow] /\ F[f] = file[f] /\ L \subseteq links
      /\ \A l \in links : l.file = f => l \in L
  <2>1. CASE e = None
    BY ZenonT(60), <1>1, <2>1 DEF Removed, Unlinked, TablesSound
  <2>2. CASE e # None /\ e.op = "drop"
    <3>1. OpenKey(e.link.file) \in keys
      BY Zenon, <1>2, <2>2 DEF EffectSound
    <3>2. F = file /\ L = links \ {e.link}
      BY ZenonT(60), <2>2 DEF Removed, Unlinked
    <3>3. e.link.file # f
      BY ZenonT(60), <3>1
    <3> QED BY ZenonT(60), <1>1, <3>2, <3>3 DEF TablesSound
  <2>3. CASE e # None /\ e.op # "drop"
    <3>1. TablesSound(F, L)
      BY ZenonT(60), <1>2, <2>3, EffectKeepsTables
    <3>2. e.file # f /\ e.file \in FileIds /\ e.op \in {"promote", "hide", "purge"}
      BY ZenonT(60), <1>2, <2>3 DEF EffectSound, Effect
    <3>3. F[f] = file[f]
      BY ZenonT(60), <2>3, <1>1, <3>2 DEF Removed, TablesSound
    <3>4. CASE e.op = "promote"
      <4>1. OldestLink(e.file) \in LinksOf(e.file)
        BY ZenonT(60), <1>1, <1>2, <2>3, <3>4, OldestExists DEF EffectSound, TablesSound
      <4>2. L = links \ {OldestLink(e.file)}
        BY ZenonT(60), <2>3, <3>4 DEF Unlinked
      <4> QED BY ZenonT(60), <3>1, <3>2, <3>3, <4>1, <4>2 DEF LinksOf, TablesSound
    <3>5. CASE e.op = "hide"
      <4>1. L = links
        BY ZenonT(60), <2>3, <3>5 DEF Unlinked
      <4> QED BY ZenonT(60), <3>1, <3>3, <4>1 DEF TablesSound
    <3>6. CASE e.op = "purge"
      <4>1. L = links \ LinksOf(e.file)
        BY ZenonT(60), <2>3, <3>6 DEF Unlinked
      <4> QED BY ZenonT(60), <3>1, <3>2, <3>3, <4>1 DEF TablesSound, LinksOf
    <3> QED BY ZenonT(60), <3>2, <3>4, <3>5, <3>6
  <2> QED BY Zenon, <2>1, <2>2, <2>3
<1>4. CASE v = None
  BY ZenonT(60), <1>2, <1>3, <1>4 DEF Moved, MovedLinks, LinksOf
<1>5. CASE v # None
  <2>1. v.entry \in Entries /\ v.entry.file # f /\ v \in [entry : Entry, to : Names]
    BY ZenonT(60), <1>2, <1>5 DEF MoveSound
  <2>2. CASE v.entry.kind = "file"
    <3>1. v.entry.id # f /\ v.entry.id \in FileIds
      BY ZenonT(60), <1>1, <2>1, <2>2, EntryShape DEF Entry
    <3>2. file' = [F EXCEPT ![v.entry.id].name = v.to] /\ links' = L
      BY ZenonT(60), <1>2, <1>5, <2>2 DEF Moved, MovedLinks
    <3> QED BY ZenonT(60), <1>3, <3>1, <3>2 DEF LinksOf
  <2>3. CASE v.entry.kind # "file"
    <3> PICK i, n : i = v.entry.id /\ n = v.to
      BY ZenonT(60)
    <3>1. v.entry.kind = "hardlink" /\ [id |-> i, file |-> v.entry.file, name |-> v.entry.name] \in links
      BY Zenon, <1>1, <2>1, <2>3, EntryShape
    <3>2. file' = F /\ links' = {IF l.id = i THEN [l EXCEPT !.name = n] ELSE l : l \in L}
      BY ZenonT(60), <1>2, <1>5, <3>1 DEF Moved, MovedLinks
    <3>3. \A l \in links : l.id = i => l.file = v.entry.file
      <4> PICK r : r = [id |-> i, file |-> v.entry.file, name |-> v.entry.name]
        BY Zenon
      <4>1. r \in links /\ r.id = i /\ r.file = v.entry.file
        BY Zenon, <3>1
      <4>2. \A k, l \in links : k.id = l.id => k = l
        BY Zenon, <1>1 DEF TablesSound
      <4> QED BY Zenon, <4>1, <4>2
    <3>4. \A l \in links : l \in LinkRow
      BY Zenon, <1>1 DEF TablesSound
    <3>5. \A l \in L : l.id = i => [l EXCEPT !.name = n].file = l.file
      BY ZenonT(60), <1>3, <3>4 DEF LinkRow
    <3>6. ASSUME NEW l PROVE l \in LinksOf(f)' <=> l \in LinksOf(f)
      <4>1. ASSUME l \in LinksOf(f) PROVE l \in LinksOf(f)'
        BY ZenonT(60), <1>3, <2>1, <3>2, <3>3, <4>1 DEF LinksOf
      <4>2. ASSUME l \in LinksOf(f)' PROVE l \in LinksOf(f)
        <5>1. l.file = f /\ l \in links'
          BY ZenonT(60), <4>2 DEF LinksOf
        <5>2. PICK k \in L : l = IF k.id = i THEN [k EXCEPT !.name = n] ELSE k
          BY ZenonT(60), <3>2, <5>1
        <5>3. k.id # i
          BY ZenonT(60), <1>3, <2>1, <3>3, <3>5, <5>1, <5>2
        <5> QED BY ZenonT(60), <1>3, <5>1, <5>2, <5>3 DEF LinksOf
      <4> QED BY ZenonT(60), <4>1, <4>2
    <3> QED BY Zenon, <1>3, <3>2, <3>6
  <2> QED BY ZenonT(60), <2>2, <2>3
<1> QED BY ZenonT(60), <1>4, <1>5

\* What an effect makes of the rows: a file changes its state only to unlinked, or to gone
\* when it has neither a hardlink nor an open handle that counts; a row's name was in the
\* tables before; no hardlink appears.
LEMMA EffectRows ==
  ASSUME IInv, NEW keys, NEW e \in Effect \cup {None},
         e # None => EffectSound(keys, e) /\ e.op # "remove"
  PROVE  /\ TablesSound(Removed(e), Unlinked(e))
         /\ Unlinked(e) \subseteq links
         /\ \A f \in FileIds :
              \/ Removed(e)[f].state = file[f].state
              \/ Exists(f) /\ Removed(e)[f].state = "unlinked"
              \/ Exists(f) /\ LinksOf(f) = {} /\ NoneOpen(f) /\ Removed(e)[f].state = "gone"
         /\ \A f \in FileIds : Removed(e)[f].state = "named" =>
              \/ Removed(e)[f].name = file[f].name
              \/ \E l \in links : Removed(e)[f].name = l.name
         /\ \A f \in FileIds : e # None /\ e.op # "drop" /\ f # e.file => Removed(e)[f] = file[f]
<1>1. TablesSound(file, links)
  BY ZenonT(60) DEF IInv
<1>2. CASE e = None
  BY ZenonT(60), <1>1, <1>2 DEF Removed, Unlinked
<1>3. CASE e # None /\ e.op = "drop"
  <2>1. Removed(e) = file /\ Unlinked(e) = links \ {e.link}
    BY ZenonT(60), <1>3 DEF Removed, Unlinked
  <2> QED BY Zenon, <1>1, <1>3, <2>1, EffectKeepsTables
<1>4. CASE e # None /\ e.op # "drop"
  <2> PICK f : f = e.file
    BY ZenonT(60)
  <2>1. /\ e \in Effect /\ EffectSound(keys, e)
        /\ f \in FileIds /\ e.op \in {"promote", "hide", "purge"}
    BY ZenonT(60), <1>4 DEF Effect
  <2>2. TablesSound(Removed(e), Unlinked(e))
    BY ZenonT(60), <1>4, <2>1, EffectKeepsTables
  <2>3. CASE e.op = "promote"
    <3> PICK o : o = OldestLink(f)
      BY ZenonT(60)
    <3>1. o \in links
      BY Zenon, <1>1, <2>1, <2>3, OldestExists DEF EffectSound, LinksOf, TablesSound
    <3>2. Unlinked(e) = links \ {o} /\ Removed(e) = [file EXCEPT ![f].name = o.name]
      BY ZenonT(60), <1>4, <2>3 DEF Unlinked, Removed
    <3>3. /\ Removed(e)[f].name = o.name /\ Removed(e)[f].state = file[f].state
          /\ \A g \in FileIds : g # f => Removed(e)[g] = file[g]
      BY SMTT(60), <1>1, <2>1, <3>2 DEF TablesSound, FileRow
    <3> QED BY ZenonT(60), <2>2, <2>1, <3>1, <3>2, <3>3
  <2>4. CASE e.op = "hide"
    <3>1. Unlinked(e) = links
          /\ Removed(e) = [file EXCEPT ![f] = [state |-> "unlinked", name |-> Hidden]]
      BY ZenonT(60), <1>4, <2>4 DEF Unlinked, Removed
    <3>2. Exists(f)
      BY ZenonT(60), <2>1, <2>4 DEF EffectSound
    <3>3. /\ Removed(e)[f].state = "unlinked"
          /\ \A g \in FileIds : g # f => Removed(e)[g] = file[g]
      BY SMTT(60), <1>1, <2>1, <3>1 DEF TablesSound
    <3> QED BY ZenonT(60), <2>2, <2>1, <3>1, <3>2, <3>3
  <2>5. CASE e.op = "purge"
    <3>1. Unlinked(e) = links \ LinksOf(f)
          /\ Removed(e) = [file EXCEPT ![f] = [state |-> "gone", name |-> Hidden]]
      BY ZenonT(60), <1>4, <2>5 DEF Unlinked, Removed
    <3>2. Exists(f) /\ LinksOf(f) = {} /\ NoneOpen(f)
      BY ZenonT(60), <2>1, <2>5 DEF EffectSound
    <3>3. /\ Removed(e)[f].state = "gone"
          /\ \A g \in FileIds : g # f => Removed(e)[g] = file[g]
      BY SMTT(60), <1>1, <2>1, <3>1 DEF TablesSound
    <3> QED BY Zenon, <2>2, <2>1, <3>1, <3>2, <3>3
  <2> QED BY ZenonT(60), <2>1, <2>3, <2>4, <2>5
<1> QED BY ZenonT(60), <1>2, <1>3, <1>4

\* The new name of a rename is vacant once its effect is done.
LEMMA DestinationVacant ==
  ASSUME IInv, NEW keys, NEW e \in Effect \cup {None},
         e # None => EffectSound(keys, e) /\ e.op # "remove",
         NEW v \in [entry : Entry, to : Names], MoveSound(keys, e, v)
  PROVE  /\ \A f \in FileIds : Removed(e)[f].state = "named" => Removed(e)[f].name # v.to
         /\ \A l \in Unlinked(e) : l.name # v.to
<1>1. TablesSound(file, links)
  BY ZenonT(60) DEF IInv
<1>2. CASE e = None
  <2>1. Vacant(v.to) /\ Removed(e) = file /\ Unlinked(e) = links
    BY ZenonT(60), <1>2 DEF MoveSound, Removed, Unlinked
  <2> QED BY Zenon, <2>1, VacantRows
<1>3. CASE e # None /\ e.op = "drop"
  <2>1. e.link \in links /\ e.link.name = v.to
    BY Zenon, <1>3 DEF EffectSound, MoveSound
  <2>2. Removed(e) = file /\ Unlinked(e) = links \ {e.link}
    BY ZenonT(60), <1>3 DEF Removed, Unlinked
  <2> QED BY SMTT(60), <1>1, <2>1, <2>2 DEF TablesSound
<1>4. CASE e # None /\ e.op # "drop"
  <2> PICK f : f = e.file
    OBVIOUS
  <2>1. /\ f \in FileIds /\ e.op \in {"promote", "hide", "purge"} /\ e \in Effect
        /\ file[f].state = "named" /\ file[f].name = v.to
    BY Zenon, <1>4 DEF Effect, MoveSound
  <2>2. \A l \in links : l.name # v.to
    BY ZenonT(60), <1>1, <2>1 DEF TablesSound
  <2>3. \A l \in Unlinked(e) : l.name # v.to
    BY Zenon, <2>2, EffectRows
  <2>4. \A g \in FileIds : g # f => Removed(e)[g] = file[g]
    BY ZenonT(60), <1>4, EffectRows
  <2>5. Removed(e)[f].state = "named" => Removed(e)[f].name # v.to
    <3>1. CASE e.op = "promote"
      <4>1. OldestLink(f) \in links
        BY ZenonT(60), <1>1, <1>4, <3>1, OldestExists DEF EffectSound, LinksOf, TablesSound
      <4>2. Removed(e) = [file EXCEPT ![f].name = OldestLink(f).name]
        BY ZenonT(60), <1>4, <3>1 DEF Removed
      <4>3. Removed(e)[f].name = OldestLink(f).name
        BY SMTT(60), <1>1, <2>1, <4>2 DEF TablesSound, FileRow
      <4> QED BY ZenonT(60), <2>2, <4>1, <4>3
    <3>2. CASE e.op \in {"hide", "purge"}
      BY ZenonT(60), <1>1, <1>4, <2>1, <3>2 DEF Removed, TablesSound
    <3> QED BY ZenonT(60), <2>1, <3>1, <3>2
  <2>6. ASSUME NEW g \in FileIds, Removed(e)[g].state = "named" PROVE Removed(e)[g].name # v.to
    <3>1. CASE g = f
      BY Zenon, <2>5, <2>6, <3>1
    <3>2. CASE g # f
      <4>1. file[g].state = "named" /\ Removed(e)[g].name = file[g].name
        BY Zenon, <2>4, <2>6, <3>2
      <4>2. \A x, y \in FileIds :
              file[x].state = "named" /\ file[y].state = "named" /\ file[x].name = file[y].name => x = y
        BY ONLY <1>1, Zenon DEF TablesSound
      <4> QED BY Zenon, <2>1, <3>2, <4>1, <4>2
    <3> QED BY Zenon, <3>1, <3>2
  <2> QED BY Zenon, <2>3, <2>6
<1> QED BY Zenon, <1>2, <1>3, <1>4

\* A move changes no state and no id, and gives no other name than the new one.
RowsMoved(F, L, v) ==
  /\ \A f \in FileIds : /\ Moved(F, v)[f].state = F[f].state
                        /\ \/ Moved(F, v)[f].name = F[f].name
                           \/ v # None /\ Moved(F, v)[f].name = v.to
  /\ \A l \in MovedLinks(L, v) :
       \E k \in L : k.id = l.id /\ (l.name = k.name \/ (v # None /\ l.name = v.to))

LEMMA MoveRows ==
  ASSUME NEW F, NEW L, TablesSound(F, L), NEW v,
         v # None => v \in [entry : Entry, to : Names]
  PROVE  RowsMoved(F, L, v)
<1>1. CASE v = None
  BY ZenonT(60), <1>1 DEF Moved, MovedLinks, RowsMoved
<1>2. CASE v # None
  <2> PICK i, n : i = v.entry.id /\ n = v.to
    BY ZenonT(60)
  <2>1. ASSUME NEW f \in FileIds
        PROVE  /\ Moved(F, v)[f].state = F[f].state
               /\ Moved(F, v)[f].name = F[f].name \/ Moved(F, v)[f].name = n
    <3>1. CASE v.entry.kind = "file"
      <4>1. Moved(F, v) = [F EXCEPT ![i].name = n]
        BY ZenonT(60), <1>2, <3>1 DEF Moved
      <4> QED BY <4>1 DEF TablesSound, FileRow
    <3>2. CASE v.entry.kind # "file"
      BY ZenonT(60), <3>2 DEF Moved
    <3> QED BY Zenon, <3>1, <3>2
  <2>2. ASSUME NEW l \in MovedLinks(L, v)
        PROVE  \E k \in L : k.id = l.id /\ (l.name = k.name \/ l.name = n)
    <3>1. CASE v.entry.kind = "hardlink"
      <4>1. PICK k \in L : l = IF k.id = i THEN [k EXCEPT !.name = n] ELSE k
        BY ZenonT(60), <1>2, <3>1 DEF MovedLinks
      <4>2. k \in LinkRow
        BY Zenon DEF TablesSound
      <4>3. k.id = l.id /\ (l.name = k.name \/ l.name = n)
        BY ZenonT(60), <4>1, <4>2 DEF LinkRow
      <4> QED BY ZenonT(60), <4>3
    <3>2. CASE v.entry.kind # "hardlink"
      BY ZenonT(60), <3>2 DEF MovedLinks
    <3> QED BY ZenonT(60), <3>1, <3>2
  <2> QED BY ZenonT(60), <1>2, <2>1, <2>2 DEF RowsMoved
<1> QED BY Zenon, <1>1, <1>2

\* A commit as a whole.
LEMMA CommitRows ==
  ASSUME IInv, NEW a \in Actors, Commit(a)
  PROVE  /\ TablesSound(file', links')
         /\ \A f \in FileIds :
              \/ file'[f].state = file[f].state
              \/ Exists(f) /\ file'[f].state = "unlinked"
              \/ Exists(f) /\ LinksOf(f) = {} /\ NoneOpen(f) /\ file'[f].state = "gone"
         /\ \A n \in Names : NameKey(n) \notin tx[a].keys /\ Vacant(n) => Vacant(n)'
         /\ \A l \in links' : \E k \in links : k.id = l.id
<1> PICK t : t = tx[a]
  BY ZenonT(60)
<1>1. t \in Transaction /\ TransactionSound(t) /\ TablesSound(file, links)
  BY Zenon DEF Commit, IInv, TypeOK
<1> PICK keys, e, v : keys = t.keys /\ e = t.effect /\ v = t.move
  BY ZenonT(60)
<1>2. /\ e \in Effect \cup {None} /\ (e # None => EffectSound(keys, e) /\ e.op # "remove")
      /\ v # None => v \in [entry : Entry, to : Names] /\ MoveSound(keys, e, v)
      /\ file' = Moved(Removed(e), v) /\ links' = MovedLinks(Unlinked(e), v)
  BY ZenonT(60), <1>1 DEF Commit, Removing, Transaction, TransactionSound
<1> DEFINE F == Removed(e)
           L == Unlinked(e)
<1>3. /\ TablesSound(F, L) /\ L \subseteq links
      /\ \A f \in FileIds :
           \/ F[f].state = file[f].state
           \/ Exists(f) /\ F[f].state = "unlinked"
           \/ Exists(f) /\ LinksOf(f) = {} /\ NoneOpen(f) /\ F[f].state = "gone"
      /\ \A f \in FileIds : F[f].state = "named" =>
           F[f].name = file[f].name \/ \E l \in links : F[f].name = l.name
      /\ \A f \in FileIds : e # None /\ e.op # "drop" /\ f # e.file => F[f] = file[f]
  BY ZenonT(60), <1>2, EffectRows
<1>4. /\ \A f \in FileIds : /\ file'[f].state = F[f].state
                            /\ file'[f].name = F[f].name \/ (v # None /\ file'[f].name = v.to)
      /\ \A l \in links' :
           \E k \in L : k.id = l.id /\ (l.name = k.name \/ (v # None /\ l.name = v.to))
  <2>1. RowsMoved(F, L, v)
    <3>1. TablesSound(F, L)
      BY Zenon, <1>3
    <3>2. v # None => v \in [entry : Entry, to : Names]
      BY Zenon, <1>2
    <3> HIDE DEF F, L
    <3> QED BY ONLY <3>1, <3>2, MoveRows, Zenon
  <2> QED BY ZenonT(60), <1>2, <2>1 DEF RowsMoved
<1>5. TablesSound(file', links')
  <2>1. CASE v = None
    BY ZenonT(60), <1>2, <1>3, <2>1 DEF Moved, MovedLinks
  <2>2. CASE v # None
    <3>1. /\ \A f \in FileIds : F[f].state = "named" => F[f].name # v.to
          /\ \A l \in L : l.name # v.to
      BY ZenonT(60), <1>2, <2>2, DestinationVacant
    <3>2. v.entry \in Entries /\ v.entry \in Entry /\ v \in [entry : Entry, to : Names]
      BY ZenonT(60), <1>2, <2>2 DEF MoveSound
    <3>3. \/ v.entry.kind = "file" /\ v.entry.id \in FileIds /\ F[v.entry.id].state = "named"
          \/ v.entry.kind = "hardlink"
      <4>1. CASE v.entry.kind = "hardlink"
        BY ZenonT(60), <4>1
      <4>2. CASE v.entry.kind # "hardlink"
        <5>1. /\ v.entry.kind = "file" /\ v.entry.id = v.entry.file
              /\ file[v.entry.file].state = "named" /\ v.entry.file \in FileIds
          BY ZenonT(60), <1>1, <3>2, <4>2, EntryShape DEF Entry
        <5>2. CASE e = None \/ e.op = "drop"
          <6>1. F = file
            BY ZenonT(60), <5>2 DEF Removed
          <6> QED BY ZenonT(60), <5>1, <6>1
        <5>3. CASE ~(e = None \/ e.op = "drop")
          <6>1. v.entry.file # e.file
            BY ZenonT(60), <1>2, <2>2, <5>3 DEF MoveSound
          <6> QED BY ZenonT(60), <1>3, <5>1, <5>3, <6>1
        <5> QED BY ZenonT(60), <5>2, <5>3
      <4> QED BY ZenonT(60), <4>1, <4>2
    <3> QED BY ZenonT(60), <1>2, <1>3, <2>2, <3>1, <3>2, <3>3, MoveKeepsTables
  <2> QED BY ZenonT(60), <2>1, <2>2
<1>6. ASSUME NEW n \in Names, NameKey(n) \notin keys, Vacant(n) PROVE Vacant(n)'
  <2>1. v # None => v.to # n
    BY ZenonT(60), <1>2, <1>6 DEF MoveSound
  <2>2. /\ \A f \in FileIds : file[f].state = "named" => file[f].name # n
        /\ \A l \in links : l.name # n
    BY ZenonT(60), <1>6, VacantRows
  <2>3. ASSUME NEW f \in FileIds, F[f].state = "named" PROVE F[f].name # n
    <3>1. file[f].state = "named"
      BY ZenonT(60), <1>3, <2>3
    <3> QED BY ZenonT(60), <1>3, <2>2, <2>3, <3>1
  <2>4. /\ \A f \in FileIds : file'[f].state = "named" => file'[f].name # n
        /\ \A l \in links' : l.name # n
    BY ZenonT(60), <1>3, <1>4, <2>1, <2>2, <2>3
  <2> QED BY Zenon, <2>4, VacantNext
<1> QED BY ZenonT(60), <1>3, <1>4, <1>5, <1>6

LEMMA CommitInv ==
  ASSUME IInv, NEW a \in Actors, Commit(a)
  PROVE  IInv'
<1> PICK keys : keys = tx[a].keys
  BY ZenonT(60)
<1>1. /\ TablesSound(file', links')
      /\ \A f \in FileIds :
           \/ file'[f].state = file[f].state
           \/ Exists(f) /\ file'[f].state = "unlinked"
           \/ Exists(f) /\ LinksOf(f) = {} /\ NoneOpen(f) /\ file'[f].state = "gone"
      /\ \A n \in Names : NameKey(n) \notin keys /\ Vacant(n) => Vacant(n)'
      /\ \A l \in links' : \E k \in links : k.id = l.id
  BY ZenonT(60), CommitRows
<1>2. /\ lease' = [m \in Mounts |-> [h \in Handles |->
                     IF lease[m][h] # None /\ file'[lease[m][h].file].state = "gone"
                     THEN None ELSE lease[m][h]]]
      /\ tx' = [tx EXCEPT ![a] = None]
      /\ tx[a] # None
      /\ UNCHANGED <<linkSeq, session, up, handle, call, todo, lapsed>>
  BY ZenonT(60) DEF Commit, mountVars
<1>3. CallsOK'
  BY ZenonT(60), <1>2 DEF IInv, CallsOK
<1>4. TypeOK'
  <2>1. file' \in [FileIds -> FileRow] /\ links' \subseteq LinkRow
    BY ZenonT(60), <1>1 DEF TablesSound
  <2>2. lease' \in [Mounts -> [Handles -> LeaseRow \cup {None}]]
    BY ZenonT(60), <1>2 DEF IInv, TypeOK
  <2> QED BY ZenonT(60), <1>2, <2>1, <2>2 DEF IInv, TypeOK
<1>5. Serial'
  <2>1. \A f \in FileIds : file'[f].state # "unborn" <=> file[f].state # "unborn"
    BY ZenonT(60), <1>1 DEF Exists
  <2> QED BY ZenonT(60), <1>1, <1>2, <2>1 DEF IInv, Serial
<1>6. ASSUME NEW m \in Mounts, NEW h \in Handles, handle[m][h] # None, h \notin lapsed[m]
      PROVE  handle[m][h] \in FileIds /\ file'[handle[m][h]].state \in {"named", "unlinked"}
  <2> PICK f : f = handle[m][h]
    BY ZenonT(60)
  <2>1. f \in FileIds /\ Exists(f) /\ ~NoneOpen(f)
    BY SMTT(60), <1>6 DEF IInv, TypeOK, InodeKept, NoneOpen
  <2> QED BY ZenonT(60), <1>1, <2>1 DEF Exists
<1>7. InodeKept'
  BY ZenonT(60), <1>2, <1>6 DEF InodeKept, Exists
<1>8. HandlesBacked'
  <2>1. SUFFICES ASSUME NEW m \in Mounts, NEW h \in Handles,
                        handle[m][h] # None, h \notin lapsed[m]
                 PROVE  /\ lease'[m][h] # None /\ lease'[m][h].file = handle[m][h]
                        /\ lease'[m][h].left > 0 /\ SessionLive(m)
    BY ZenonT(60), <1>2 DEF HandlesBacked, SessionLive
  <2>2. /\ lease[m][h] # None /\ lease[m][h].file = handle[m][h]
        /\ lease[m][h].left > 0 /\ SessionLive(m)
    BY ZenonT(60), <2>1 DEF IInv, HandlesBacked
  <2>3. lease'[m][h] = lease[m][h]
    BY ZenonT(60), <1>2, <1>6, <2>1, <2>2
  <2> QED BY ZenonT(60), <2>2, <2>3
<1>9. SelectedIsNameless'
  BY ZenonT(60), <1>1, <1>2 DEF IInv, TypeOK, SelectedIsNameless
<1>10. UnderKeys(keys)
  <2>1. \A f \in FileIds : OpenKey(f) \notin keys => file'[f] = file[f] /\ LinksOf(f)' = LinksOf(f)
    <3>1. ASSUME NEW f \in FileIds, OpenKey(f) \notin tx[a].keys
          PROVE  file'[f] = file[f] /\ LinksOf(f)' = LinksOf(f)
      BY Zenon, <3>1, CommitElsewhere
    <3> QED BY Zenon, <3>1
  <2>2. \A f \in FileIds : NoneOpen(f) => NoneOpen(f)'
    BY Zenon, <1>2 DEF NoneOpen
  <2> QED BY ZenonT(60), <1>1, <2>1, <2>2 DEF UnderKeys
<1>11. \A b \in Actors : tx'[b] # None => tx'[b] = tx[b] /\ tx[b].keys \cap keys = {}
  BY ZenonT(60), <1>2 DEF IInv, TypeOK, LocksApart
<1> QED
  BY Zenon, <1>1, <1>3, <1>4, <1>5, <1>7, <1>8, <1>9, <1>10, <1>11, StepUnderKeys

-----------------------------------------------------------------------------
(* The theorems. *)

LEMMA NextIInv == IInv /\ [Next]_vars => IInv'
<1> SUFFICES ASSUME IInv, [Next]_vars PROVE IInv'
  BY ZenonT(60)
<1>1. ASSUME NEW m \in Mounts, Callback(m) PROVE IInv'
  BY ZenonT(60), <1>1, OpenResolveInv, CreateInv, RegisterLeaseInv, RegisterLostInv, CreateReplyInv,
     CreateFailsInv, CallFailsInv, RollbackPromoteInv, CallPurgeInv, UnlinkResolveInv,
     UnlinkBeginInv, LinkResolveInv, LinkCommitInv, RenameResolveInv, RenameBeginInv,
     ReleaseInv, FinalizeInv DEF Callback
<1>2. ASSUME NEW m \in Mounts, Background(m) PROVE IInv'
  BY ZenonT(60), <1>2, HeartbeatSessionInv, HeartbeatLeasesInv, PruneSessionsInv, SelectOrphansInv,
     PurgeOrphanInv, CrashInv DEF Background
<1>3. ASSUME NEW a \in Actors, Remove(a) \/ Commit(a) \/ Abort(a) PROVE IInv'
  BY ZenonT(60), <1>3, RemoveInv, CommitInv, AbortInv
<1>4. CASE Tick
  BY ZenonT(60), <1>4, TickInv
<1>5. CASE UNCHANGED vars
  <2>1. UNCHANGED <<dbVars, tx, up, handle, todo, lapsed>> /\ call' = call
    BY ZenonT(60), <1>5 DEF vars, dbVars
  <2>2. CallsOK'
    BY ZenonT(60), <2>1 DEF IInv, CallsOK
  <2> QED BY ZenonT(60), <2>1, <2>2, CallStep
<1> QED BY ZenonT(60), <1>1, <1>2, <1>3, <1>4, <1>5 DEF Next

\* The locks, the decisions taken under them, the tables and the leases fit together in every
\* reachable state.
THEOREM LifecycleInvariant == Spec => []IInv
<1>1. Init => IInv
  BY ZenonT(60), InitIInv
<1>2. IInv /\ [Next]_vars => IInv'
  BY ZenonT(60), NextIInv
<1> QED BY <1>1, <1>2, PTL DEF Spec

\* Every variable keeps its type.
THEOREM LifecycleTypes == Spec => []TypeOK
<1>1. IInv => TypeOK
  BY ZenonT(60) DEF IInv
<1> QED BY <1>1, LifecycleInvariant, PTL

\* As long as its lease and its session have not expired, an open handle's file is not
\* deleted by any unlink, rename, rollback or purge on any mount.
THEOREM OpenInodeKept == Spec => []InodeKept
<1>1. IInv => InodeKept
  BY ZenonT(60) DEF IInv
<1> QED BY <1>1, LifecycleInvariant, PTL

\* A name stands for one entry, and an unlinked file has none.
THEOREM NamesStaySound == Spec => []NamesSound
<1>1. IInv => NamesSound
  BY ZenonT(60), TablesGiveNames DEF IInv
<1> QED BY <1>1, LifecycleInvariant, PTL

\* What purge_orphaned_unlinked_files has selected is still nameless when its turn comes.
THEOREM SelectedStaysNameless == Spec => []SelectedIsNameless
<1>1. IInv => SelectedIsNameless
  BY ZenonT(60) DEF IInv
<1> QED BY <1>1, LifecycleInvariant, PTL

\* The row of a file is deleted only when it has no hardlink that the cascade would take.
THEOREM HardlinksSurvive == Spec => HardlinkSurvives
<1>1. ASSUME IInv, [Next]_vars
      PROVE  [\A f \in FileIds : Exists(f) /\ ~Exists(f)' => LinksOf(f) = {}]_vars
  <2> SUFFICES ASSUME NEW f \in FileIds, Exists(f), ~Exists(f)' PROVE LinksOf(f) = {}
    OBVIOUS
  <2>1. file'[f].state # file[f].state
    BY ZenonT(60) DEF Exists
  <2>2. CASE \E a \in Actors : Commit(a)
    BY ZenonT(60), <1>1, <2>1, <2>2, CommitRows DEF Exists
  <2>3. CASE \E m \in Mounts, h \in Handles, n \in Names, g \in FileIds, known \in BOOLEAN :
               Create(m, h, n, g, known)
    <3>1. PICK m \in Mounts, h \in Handles, n \in Names, g \in FileIds, known \in BOOLEAN :
               Create(m, h, n, g, known)
      BY ZenonT(60), <2>3
    <3>2. file' = [file EXCEPT ![g] = [state |-> "named", name |-> n]]
      BY ZenonT(60), <3>1 DEF Create
    <3>3. f # g => file'[f] = file[f]
      BY ZenonT(60), <1>1, <3>2 DEF IInv, TypeOK
    <3>4. file'[g].state = "named"
      BY ZenonT(60), <1>1, <3>2 DEF IInv, TypeOK
    <3> QED BY ZenonT(60), <3>3, <3>4, <2>1 DEF Exists
  <2>4. ASSUME NEW m \in Mounts, Callback(m), file' # file
        PROVE  \E h \in Handles, n \in Names, g \in FileIds, known \in BOOLEAN :
                 Create(m, h, n, g, known)
    BY Zenon, <2>4 DEF Callback, dbVars, OpenResolve, RegisterLease, RegisterLost, CreateReply,
                CreateFails, CallFails, RollbackPromote, CallPurge, UnlinkResolve, UnlinkBegin,
                LinkResolve, LinkCommit, RenameResolve, RenameBegin, Release, Finalize
  <2>5. ASSUME NEW m \in Mounts, Background(m) PROVE file' = file
    BY ZenonT(60), <2>5 DEF Background, dbVars, HeartbeatSession, HeartbeatLeases, PruneSessions,
                SelectOrphans, PurgeOrphan, Crash
  <2>6. ASSUME NEW a \in Actors, Remove(a) \/ Abort(a) PROVE file' = file
    BY ZenonT(60), <2>6 DEF Remove, Abort, dbVars
  <2>7. Tick \/ UNCHANGED vars => file' = file
    BY ZenonT(60) DEF Tick, vars
  <2>8. file' # file
    BY ZenonT(60), <2>1
  <2> QED BY ZenonT(60), <1>1, <2>2, <2>3, <2>4, <2>5, <2>6, <2>7, <2>8 DEF Next
<1> QED BY <1>1, LifecycleInvariant, PTL DEF Spec, HardlinkSurvives
=============================================================================
