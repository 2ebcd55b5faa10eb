---------------------------- MODULE ReadCacheProofs ----------------------------
(***************************************************************************)
(* The block cache of a mount stays coherent with the local changes that   *)
(* were answered, for every number of reading and writing threads, files,  *)
(* blocks, limits, reloads and changes, under way together or not.         *)
(*                                                                         *)
(* A reader takes its stamp before it looks anything up or fetches a row,  *)
(* and every invalidation moves an epoch before the change it belongs to   *)
(* is answered.  So rows under a stamp that is still current were fetched  *)
(* after every answered change of the file, and after the commit of a      *)
(* change whose invalidation is half done; only they enter the cache.      *)
(* The map of recently written blocks has no epoch: a flush that is        *)
(* overtaken puts its older blocks over newer ones.  What holds there is   *)
(* that a block which met no other change while it was flushed is not      *)
(* older than that flush, and settled counts just these.                   *)
(***************************************************************************)
EXTENDS ReadCache, FiniteSetTheorems, TLAPS

\* Maps from some members of S to commit numbers.
Versions(S) == UNION {[D -> Nat] : D \in SUBSET S}
Rows == [v : Nat, row : BOOLEAN]
Fetches(S) == UNION {[D -> Rows] : D \in SUBSET S}
Floors(S) == UNION {[D -> Nat \cup (Nat \X Nat)] : D \in SUBSET S}

ReadPcs == {"fast", "target", "look", "relook", "top", "acquire", "owned", "waiting", "fetch",
            "publish", "insert", "finish", "remove", "answered", "failed"}
NextPcs == {"top", "failed", "waiting", "answered"}

ReadRecords ==
    [pc : ReadPcs \cup {Nobody}, file : Files, first : Blocks, last : Blocks, lo : Blocks, hi : Blocks,
     left : SUBSET Blocks, in : {"recent", "cache"}, got : Versions(Blocks), want : SUBSET Blocks,
     fetched : Fetches(Blocks), stamp : {<<>>} \cup (Nat \X Nat), own : BOOLEAN,
     next : NextPcs \cup {Nobody}, on : Readers \cup {Nobody}, lim : Nat, floor : Floors(Blocks)]

ChangeRecords ==
    [pc : {"commit", "recent", "clear", "clearRecent"}, kind : {"flush", "punch", "buffer"},
     file : Files, blocks : SUBSET Blocks, vers : Versions(Blocks), sole : SUBSET Blocks]

FlightRecords == [owner : Readers, file : Files, blocks : SUBSET Blocks, done : BOOLEAN]

CacheTypes ==
    /\ setup \in Setups
    /\ db \in [Keys -> Rows]
    /\ epoch \in [Files -> Nat] /\ cacheEpoch \in Nat
    /\ cache = [order |-> cache.order, entries |-> cache.entries]
    /\ cache.entries \in Versions(Keys)
    /\ recent \in Versions(Keys) /\ IsFiniteSet(DOMAIN recent)
    /\ limit \in Nat
    /\ reload \in [pc : {"idle", "clear"}, n : Nat]
    /\ flights \subseteq FlightRecords
    /\ rd \in [Readers -> {IdleRead} \cup ReadRecords]
    /\ wr \in [Writers -> {IdleWrite} \cup ChangeRecords]
    /\ acked \in [Keys -> Nat] /\ settled \in [Keys -> Nat]

\* Block b of f was changed by a commit of w whose cached copies are dropped and
\* whose recently written copies are not yet.
HalfDropped(w, f, b) == wr[w].pc = "clearRecent" /\ wr[w].file = f /\ b \in DOMAIN wr[w].vers

\* Content v of the block is as new as every change that is half dropped.
NotBehind(f, b, v) == \A w \in Writers : HalfDropped(w, f, b) => wr[w].vers[b] <= v

\* A local change in progress: its commit numbers lie between what was settled
\* and the database.
ChangeOK(c) ==
    /\ c.pc = "recent" => c.kind = "flush"
    /\ c.pc = "clearRecent" => c.kind = "punch"
    /\ c.kind = "buffer" => c.pc = "clear" /\ DOMAIN c.vers = {}
    /\ DOMAIN c.vers \subseteq c.blocks /\ c.sole \subseteq c.blocks
    /\ \A b \in DOMAIN c.vers : /\ settled[<<c.file, b>>] <= c.vers[b]
                               /\ c.vers[b] <= db[<<c.file, b>>].v

\* No change under way changes a block that another one has for itself.
Apart(c, d) == c.file = d.file => c.sole \cap d.blocks = {}

ChangeInv ==
    /\ \A k \in Keys : settled[k] <= acked[k] /\ acked[k] <= db[k].v
    /\ \A w \in Writers : wr[w].pc # "idle" =>
          /\ ChangeOK(wr[w])
          /\ \A u \in Writers \ {w} : wr[u].pc # "idle" => Apart(wr[w], wr[u])

\* Of the blocks a flush has for itself none older than its own is among the
\* recently written ones.
RecentOK(c) ==
    \A k \in DOMAIN recent :
        k[1] = c.file /\ k[2] \in c.sole /\ k[2] \in DOMAIN c.vers => c.vers[k[2]] <= recent[k]

StoresInv ==
    /\ \A k \in DOMAIN cache.entries :
          /\ acked[k] <= cache.entries[k]
          /\ NotBehind(k[1], k[2], cache.entries[k])
    /\ \A k \in DOMAIN recent : settled[k] <= recent[k]
    /\ \A w \in Writers : wr[w].pc = "clear" /\ wr[w].kind = "flush" => RecentOK(wr[w])

\* While the cache is off nothing is resident.
OffInv == limit = 0 /\ reload.pc = "idle" => DOMAIN cache.entries = {} /\ DOMAIN recent = {}

\* The reply is fixed, only the end of the fill is outstanding.
Replied(x) == x.pc = "answered" \/ (x.pc \in {"finish", "remove"} /\ x.next = "answered")

Lacks(x) == (x.lo..x.hi) \ DOMAIN x.got

RangeOK(x) ==
    /\ x.lo <= x.first /\ x.first <= x.last /\ x.last <= x.hi
    /\ x.pc = "target" => x.first = x.last /\ DOMAIN x.got \subseteq {x.first} /\ x.left \subseteq {x.first}
    /\ x.pc = "fetch" => Lacks(x) \subseteq x.want \cup DOMAIN x.fetched
    /\ x.pc \in {"publish", "insert"} => Lacks(x) \subseteq DOMAIN x.fetched

\* What a read has in hand is at least as new as what it must return.
FloorOK(x) ==
    /\ Replied(x) => \A b \in DOMAIN x.floor : x.floor[b][1] <= x.floor[b][2]
    /\ ~Replied(x) =>
          /\ x.floor \in [x.first..x.last -> Nat]
          /\ \A b \in x.first..x.last :
                /\ x.floor[b] <= settled[<<x.file, b>>]
                /\ b \in DOMAIN x.got => x.floor[b] <= x.got[b]
                /\ b \in DOMAIN x.fetched => x.floor[b] <= x.fetched[b].v

\* Rows under a current stamp are as new as every answered change, and as a
\* change that is half dropped.
StampOK(x) ==
    /\ x.stamp # <<>> => x.stamp[1] <= epoch[x.file] /\ x.stamp[2] <= cacheEpoch
    /\ x.stamp = Stamp(x.file) =>
          \A b \in DOMAIN x.fetched :
             /\ acked[<<x.file, b>>] <= x.fetched[b].v
             /\ NotBehind(x.file, b, x.fetched[b].v)

InsertOK(x) ==
    x.pc = "insert" => x.stamp = Stamp(x.file) /\ (x.lim > 0 => limit > 0 \/ reload.pc = "clear")

ReadOK(x) == RangeOK(x) /\ FloorOK(x) /\ StampOK(x) /\ InsertOK(x)

ReadersInv ==
    \A r \in Readers :
        /\ rd[r].pc # "idle" => ReadOK(rd[r])
        /\ rd[r].pc = "insert" => gate = r

CacheInv == CacheTypes /\ ChangeInv /\ StoresInv /\ OffInv /\ ReadersInv

-----------------------------------------------------------------------------
\* A map of commit numbers is a function with numbers on a part of S.
LEMMA VersionsFacts ==
    ASSUME NEW S, NEW x
    PROVE  x \in Versions(S) <=> DOMAIN x \subseteq S /\ x \in [DOMAIN x -> Nat]
BY ZenonT(60) DEF Versions

LEMMA FetchesFacts ==
    ASSUME NEW S, NEW x
    PROVE  x \in Fetches(S) <=> DOMAIN x \subseteq S /\ x \in [DOMAIN x -> Rows]
BY ZenonT(60) DEF Fetches

LEMMA FloorsFacts ==
    ASSUME NEW S, NEW x
    PROVE  x \in Floors(S) <=> DOMAIN x \subseteq S /\ x \in [DOMAIN x -> Nat \cup (Nat \X Nat)]
BY ZenonT(60) DEF Floors

LEMMA NothingFacts ==
    ASSUME NEW S
    PROVE  Nothing \in Versions(S) /\ Nothing \in Fetches(S) /\ DOMAIN Nothing = {}
<1>1. DOMAIN Nothing = {} BY ZenonT(60) DEF Nothing
<1>2. Nothing \in [{} -> Nat] /\ Nothing \in [{} -> Rows] BY ZenonT(60) DEF Nothing
<1> QED BY Zenon, <1>1, <1>2, VersionsFacts, FetchesFacts

LEMMA WithVersions ==
    ASSUME NEW S, NEW new \in Versions(S), NEW old \in Versions(S)
    PROVE  With(new, old) \in Versions(S)
<1>1. /\ DOMAIN new \subseteq S /\ new \in [DOMAIN new -> Nat]
      /\ DOMAIN old \subseteq S /\ old \in [DOMAIN old -> Nat]
  BY ZenonT(60), VersionsFacts
<1>2. DOMAIN With(new, old) \subseteq S BY ZenonT(60), <1>1 DEF With
<1>3. \A k \in DOMAIN With(new, old) : With(new, old)[k] \in Nat BY ZenonT(60), <1>1 DEF With
<1>4. With(new, old) \in [DOMAIN With(new, old) -> Nat] BY Zenon, <1>3 DEF With
<1> QED BY ZenonT(60), <1>2, <1>4, VersionsFacts

LEMMA WithoutVersions ==
    ASSUME NEW S, NEW fun \in Versions(S), NEW T
    PROVE  Without(fun, T) \in Versions(S)
<1>1. DOMAIN fun \subseteq S /\ fun \in [DOMAIN fun -> Nat] BY ZenonT(60), VersionsFacts
<1>2. DOMAIN Without(fun, T) \subseteq S BY ZenonT(60), <1>1 DEF Without
<1>3. \A k \in DOMAIN Without(fun, T) : Without(fun, T)[k] \in Nat BY ZenonT(60), <1>1 DEF Without
<1>4. Without(fun, T) \in [DOMAIN Without(fun, T) -> Nat] BY ZenonT(60), <1>3 DEF Without
<1> QED BY ZenonT(60), <1>2, <1>4, VersionsFacts

LEMMA SetupFacts ==
    ASSUME CacheConstants, setup \in Setups
    PROVE  /\ Files \subseteq Nat /\ LastBlock \in Nat /\ Blocks \subseteq Nat
           /\ Blocks = 0..LastBlock /\ IsFiniteSet(Blocks)
           /\ setup.limits \subseteq Nat /\ setup.kinds \subseteq {"flush", "punch", "buffer"}
           /\ \A w \in setup.reads : w[1] \in Blocks /\ w[2] \in Blocks /\ w[1] <= w[2]
<1>1. Files \subseteq Nat /\ LastBlock \in Nat /\ Blocks \subseteq Nat /\ Blocks = 0..LastBlock
  BY DEF CacheConstants, Files, LastBlock, Blocks
<1>2. IsFiniteSet(Blocks) BY <1>1, FS_Interval
<1>3. setup.limits \subseteq Nat /\ setup.kinds \subseteq {"flush", "punch", "buffer"} BY ZenonT(60) DEF CacheConstants
<1>4. ASSUME NEW w \in setup.reads PROVE w[1] \in Blocks /\ w[2] \in Blocks /\ w[1] <= w[2]
  <2>1. w[1] \in 0..setup.last /\ w[2] \in w[1]..setup.last BY ZenonT(60) DEF CacheConstants
  <2>2. setup.last \in Nat BY ZenonT(60) DEF CacheConstants
  <2> QED BY <2>1, <2>2 DEF Blocks, LastBlock
<1> QED BY ZenonT(60), <1>1, <1>2, <1>3, <1>4

-----------------------------------------------------------------------------
\* A step that changes only readers, their flights and the block cache.
LEMMA ReadersMove ==
    ASSUME CacheInv, NEW m \in [Readers -> {IdleRead} \cup ReadRecords], rd' = m,
           \A q \in Readers : (m[q].pc # "idle" => ReadOK(m[q])) /\ (m[q].pc = "insert" => gate' = q),
           UNCHANGED Reading,
           flights' = flights \/ flights' \subseteq FlightRecords,
           NEW e \in Versions(Keys), cache' = [order |-> cache'.order, entries |-> e],
           \A k \in DOMAIN e : /\ acked[k] <= e[k]
                               /\ NotBehind(k[1], k[2], e[k]),
           limit = 0 /\ reload.pc = "idle" => DOMAIN e = {}
    PROVE  CacheInv'
<1> USE DEF CacheInv
<1>1. /\ setup' = setup /\ db' = db /\ epoch' = epoch /\ cacheEpoch' = cacheEpoch /\ recent' = recent
      /\ limit' = limit /\ reload' = reload /\ wr' = wr /\ acked' = acked /\ settled' = settled
      /\ cache'.entries = e
  BY DEF Reading
<1>2. Files' = Files /\ Blocks' = Blocks /\ Keys' = Keys /\ ReadRecords' = ReadRecords
      /\ ChangeRecords' = ChangeRecords /\ FlightRecords' = FlightRecords
      /\ Versions(Keys)' = Versions(Keys)
  BY ZenonT(60), <1>1 DEF Files, Blocks, LastBlock, Keys, ReadRecords, ChangeRecords, FlightRecords, Versions,
              Fetches, Floors, Nobody
<1>3. rd' \in [Readers -> {IdleRead} \cup ReadRecords] OBVIOUS
<1>4. CacheTypes' BY ZenonT(60), <1>1, <1>2, <1>3 DEF CacheTypes
<1>5. ChangeInv' BY ZenonT(60), <1>1, <1>2 DEF ChangeInv, ChangeOK, Apart
<1>6. StoresInv' BY ZenonT(60), <1>1 DEF StoresInv, NotBehind, HalfDropped, RecentOK
<1>7. OffInv' BY ZenonT(60), <1>1 DEF OffInv
<1>8. ASSUME NEW x PROVE ReadOK(x)' <=> ReadOK(x)
  BY ZenonT(60), <1>1 DEF ReadOK, RangeOK, FloorOK, StampOK, InsertOK, Lacks, Replied, NotBehind,
                        HalfDropped, Stamp
<1>9. ASSUME NEW q \in Readers
      PROVE  (rd'[q].pc # "idle" => ReadOK(rd[q])') /\ (rd'[q].pc = "insert" => gate' = q)
  <2>1. rd'[q] = m[q] OBVIOUS
  <2> QED BY ZenonT(60), <2>1, <1>8
<1>10. ReadersInv' BY ZenonT(60), <1>9 DEF ReadersInv
<1> QED BY ZenonT(60), <1>4, <1>5, <1>6, <1>7, <1>10

\* A step of one reader that changes only its own record, and of the cache at
\* most the order of the keys.
LEMMA ReaderMove ==
    ASSUME CacheInv, NEW r \in Readers, NEW n \in {IdleRead} \cup ReadRecords,
           rd' = [rd EXCEPT ![r] = n], UNCHANGED Reading,
           flights' = flights \/ flights' \subseteq FlightRecords,
           cache' = [order |-> cache'.order, entries |-> cache.entries],
           n.pc # "idle" => ReadOK(n),
           n.pc = "insert" => gate' = r,
           \A q \in Readers \ {r} : rd[q].pc = "insert" => gate' = q
    PROVE  CacheInv'
<1> DEFINE m == [rd EXCEPT ![r] = n]
<1>1. m \in [Readers -> {IdleRead} \cup ReadRecords] BY ZenonT(60) DEF CacheInv, CacheTypes
<1>2. ASSUME NEW q \in Readers
      PROVE  (m[q].pc # "idle" => ReadOK(m[q])) /\ (m[q].pc = "insert" => gate' = q)
  <2>1. m[q] = IF q = r THEN n ELSE rd[q] BY ZenonT(60) DEF CacheInv, CacheTypes
  <2> HIDE DEF m
  <2>2. CASE q = r BY ZenonT(60), <2>1, <2>2
  <2>3. CASE q # r BY ZenonT(60), <2>1, <2>3 DEF CacheInv, ReadersInv
  <2> QED BY ZenonT(60), <2>2, <2>3
<1>3. cache.entries \in Versions(Keys) BY ZenonT(60) DEF CacheInv, CacheTypes
<1>4. \A k \in DOMAIN cache.entries : /\ acked[k] <= cache.entries[k]
                                      /\ NotBehind(k[1], k[2], cache.entries[k])
  BY ZenonT(60) DEF CacheInv, StoresInv
<1>5. limit = 0 /\ reload.pc = "idle" => DOMAIN cache.entries = {} BY ZenonT(60) DEF CacheInv, OffInv
<1> HIDE DEF m
<1> QED BY Zenon, <1>1, <1>2, <1>3, <1>4, <1>5, ReadersMove DEF m

-----------------------------------------------------------------------------
LEMMA GetKeeps ==
    ASSUME CacheTypes, NEW k, NEW f, NEW bs
    PROVE  /\ Get(cache, k) = [order |-> Get(cache, k).order, entries |-> cache.entries]
           /\ GetRange(cache, f, bs) = [order |-> GetRange(cache, f, bs).order, entries |-> cache.entries]
<1>1. ASSUME NEW o PROVE [cache EXCEPT !.order = o] = [order |-> o, entries |-> cache.entries]
  BY DEF CacheTypes
<1>2. \/ Get(cache, k) = cache
      \/ \E o : Get(cache, k) = [cache EXCEPT !.order = o]
  BY Zenon DEF Get
<1>3. \/ GetRange(cache, f, bs) = cache
      \/ \E o : GetRange(cache, f, bs) = [cache EXCEPT !.order = o]
  BY Zenon DEF GetRange
<1>4. cache = [order |-> cache.order, entries |-> cache.entries] BY ZenonT(60) DEF CacheTypes
<1>5. Get(cache, k) = [order |-> Get(cache, k).order, entries |-> cache.entries]
  <2>1. CASE Get(cache, k) = cache BY ZenonT(60), <2>1, <1>4
  <2>2. ASSUME NEW o, Get(cache, k) = [cache EXCEPT !.order = o]
        PROVE  Get(cache, k) = [order |-> Get(cache, k).order, entries |-> cache.entries]
    BY ZenonT(60), <2>2, <1>1
  <2> QED BY ZenonT(60), <1>2, <2>1, <2>2
<1>6. GetRange(cache, f, bs) = [order |-> GetRange(cache, f, bs).order, entries |-> cache.entries]
  <2>1. CASE GetRange(cache, f, bs) = cache BY ZenonT(60), <2>1, <1>4
  <2>2. ASSUME NEW o, GetRange(cache, f, bs) = [cache EXCEPT !.order = o]
        PROVE  GetRange(cache, f, bs) = [order |-> GetRange(cache, f, bs).order, entries |-> cache.entries]
    BY ZenonT(60), <2>2, <1>1
  <2> QED BY ZenonT(60), <1>3, <2>1, <2>2
<1> QED BY ZenonT(60), <1>5, <1>6

\* The blocks of a read are blocks of its file.
LEMMA ReadFacts ==
    ASSUME CacheConstants, CacheInv, NEW x \in ReadRecords, ReadOK(x)
    PROVE  /\ x.file \in Files /\ x.first \in Nat /\ x.last \in Nat /\ x.lo \in Nat /\ x.hi \in Nat
           /\ x.lo <= x.first /\ x.first <= x.last /\ x.last <= x.hi
           /\ x.lo..x.hi \subseteq Blocks /\ x.first..x.last \subseteq x.lo..x.hi
           /\ \A b \in Blocks : <<x.file, b>> \in Keys /\ settled[<<x.file, b>>] \in Nat
           /\ DOMAIN x.got \subseteq Blocks /\ x.got \in [DOMAIN x.got -> Nat]
           /\ DOMAIN x.fetched \subseteq Blocks /\ x.fetched \in [DOMAIN x.fetched -> Rows]
           /\ \A b \in DOMAIN x.fetched : x.fetched[b].v \in Nat /\ x.fetched[b].row \in BOOLEAN
<1> USE DEF CacheInv
<1>1. /\ x.file \in Files /\ x.first \in Blocks /\ x.last \in Blocks /\ x.lo \in Blocks /\ x.hi \in Blocks
      /\ x.got \in Versions(Blocks) /\ x.fetched \in Fetches(Blocks)
  BY ZenonT(60) DEF ReadRecords
<1>2. Blocks \subseteq Nat /\ Blocks = 0..LastBlock /\ LastBlock \in Nat BY ZenonT(60), SetupFacts DEF CacheTypes
<1>3. x.lo <= x.first /\ x.first <= x.last /\ x.last <= x.hi BY ZenonT(60) DEF ReadOK, RangeOK
<1>4. x.lo..x.hi \subseteq Blocks /\ x.first..x.last \subseteq x.lo..x.hi BY SMTT(60), <1>1, <1>2, <1>3
<1>5. \A b \in Blocks : <<x.file, b>> \in Keys /\ settled[<<x.file, b>>] \in Nat
  BY ZenonT(60), <1>1 DEF Keys, CacheTypes
<1>6. DOMAIN x.got \subseteq Blocks /\ x.got \in [DOMAIN x.got -> Nat] BY ZenonT(60), <1>1, VersionsFacts
<1>7. DOMAIN x.fetched \subseteq Blocks /\ x.fetched \in [DOMAIN x.fetched -> Rows] BY ZenonT(60), <1>1, FetchesFacts
<1>8. \A b \in DOMAIN x.fetched : x.fetched[b].v \in Nat /\ x.fetched[b].row \in BOOLEAN BY ZenonT(60), <1>7 DEF Rows
<1> QED BY ZenonT(60), <1>1, <1>2, <1>3, <1>4, <1>5, <1>6, <1>7, <1>8

\* A lookup adds blocks that are as new as what was answered.
LEMMA LookupOK ==
    ASSUME CacheConstants, CacheInv, NEW x \in ReadRecords, ReadOK(x),
           x.pc \in {"fast", "target", "look", "relook"}, NEW n,
           /\ n.pc = x.pc /\ n.file = x.file /\ n.first = x.first /\ n.last = x.last
           /\ n.lo = x.lo /\ n.hi = x.hi /\ n.floor = x.floor /\ n.fetched = x.fetched
           /\ n.stamp = x.stamp /\ n.next = x.next,
           n.left \subseteq x.left,
           DOMAIN n.got \subseteq DOMAIN x.got \cup x.left,
           \A b \in DOMAIN n.got :
              \/ b \in DOMAIN x.got /\ n.got[b] = x.got[b]
              \/ n.got[b] \in Nat /\ settled[<<x.file, b>>] <= n.got[b]
    PROVE  ReadOK(n)
<1>1. RangeOK(x) /\ FloorOK(x) /\ StampOK(x) /\ InsertOK(x) BY ZenonT(60) DEF ReadOK
<1>2. RangeOK(n) BY ZenonT(60), <1>1 DEF RangeOK
<1>3. StampOK(n) BY ZenonT(60), <1>1 DEF StampOK
<1>4. InsertOK(n) BY ZenonT(60) DEF InsertOK
<1>5. ~Replied(x) /\ ~Replied(n) BY ZenonT(60) DEF Replied
<1>6. x.floor \in [x.first..x.last -> Nat] /\ n.floor \in [n.first..n.last -> Nat]
  BY ZenonT(60), <1>1, <1>5 DEF FloorOK
<1>7. ASSUME NEW b \in n.first..n.last
      PROVE  /\ n.floor[b] <= settled[<<n.file, b>>]
             /\ b \in DOMAIN n.got => n.floor[b] <= n.got[b]
             /\ b \in DOMAIN n.fetched => n.floor[b] <= n.fetched[b].v
  <2>1. b \in x.first..x.last OBVIOUS
  <2>2. /\ x.floor[b] <= settled[<<x.file, b>>]
        /\ b \in DOMAIN x.got => x.floor[b] <= x.got[b]
        /\ b \in DOMAIN x.fetched => x.floor[b] <= x.fetched[b].v
    BY ZenonT(60), <1>1, <1>5, <2>1 DEF FloorOK
  <2>3. b \in Blocks /\ settled[<<x.file, b>>] \in Nat BY ZenonT(60), <2>1, ReadFacts
  <2>4. x.floor[b] \in Nat BY Zenon, <1>6, <2>1
  <2>5. b \in DOMAIN n.got => n.floor[b] <= n.got[b] BY <2>2, <2>3, <2>4
  <2> QED BY ZenonT(60), <2>2, <2>5
<1>8. FloorOK(n) BY ZenonT(60), <1>5, <1>6, <1>7 DEF FloorOK
<1> QED BY ZenonT(60), <1>2, <1>3, <1>4, <1>8 DEF ReadOK

-----------------------------------------------------------------------------
\* Lookups.
LEMMA ReaderRecord ==
    ASSUME CacheInv, NEW r \in Readers, rd[r].pc # "idle"
    PROVE  rd[r] \in ReadRecords /\ ReadOK(rd[r])
BY DEF CacheInv, CacheTypes, ReadersInv, IdleRead

LEMMA LookupBypassedInv ==
    ASSUME CacheConstants, CacheInv, NEW r \in Readers, LookupBypassed(r)
    PROVE  CacheInv'
<1> DEFINE x == rd[r]
<1> DEFINE n == [x EXCEPT !.left = {}]
<1>1. x.pc \in {"fast", "target", "look", "relook"} BY ZenonT(60) DEF LookupBypassed, Looking
<1>2. x \in ReadRecords /\ ReadOK(x) BY ZenonT(60), <1>1, ReaderRecord
<1>3. n \in ReadRecords BY ZenonT(60), <1>2 DEF ReadRecords
<1>4. /\ n.pc = x.pc /\ n.file = x.file /\ n.first = x.first /\ n.last = x.last
      /\ n.lo = x.lo /\ n.hi = x.hi /\ n.floor = x.floor /\ n.fetched = x.fetched
      /\ n.stamp = x.stamp /\ n.next = x.next /\ n.left = {} /\ n.got = x.got
  BY ZenonT(60), <1>2 DEF ReadRecords
<1>5. rd' = [rd EXCEPT ![r] = n] /\ UNCHANGED Reading /\ flights' = flights /\ gate' = gate /\ cache' = cache
  BY ZenonT(60) DEF LookupBypassed
<1>6. cache' = [order |-> cache'.order, entries |-> cache.entries] BY ZenonT(60), <1>5 DEF CacheInv, CacheTypes
<1> HIDE DEF x, n
<1>7. ReadOK(n) BY ZenonT(60), <1>1, <1>2, <1>4, LookupOK
<1>8. \A q \in Readers \ {r} : rd[q].pc = "insert" => gate' = q BY ZenonT(60), <1>5 DEF CacheInv, ReadersInv
<1>9. n.pc # "insert" BY ZenonT(60), <1>1, <1>4
<1> QED BY Zenon, <1>3, <1>5, <1>6, <1>7, <1>8, <1>9, ReaderMove

\* A cached block is as new as what was answered, so as what is settled.
LEMMA CacheHit ==
    ASSUME CacheInv, NEW k \in DOMAIN cache.entries
    PROVE  cache.entries[k] \in Nat /\ settled[k] <= cache.entries[k]
<1>1. DOMAIN cache.entries \subseteq Keys /\ cache.entries \in [DOMAIN cache.entries -> Nat]
  BY ZenonT(60), VersionsFacts DEF CacheInv, CacheTypes
<1>2. acked[k] \in Nat /\ settled[k] \in Nat /\ settled[k] <= acked[k]
  BY ZenonT(60), <1>1 DEF CacheInv, CacheTypes, ChangeInv
<1>3. cache.entries[k] \in Nat /\ acked[k] <= cache.entries[k] BY ZenonT(60), <1>1 DEF CacheInv, StoresInv
<1> QED BY ONLY <1>2, <1>3, SMTT(30)

LEMMA LookupRangeInv ==
    ASSUME CacheConstants, CacheInv, NEW r \in Readers, LookupRange(r)
    PROVE  CacheInv'
<1> DEFINE x == rd[r]
<1> DEFINE hits == {b \in x.left : <<x.file, b>> \in DOMAIN cache.entries}
<1> DEFINE new == [b \in hits |-> cache.entries[<<x.file, b>>]]
<1> DEFINE g == With(new, x.got)
<1> DEFINE n == [x EXCEPT !.left = {}, !.got = g]
<1>1. x.pc \in {"fast", "target", "look", "relook"} BY ZenonT(60) DEF LookupRange, Looking
<1>2. x \in ReadRecords /\ ReadOK(x) BY ZenonT(60), <1>1, ReaderRecord
<1>3. x.got \in Versions(Blocks) /\ x.left \subseteq Blocks BY ZenonT(60), <1>2 DEF ReadRecords
<1>4. \A b \in hits : new[b] \in Nat /\ settled[<<x.file, b>>] <= new[b] BY ZenonT(60), CacheHit
<1>5. new \in Versions(Blocks) BY Zenon, <1>3, <1>4, VersionsFacts
<1>6. g \in Versions(Blocks) BY ZenonT(60), <1>3, <1>5, WithVersions
<1>7. /\ DOMAIN g = hits \cup DOMAIN x.got
      /\ \A b \in hits : g[b] = new[b]
      /\ \A b \in (DOMAIN x.got) \ hits : g[b] = x.got[b]
  BY Zenon DEF With
<1>8. rd' = [rd EXCEPT ![r] = n] /\ UNCHANGED Reading /\ flights' = flights /\ gate' = gate
      /\ cache' = GetRange(cache, x.file, x.left)
  BY Zenon DEF LookupRange
<1> HIDE DEF x, g, new
<1>9. n \in ReadRecords BY ZenonT(60), <1>2, <1>6 DEF ReadRecords
<1>10. /\ n.pc = x.pc /\ n.file = x.file /\ n.first = x.first /\ n.last = x.last
       /\ n.lo = x.lo /\ n.hi = x.hi /\ n.floor = x.floor /\ n.fetched = x.fetched
       /\ n.stamp = x.stamp /\ n.next = x.next /\ n.left = {} /\ n.got = g
  BY ZenonT(60), <1>2 DEF ReadRecords
<1>11. cache' = [order |-> cache'.order, entries |-> cache.entries] BY ZenonT(60), <1>8, GetKeeps DEF CacheInv
<1> HIDE DEF n
<1>12. /\ DOMAIN n.got \subseteq DOMAIN x.got \cup x.left
       /\ \A b \in DOMAIN n.got :
             \/ b \in DOMAIN x.got /\ n.got[b] = x.got[b]
             \/ n.got[b] \in Nat /\ settled[<<x.file, b>>] <= n.got[b]
  BY ZenonT(60), <1>4, <1>7, <1>10
<1>13. ReadOK(n) BY ZenonT(60), <1>1, <1>2, <1>10, <1>12, LookupOK
<1>14. \A q \in Readers \ {r} : rd[q].pc = "insert" => gate' = q BY ZenonT(60), <1>8 DEF CacheInv, ReadersInv
<1>15. n.pc # "insert" BY ZenonT(60), <1>1, <1>10
<1> QED BY Zenon, <1>8, <1>9, <1>11, <1>13, <1>14, <1>15, ReaderMove

\* A set of numbers that is not empty has a least one.
LEMMA LeastNumber ==
    ASSUME NEW T, T \subseteq Nat, T # {}
    PROVE  \E n \in T : \A m \in T : n <= m
<1> DEFINE Less == {mn \in Nat \X Nat : mn[1] < mn[2]}
<1>1. OpToRel(<, Nat) = Less
  BY ZenonT(60) DEF OpToRel
<1>2. IsWellFoundedOn(Less, Nat)
  BY Zenon, <1>1, NatLessThanWellFounded
<1>3. PICK n \in T : \A m \in T : ~(<<m, n>> \in Less)
  <2> HIDE DEF Less
  <2> QED BY Zenon, <1>2, WFMin
<1>4. ASSUME NEW m \in T PROVE n <= m
  <2>1. m \in Nat /\ n \in Nat /\ <<m, n>> \notin Less
    BY ZenonT(60), <1>3
  <2>2. ~(m < n)
    BY ZenonT(60), <2>1
  <2> QED BY <2>1, <2>2
<1> QED BY ZenonT(60), <1>4

\* The next block is one that is left.
LEMMA NextBlockLeft ==
    ASSUME CacheConstants, CacheInv, NEW r \in Readers, rd[r] \in ReadRecords, rd[r].left # {}
    PROVE  NextBlock(r) \in rd[r].left
<1>1. rd[r].left \subseteq Nat BY ZenonT(60), SetupFacts DEF CacheInv, CacheTypes, ReadRecords
<1>2. \E b \in rd[r].left : \A c \in rd[r].left : b <= c BY ZenonT(60), <1>1, LeastNumber
<1> QED BY ZenonT(60), <1>2 DEF NextBlock

LEMMA LookupRecentInv ==
    ASSUME CacheConstants, CacheInv, NEW r \in Readers, LookupRecent(r)
    PROVE  CacheInv'
<1> DEFINE x == rd[r]
<1> DEFINE b == NextBlock(r)
<1> DEFINE k == <<x.file, b>>
<1>1. x.pc \in {"fast", "target", "look", "relook"} /\ x.left # {} BY ZenonT(60) DEF LookupRecent, Looking
<1>2. x \in ReadRecords /\ ReadOK(x) BY ZenonT(60), <1>1, ReaderRecord
<1>3. x.got \in Versions(Blocks) /\ x.left \subseteq Blocks /\ b \in x.left
  BY ZenonT(60), <1>1, <1>2, NextBlockLeft DEF ReadRecords
<1>4. UNCHANGED Reading /\ flights' = flights /\ gate' = gate /\ cache' = cache BY ZenonT(60) DEF LookupRecent
<1>5. cache' = [order |-> cache'.order, entries |-> cache.entries] BY ZenonT(60), <1>4 DEF CacheInv, CacheTypes
<1>6. \A q \in Readers \ {r} : rd[q].pc = "insert" => gate' = q BY ZenonT(60), <1>4 DEF CacheInv, ReadersInv
<1>7. CASE k \in DOMAIN recent
  <2> DEFINE new == [c \in {b} |-> recent[k]]
  <2> DEFINE g == With(new, x.got)
  <2> DEFINE n == [x EXCEPT !.left = x.left \ {b}, !.got = g]
  <2>1. rd' = [rd EXCEPT ![r] = n] BY Zenon, <1>7 DEF LookupRecent
  <2>2. recent[k] \in Nat /\ settled[k] <= recent[k]
    <3>1. recent \in [DOMAIN recent -> Nat] BY ZenonT(60), VersionsFacts DEF CacheInv, CacheTypes
    <3> QED BY ZenonT(60), <1>7, <3>1 DEF CacheInv, StoresInv
  <2>3. new \in Versions(Blocks) BY ZenonT(60), <1>3, <2>2, VersionsFacts
  <2>4. g \in Versions(Blocks) BY ZenonT(60), <1>3, <2>3, WithVersions
  <2>5. /\ DOMAIN g = {b} \cup DOMAIN x.got /\ g[b] = recent[k]
        /\ \A c \in (DOMAIN x.got) \ {b} : g[c] = x.got[c]
    BY ZenonT(60) DEF With
  <2> HIDE DEF x, g, new, b
  <2>6. n \in ReadRecords BY ZenonT(60), <1>2, <1>3, <2>4 DEF ReadRecords
  <2>7. /\ n.pc = x.pc /\ n.file = x.file /\ n.first = x.first /\ n.last = x.last
        /\ n.lo = x.lo /\ n.hi = x.hi /\ n.floor = x.floor /\ n.fetched = x.fetched
        /\ n.stamp = x.stamp /\ n.next = x.next /\ n.left = x.left \ {b} /\ n.got = g
    BY ZenonT(60), <1>2 DEF ReadRecords
  <2> HIDE DEF n
  <2>8. /\ DOMAIN n.got \subseteq DOMAIN x.got \cup x.left
        /\ \A c \in DOMAIN n.got :
              \/ c \in DOMAIN x.got /\ n.got[c] = x.got[c]
              \/ n.got[c] \in Nat /\ settled[<<x.file, c>>] <= n.got[c]
    BY ZenonT(60), <1>3, <2>2, <2>5, <2>7
  <2>9. ReadOK(n) BY ZenonT(60), <1>1, <1>2, <2>7, <2>8, LookupOK
  <2>10. n.pc # "insert" BY ZenonT(60), <1>1, <2>7
  <2> QED BY Zenon, <1>4, <1>5, <1>6, <2>1, <2>6, <2>9, <2>10, ReaderMove
<1>8. CASE k \notin DOMAIN recent
  <2> DEFINE n == [x EXCEPT !.in = "cache"]
  <2>1. rd' = [rd EXCEPT ![r] = n] BY ZenonT(60), <1>8 DEF LookupRecent
  <2> HIDE DEF x
  <2>2. n \in ReadRecords BY ZenonT(60), <1>2 DEF ReadRecords
  <2>3. /\ n.pc = x.pc /\ n.file = x.file /\ n.first = x.first /\ n.last = x.last
        /\ n.lo = x.lo /\ n.hi = x.hi /\ n.floor = x.floor /\ n.fetched = x.fetched
        /\ n.stamp = x.stamp /\ n.next = x.next /\ n.left = x.left /\ n.got = x.got
    BY ZenonT(60), <1>2 DEF ReadRecords
  <2> HIDE DEF n
  <2>4. ReadOK(n) BY ZenonT(60), <1>1, <1>2, <2>3, LookupOK
  <2>5. n.pc # "insert" BY ZenonT(60), <1>1, <2>3
  <2> QED BY Zenon, <1>4, <1>5, <1>6, <2>1, <2>2, <2>4, <2>5, ReaderMove
<1> QED BY ZenonT(60), <1>7, <1>8

LEMMA LookupCacheInv ==
    ASSUME CacheConstants, CacheInv, NEW r \in Readers, LookupCache(r)
    PROVE  CacheInv'
<1> DEFINE x == rd[r]
<1> DEFINE b == NextBlock(r)
<1> DEFINE k == <<x.file, b>>
<1> DEFINE new == [c \in {b} |-> cache.entries[k]]
<1> DEFINE g == IF k \in DOMAIN cache.entries THEN With(new, x.got) ELSE x.got
<1> DEFINE n == [x EXCEPT !.left = x.left \ {b}, !.in = "recent", !.got = g]
<1>1. x.pc \in {"fast", "target", "look", "relook"} /\ x.left # {} BY ZenonT(60) DEF LookupCache, Looking
<1>2. x \in ReadRecords /\ ReadOK(x) BY ZenonT(60), <1>1, ReaderRecord
<1>3. x.got \in Versions(Blocks) /\ x.left \subseteq Blocks /\ b \in x.left
  BY ZenonT(60), <1>1, <1>2, NextBlockLeft DEF ReadRecords
<1>4. UNCHANGED Reading /\ flights' = flights /\ gate' = gate /\ cache' = Get(cache, k)
      /\ rd' = [rd EXCEPT ![r] = n]
  BY Zenon DEF LookupCache
<1>5. cache' = [order |-> cache'.order, entries |-> cache.entries] BY ZenonT(60), <1>4, GetKeeps DEF CacheInv
<1>6. \A q \in Readers \ {r} : rd[q].pc = "insert" => gate' = q BY ZenonT(60), <1>4 DEF CacheInv, ReadersInv
<1>7. /\ g \in Versions(Blocks)
      /\ DOMAIN g \subseteq DOMAIN x.got \cup x.left
      /\ \A c \in DOMAIN g :
            \/ c \in DOMAIN x.got /\ g[c] = x.got[c]
            \/ g[c] \in Nat /\ settled[<<x.file, c>>] <= g[c]
  <2>1. CASE k \in DOMAIN cache.entries
    <3>1. cache.entries[k] \in Nat /\ settled[k] <= cache.entries[k] BY ZenonT(60), <2>1, CacheHit
    <3>2. new \in Versions(Blocks) BY ZenonT(60), <1>3, <3>1, VersionsFacts
    <3>3. g \in Versions(Blocks) BY ZenonT(60), <2>1, <1>3, <3>2, WithVersions
    <3>4. /\ DOMAIN g = {b} \cup DOMAIN x.got /\ g[b] = cache.entries[k]
          /\ \A c \in (DOMAIN x.got) \ {b} : g[c] = x.got[c]
      BY ZenonT(60), <2>1 DEF With
    <3> HIDE DEF g, x, b, new
    <3> QED BY ZenonT(60), <1>3, <3>1, <3>3, <3>4
  <2>2. CASE k \notin DOMAIN cache.entries BY ZenonT(60), <1>3, <2>2
  <2> QED BY Zenon, <2>1, <2>2
<1> HIDE DEF x, g, new, b
<1>8. n \in ReadRecords BY ZenonT(60), <1>2, <1>3, <1>7 DEF ReadRecords
<1>9. /\ n.pc = x.pc /\ n.file = x.file /\ n.first = x.first /\ n.last = x.last
      /\ n.lo = x.lo /\ n.hi = x.hi /\ n.floor = x.floor /\ n.fetched = x.fetched
      /\ n.stamp = x.stamp /\ n.next = x.next /\ n.left = x.left \ {b} /\ n.got = g
  BY ZenonT(60), <1>2 DEF ReadRecords
<1> HIDE DEF n
<1>10. n.left \subseteq x.left BY ZenonT(60), <1>9
<1>11. ReadOK(n) BY ZenonT(60), <1>1, <1>2, <1>7, <1>9, <1>10, LookupOK
<1>12. n.pc # "insert" BY ZenonT(60), <1>1, <1>9
<1> QED BY Zenon, <1>4, <1>5, <1>6, <1>8, <1>11, <1>12, ReaderMove

-----------------------------------------------------------------------------
\* The end of a round.
LEMMA LeaveFields ==
    ASSUME NEW r \in Readers, rd[r] \in ReadRecords, NEW to \in NextPcs
    PROVE  /\ Leave(r, to) \in ReadRecords
           /\ Leave(r, to).pc = IF rd[r].own THEN "finish" ELSE to
           /\ Leave(r, to).next = IF rd[r].own THEN to ELSE rd[r].next
           /\ Leave(r, to).file = rd[r].file /\ Leave(r, to).first = rd[r].first
           /\ Leave(r, to).last = rd[r].last /\ Leave(r, to).lo = rd[r].lo /\ Leave(r, to).hi = rd[r].hi
           /\ Leave(r, to).got = Nothing /\ Leave(r, to).fetched = Nothing
           /\ Leave(r, to).stamp = <<>> /\ Leave(r, to).floor = rd[r].floor
<1> DEFINE x == rd[r]
<1> DEFINE round == [x EXCEPT !.got = Nothing, !.fetched = Nothing, !.want = {},
                              !.left = {}, !.stamp = <<>>, !.lim = 0]
<1>1. Leave(r, to) = IF x.own THEN [round EXCEPT !.pc = "finish", !.next = to]
                              ELSE [round EXCEPT !.pc = to]
  BY ZenonT(60) DEF Leave
<1>2. x \in ReadRecords OBVIOUS
<1> HIDE DEF x
<1>3. Nothing \in Versions(Blocks) /\ Nothing \in Fetches(Blocks) BY ZenonT(60), NothingFacts
<1>4. round \in ReadRecords BY ZenonT(60), <1>2, <1>3 DEF ReadRecords
<1>5. /\ round.own = x.own /\ round.next = x.next /\ round.file = x.file /\ round.first = x.first
      /\ round.last = x.last /\ round.lo = x.lo /\ round.hi = x.hi /\ round.got = Nothing
      /\ round.fetched = Nothing /\ round.stamp = <<>> /\ round.floor = x.floor
  BY ZenonT(60), <1>2 DEF ReadRecords
<1> HIDE DEF round
<1> DEFINE a == [round EXCEPT !.pc = "finish", !.next = to]
<1> DEFINE z == [round EXCEPT !.pc = to]
<1>6. a \in ReadRecords /\ z \in ReadRecords
  <2>1. "finish" \in ReadPcs /\ to \in ReadPcs BY ZenonT(60) DEF ReadPcs, NextPcs
  <2>2. a \in ReadRecords BY ZenonT(60), <1>4, <2>1 DEF ReadRecords
  <2>3. z \in ReadRecords BY ZenonT(60), <1>4, <2>1 DEF ReadRecords
  <2> QED BY ZenonT(60), <2>2, <2>3
<1>7. /\ a.pc = "finish" /\ a.next = to /\ a.file = round.file /\ a.first = round.first
      /\ a.last = round.last /\ a.lo = round.lo /\ a.hi = round.hi /\ a.got = round.got
      /\ a.fetched = round.fetched /\ a.stamp = round.stamp /\ a.floor = round.floor
  BY ZenonT(60), <1>4 DEF ReadRecords
<1>8. /\ z.pc = to /\ z.next = round.next /\ z.file = round.file /\ z.first = round.first
      /\ z.last = round.last /\ z.lo = round.lo /\ z.hi = round.hi /\ z.got = round.got
      /\ z.fetched = round.fetched /\ z.stamp = round.stamp /\ z.floor = round.floor
  BY ZenonT(60), <1>4 DEF ReadRecords
<1> HIDE DEF a, z
<1>9. Leave(r, to) = IF x.own THEN a ELSE z BY ZenonT(60), <1>1 DEF a, z
<1>10. CASE x.own BY ZenonT(60), <1>5, <1>6, <1>7, <1>9, <1>10 DEF x
<1>11. CASE ~x.own BY ZenonT(60), <1>5, <1>6, <1>8, <1>9, <1>11 DEF x
<1> QED BY ZenonT(60), <1>10, <1>11

\* Out of a round a read has nothing in hand and still owes its reply.
LEMMA OutOK ==
    ASSUME CacheConstants, CacheInv, NEW x \in ReadRecords, ReadOK(x), ~Replied(x), NEW n,
           n.file = x.file /\ n.first = x.first /\ n.last = x.last /\ n.floor = x.floor,
           n.lo <= n.first /\ n.last <= n.hi,
           DOMAIN n.got = {} /\ DOMAIN n.fetched = {},
           n.stamp # <<>> => n.stamp[1] <= epoch[n.file] /\ n.stamp[2] <= cacheEpoch,
           n.pc \notin {"fetch", "publish", "insert"},
           n.pc = "target" => n.first = n.last /\ n.left \subseteq {n.first},
           ~Replied(n)
    PROVE  ReadOK(n)
<1>1. RangeOK(x) /\ FloorOK(x) BY ZenonT(60) DEF ReadOK
<1>2. RangeOK(n) BY ZenonT(60), <1>1 DEF RangeOK
<1>3. StampOK(n) BY ZenonT(60) DEF StampOK
<1>4. InsertOK(n) BY ZenonT(60) DEF InsertOK
<1>5. FloorOK(n) BY ZenonT(60), <1>1 DEF FloorOK
<1> QED BY ZenonT(60), <1>2, <1>3, <1>4, <1>5 DEF ReadOK

LEMMA LeaveOK ==
    ASSUME CacheConstants, CacheInv, NEW r \in Readers, rd[r] \in ReadRecords, ReadOK(rd[r]),
           ~Replied(rd[r]), NEW to \in {"top", "failed", "waiting"}
    PROVE  /\ Leave(r, to) \in ReadRecords /\ ReadOK(Leave(r, to))
           /\ Leave(r, to).pc \in {"finish", "top", "failed", "waiting"}
<1> DEFINE n == Leave(r, to)
<1>1. to \in NextPcs BY ZenonT(60) DEF NextPcs
<1>2. /\ n \in ReadRecords
      /\ n.pc = IF rd[r].own THEN "finish" ELSE to
      /\ n.next = IF rd[r].own THEN to ELSE rd[r].next
      /\ n.file = rd[r].file /\ n.first = rd[r].first
      /\ n.last = rd[r].last /\ n.lo = rd[r].lo /\ n.hi = rd[r].hi
      /\ n.got = Nothing /\ n.fetched = Nothing
      /\ n.stamp = <<>> /\ n.floor = rd[r].floor
  BY ZenonT(60), <1>1, LeaveFields
<1> HIDE DEF n
<1>3. n.pc \in {"finish", "top", "failed", "waiting"} BY ZenonT(60), <1>2
<1>4. ~Replied(n) BY ZenonT(60), <1>2 DEF Replied
<1>5. n.lo <= n.first /\ n.last <= n.hi BY ZenonT(60), <1>2 DEF ReadOK, RangeOK
<1>6. DOMAIN n.got = {} /\ DOMAIN n.fetched = {} BY ZenonT(60), <1>2, NothingFacts
<1>7. ReadOK(n) BY ZenonT(60), <1>2, <1>3, <1>4, <1>5, <1>6, OutOK
<1> QED BY ZenonT(60), <1>2, <1>3, <1>7 DEF n

\* A reply for which every block is in hand is new enough.
LEMMA ReplyOK ==
    ASSUME CacheConstants, CacheInv, NEW r \in Readers, rd[r] \in ReadRecords, ReadOK(rd[r]),
           ~Replied(rd[r]),
           \A b \in rd[r].first..rd[r].last : b \in DOMAIN rd[r].got \/ b \in DOMAIN rd[r].fetched
    PROVE  /\ Reply(r) \in ReadRecords /\ ReadOK(Reply(r))
           /\ Reply(r).pc \in {"finish", "answered"}
<1> DEFINE x == rd[r]
<1> DEFINE l == Leave(r, "answered")
<1> DEFINE f == [b \in DOMAIN x.floor |-> <<x.floor[b], Answer(r)[b]>>]
<1> DEFINE n == [l EXCEPT !.floor = f]
<1>1. Reply(r) = n BY ZenonT(60) DEF Reply
<1>2. "answered" \in NextPcs BY ZenonT(60) DEF NextPcs
<1>3. /\ l \in ReadRecords
      /\ l.pc = IF x.own THEN "finish" ELSE "answered"
      /\ l.next = IF x.own THEN "answered" ELSE x.next
      /\ l.file = x.file /\ l.first = x.first
      /\ l.last = x.last /\ l.lo = x.lo /\ l.hi = x.hi
      /\ l.got = Nothing /\ l.fetched = Nothing
      /\ l.stamp = <<>> /\ l.floor = x.floor
  BY ZenonT(60), <1>2, LeaveFields
<1>4. x.floor \in [x.first..x.last -> Nat] BY ZenonT(60) DEF ReadOK, FloorOK
<1>5. ASSUME NEW b \in x.first..x.last
      PROVE  Answer(r)[b] \in Nat /\ x.floor[b] <= Answer(r)[b]
  <2>1. /\ b \in DOMAIN x.got => x.floor[b] <= x.got[b]
        /\ b \in DOMAIN x.fetched => x.floor[b] <= x.fetched[b].v
    BY Zenon DEF ReadOK, FloorOK
  <2>2. /\ b \in DOMAIN x.got => x.got[b] \in Nat
        /\ b \in DOMAIN x.fetched => x.fetched[b].v \in Nat
    BY ZenonT(60), ReadFacts
  <2>3. \/ b \in DOMAIN x.got /\ Answer(r)[b] = x.got[b]
        \/ b \in DOMAIN x.fetched /\ Answer(r)[b] = x.fetched[b].v
    BY ZenonT(60) DEF Answer
  <2> QED BY ZenonT(60), <2>1, <2>2, <2>3
<1>6. /\ DOMAIN f = x.first..x.last
      /\ \A b \in x.first..x.last : f[b] \in Nat \X Nat /\ f[b][1] <= f[b][2]
  BY Zenon, <1>4, <1>5
<1>7. f \in Floors(Blocks)
  <2>1. x.first..x.last \subseteq Blocks BY ZenonT(60), ReadFacts
  <2>2. f \in [DOMAIN f -> Nat \cup (Nat \X Nat)] BY ZenonT(60), <1>6
  <2> HIDE DEF f
  <2> QED BY ZenonT(60), <1>6, <2>1, <2>2, FloorsFacts
<1>8. x.lo <= x.first /\ x.first <= x.last /\ x.last <= x.hi BY ZenonT(60) DEF ReadOK, RangeOK
<1> HIDE DEF x, l, f
<1>9. n \in ReadRecords BY <1>3, <1>7 DEF ReadRecords
<1>10. /\ n.pc = l.pc /\ n.next = l.next /\ n.file = l.file /\ n.first = l.first /\ n.last = l.last
       /\ n.lo = l.lo /\ n.hi = l.hi /\ n.got = l.got /\ n.fetched = l.fetched /\ n.stamp = l.stamp
       /\ n.floor = f
  BY ZenonT(60), <1>3 DEF ReadRecords
<1> HIDE DEF n
<1>11. n.pc \in {"finish", "answered"} /\ Replied(n) BY ZenonT(60), <1>3, <1>10 DEF Replied
<1>12. RangeOK(n) BY ZenonT(60), <1>3, <1>8, <1>10, <1>11 DEF RangeOK
<1>13. FloorOK(n) BY ZenonT(60), <1>6, <1>10, <1>11 DEF FloorOK
<1>14. StampOK(n)
  <2>1. n.stamp = <<>> /\ DOMAIN n.fetched = {} BY ZenonT(60), <1>3, <1>10, NothingFacts
  <2> QED BY ZenonT(60), <2>1 DEF StampOK
<1>15. InsertOK(n) BY ZenonT(60), <1>11 DEF InsertOK
<1> QED BY ZenonT(60), <1>1, <1>9, <1>11, <1>12, <1>13, <1>14, <1>15 DEF ReadOK

-----------------------------------------------------------------------------
\* A round of a read.
LEMMA OthersKeepGate ==
    ASSUME CacheInv, NEW r \in Readers, gate' = gate \/ gate = Nobody, CacheConstants
    PROVE  \A q \in Readers \ {r} : rd[q].pc = "insert" => gate' = q
BY ZenonT(60) DEF CacheInv, ReadersInv, CacheConstants

LEMMA FastMissInv ==
    ASSUME CacheConstants, CacheInv, NEW r \in Readers, FastMiss(r)
    PROVE  CacheInv'
<1> DEFINE x == rd[r]
<1>1. x.pc = "fast" BY Zenon DEF FastMiss
<1>2. x \in ReadRecords /\ ReadOK(x) BY ZenonT(60), <1>1, ReaderRecord
<1>3. ~Replied(x) BY ZenonT(60), <1>1 DEF Replied
<1>4. UNCHANGED Reading /\ flights' = flights /\ gate' = gate /\ cache' = cache BY Zenon DEF FastMiss
<1>5. cache' = [order |-> cache'.order, entries |-> cache.entries] BY ZenonT(60), <1>4 DEF CacheInv, CacheTypes
<1>6. \A q \in Readers \ {r} : rd[q].pc = "insert" => gate' = q BY ZenonT(60), <1>4, OthersKeepGate
<1>7. CASE Missing(r) = {}
  <2>1. rd' = [rd EXCEPT ![r] = Reply(r)] BY ZenonT(60), <1>7 DEF FastMiss
  <2>2. \A b \in x.first..x.last : b \in DOMAIN x.got
    BY ZenonT(60), <1>2, <1>7, ReadFacts DEF Missing
  <2>3. Reply(r) \in ReadRecords /\ ReadOK(Reply(r)) /\ Reply(r).pc \in {"finish", "answered"}
    BY ZenonT(60), <1>2, <1>3, <2>2, ReplyOK
  <2> QED BY ZenonT(60), <1>4, <1>5, <1>6, <2>1, <2>3, ReaderMove
<1>8. CASE Missing(r) # {}
  <2> DEFINE l == Leave(r, "top")
  <2>1. PICK w \in FetchBounds(x.first, x.last) : rd' = [rd EXCEPT ![r] = [l EXCEPT !.lo = w[1], !.hi = w[2]]]
    BY Zenon, <1>8 DEF FastMiss
  <2>2. w[1] \in Blocks /\ w[2] \in Blocks /\ w[1] <= x.first /\ x.last <= w[2]
    <3>1. x.first \in Blocks /\ x.last \in Blocks BY ZenonT(60), <1>2 DEF ReadRecords
    <3>2. Blocks = 0..LastBlock /\ LastBlock \in Nat BY ZenonT(60), SetupFacts DEF CacheInv, CacheTypes
    <3> QED BY SMTT(60), <3>1, <3>2 DEF FetchBounds
  <2> DEFINE n == [l EXCEPT !.lo = w[1], !.hi = w[2]]
  <2>3. "top" \in NextPcs BY ZenonT(60) DEF NextPcs
  <2>4. /\ l \in ReadRecords
        /\ l.pc = IF x.own THEN "finish" ELSE "top"
        /\ l.next = IF x.own THEN "top" ELSE x.next
        /\ l.file = x.file /\ l.first = x.first /\ l.last = x.last
        /\ l.got = Nothing /\ l.fetched = Nothing
        /\ l.stamp = <<>> /\ l.floor = x.floor
    BY ZenonT(60), <1>2, <2>3, LeaveFields
  <2> HIDE DEF x, l
  <2>5. n \in ReadRecords BY ZenonT(60), <2>2, <2>4 DEF ReadRecords
  <2>6. /\ n.pc = l.pc /\ n.next = l.next /\ n.file = l.file /\ n.first = l.first /\ n.last = l.last
        /\ n.lo = w[1] /\ n.hi = w[2] /\ n.got = l.got /\ n.fetched = l.fetched /\ n.stamp = l.stamp
        /\ n.floor = l.floor
    BY ZenonT(60), <2>4 DEF ReadRecords
  <2>7. rd' = [rd EXCEPT ![r] = n] BY ZenonT(60), <2>1
  <2> HIDE DEF n
  <2>8. n.pc \in {"finish", "top"} /\ ~Replied(n) BY ZenonT(60), <2>4, <2>6 DEF Replied
  <2>9. DOMAIN n.got = {} /\ DOMAIN n.fetched = {} BY ZenonT(60), <2>4, <2>6, NothingFacts
  <2>10. ReadOK(n) BY ZenonT(60), <1>2, <1>3, <2>2, <2>4, <2>6, <2>8, <2>9, OutOK
  <2> QED BY ZenonT(60), <1>4, <1>5, <1>6, <2>5, <2>7, <2>8, <2>10, ReaderMove
<1> QED BY ZenonT(60), <1>7, <1>8

LEMMA TakeStampInv ==
    ASSUME CacheConstants, CacheInv, NEW r \in Readers, TakeStamp(r)
    PROVE  CacheInv'
<1> DEFINE x == rd[r]
<1>1. x.pc \in {"top", "owned"} BY ZenonT(60) DEF TakeStamp
<1>2. x \in ReadRecords /\ ReadOK(x) BY ZenonT(60), <1>1, ReaderRecord
<1>3. ~Replied(x) BY ZenonT(60), <1>1 DEF Replied
<1>4. UNCHANGED Reading /\ flights' = flights /\ gate' = gate /\ cache' = cache BY ZenonT(60) DEF TakeStamp
<1>5. cache' = [order |-> cache'.order, entries |-> cache.entries] BY ZenonT(60), <1>4 DEF CacheInv, CacheTypes
<1>6. \A q \in Readers \ {r} : rd[q].pc = "insert" => gate' = q BY ZenonT(60), <1>4, OthersKeepGate
<1>7. PICK pc \in {"target", "look", "relook"} :
        /\ pc = "target" => x.first = x.last
        /\ rd' = [rd EXCEPT ![r].pc = pc, ![r].stamp = Stamp(x.file),
                            ![r].left = IF pc = "target" THEN {x.first} ELSE x.lo..x.hi,
                            ![r].in = "recent", ![r].got = Nothing, ![r].fetched = Nothing]
  <2> DEFINE pc == CASE rd[r].pc = "owned" -> "relook"
                     [] rd[r].pc = "top" /\ setup.direct /\ rd[r].first = rd[r].last -> "target"
                     [] OTHER -> "look"
  <2>1. pc \in {"target", "look", "relook"} /\ (pc = "target" => x.first = x.last) OBVIOUS
  <2> QED BY ZenonT(60), <2>1 DEF TakeStamp
<1> DEFINE left == IF pc = "target" THEN {x.first} ELSE x.lo..x.hi
<1> DEFINE n == [x EXCEPT !.pc = pc, !.stamp = Stamp(x.file), !.left = left, !.in = "recent",
                          !.got = Nothing, !.fetched = Nothing]
<1>8. rd' = [rd EXCEPT ![r] = n] BY ZenonT(60), <1>7
<1>9. left \in SUBSET Blocks
  <2>1. x.lo..x.hi \subseteq Blocks BY ZenonT(60), <1>2, ReadFacts
  <2>2. x.first \in Blocks BY ZenonT(60), <1>2 DEF ReadRecords
  <2> QED BY ZenonT(60), <2>1, <2>2
<1>10. Stamp(x.file) \in Nat \X Nat /\ Stamp(x.file)[1] = epoch[x.file] /\ Stamp(x.file)[2] = cacheEpoch
       /\ epoch[x.file] \in Nat /\ cacheEpoch \in Nat
  <2>1. x.file \in Files BY ZenonT(60), <1>2 DEF ReadRecords
  <2> QED BY ZenonT(60), <2>1 DEF Stamp, CacheInv, CacheTypes
<1>11. Nothing \in Versions(Blocks) /\ Nothing \in Fetches(Blocks) /\ DOMAIN Nothing = {} BY ZenonT(60), NothingFacts
<1>12. pc \in ReadPcs BY ZenonT(60) DEF ReadPcs
<1>13. pc = "target" => left = {x.first} OBVIOUS
<1>14. PICK st : st = Stamp(x.file) OBVIOUS
<1> HIDE DEF x, left
<1>15. n \in ReadRecords BY ZenonT(60), <1>2, <1>9, <1>10, <1>11, <1>12 DEF ReadRecords
<1>16. /\ n.pc = pc /\ n.file = x.file /\ n.first = x.first /\ n.last = x.last
       /\ n.lo = x.lo /\ n.hi = x.hi /\ n.floor = x.floor /\ n.fetched = Nothing
       /\ n.stamp = Stamp(x.file) /\ n.next = x.next /\ n.left = left /\ n.got = Nothing
  BY ZenonT(60), <1>2 DEF ReadRecords
<1> HIDE DEF n
<1>17. n.lo <= n.first /\ n.last <= n.hi BY ZenonT(60), <1>2, <1>16 DEF ReadOK, RangeOK
<1>18. n.pc \notin {"idle", "insert"} /\ ~Replied(n) BY ZenonT(60), <1>16 DEF Replied
<1>19. n.stamp[1] <= epoch[n.file] /\ n.stamp[2] <= cacheEpoch BY <1>10, <1>16
<1>20. n.pc = "target" => n.first = n.last /\ n.left \subseteq {n.first} BY ZenonT(60), <1>7, <1>13, <1>16
<1>21. ReadOK(n) BY ZenonT(60), <1>2, <1>3, <1>11, <1>16, <1>17, <1>18, <1>19, <1>20, OutOK
<1> QED BY ZenonT(60), <1>4, <1>5, <1>6, <1>8, <1>15, <1>18, <1>21, ReaderMove

\* A step that keeps what a read has in hand.
LEMMA KeepOK ==
    ASSUME NEW x, ReadOK(x), NEW n,
           /\ n.file = x.file /\ n.first = x.first /\ n.last = x.last /\ n.lo = x.lo /\ n.hi = x.hi
           /\ n.floor = x.floor /\ n.got = x.got /\ n.fetched = x.fetched /\ n.stamp = x.stamp,
           Replied(n) <=> Replied(x), RangeOK(n), InsertOK(n)
    PROVE  ReadOK(n)
<1>1. FloorOK(n) BY ZenonT(60) DEF ReadOK, FloorOK
<1>2. StampOK(n) BY Zenon DEF ReadOK, StampOK
<1> QED BY ZenonT(60), <1>1, <1>2 DEF ReadOK

LEMMA TargetLookedInv ==
    ASSUME CacheConstants, CacheInv, NEW r \in Readers, TargetLooked(r)
    PROVE  CacheInv'
<1> DEFINE x == rd[r]
<1>1. x.pc = "target" BY ZenonT(60) DEF TargetLooked
<1>2. x \in ReadRecords /\ ReadOK(x) BY ZenonT(60), <1>1, ReaderRecord
<1>3. ~Replied(x) BY ZenonT(60), <1>1 DEF Replied
<1>4. UNCHANGED Reading /\ flights' = flights /\ gate' = gate /\ cache' = cache BY ZenonT(60) DEF TargetLooked
<1>5. cache' = [order |-> cache'.order, entries |-> cache.entries] BY ZenonT(60), <1>4 DEF CacheInv, CacheTypes
<1>6. \A q \in Readers \ {r} : rd[q].pc = "insert" => gate' = q BY ZenonT(60), <1>4, OthersKeepGate
<1>7. \/ rd' = [rd EXCEPT ![r] = [x EXCEPT !.pc = "look", !.left = x.lo..x.hi]]
      \/ DOMAIN x.got # {} /\ rd' = [rd EXCEPT ![r] = Reply(r)]
      \/ rd' = [rd EXCEPT ![r] = Leave(r, "top")]
  BY Zenon DEF TargetLooked
<1>8. CASE rd' = [rd EXCEPT ![r] = [x EXCEPT !.pc = "look", !.left = x.lo..x.hi]]
  <2> DEFINE n == [x EXCEPT !.pc = "look", !.left = x.lo..x.hi]
  <2>1. rd' = [rd EXCEPT ![r] = n] BY ZenonT(60), <1>8
  <2>2. x.lo..x.hi \subseteq Blocks BY ZenonT(60), <1>2, ReadFacts
  <2>3. "look" \in ReadPcs BY ZenonT(60) DEF ReadPcs
  <2> HIDE DEF x
  <2>4. n \in ReadRecords BY ZenonT(60), <1>2, <2>2, <2>3 DEF ReadRecords
  <2>5. /\ n.pc = "look" /\ n.file = x.file /\ n.first = x.first /\ n.last = x.last /\ n.lo = x.lo
        /\ n.hi = x.hi /\ n.floor = x.floor /\ n.got = x.got /\ n.fetched = x.fetched /\ n.stamp = x.stamp
    BY ZenonT(60), <1>2 DEF ReadRecords
  <2> HIDE DEF n
  <2>6. ~Replied(n) /\ InsertOK(n) BY ZenonT(60), <2>5 DEF Replied, InsertOK
  <2>7. RangeOK(n) BY ZenonT(60), <1>2, <2>5 DEF ReadOK, RangeOK
  <2>8. ReadOK(n) BY ZenonT(60), <1>2, <1>3, <2>5, <2>6, <2>7, KeepOK
  <2> QED BY ZenonT(60), <1>4, <1>5, <1>6, <2>1, <2>4, <2>5, <2>8, ReaderMove
<1>9. CASE DOMAIN x.got # {} /\ rd' = [rd EXCEPT ![r] = Reply(r)]
  <2>1. x.first = x.last /\ DOMAIN x.got \subseteq {x.first} BY ZenonT(60), <1>1, <1>2 DEF ReadOK, RangeOK
  <2>2. x.first \in Nat BY ZenonT(60), <1>2, ReadFacts
  <2>3. \A b \in x.first..x.last : b \in DOMAIN x.got BY <1>9, <2>1, <2>2
  <2>4. Reply(r) \in ReadRecords /\ ReadOK(Reply(r)) /\ Reply(r).pc \in {"finish", "answered"}
    BY ZenonT(60), <1>2, <1>3, <2>3, ReplyOK
  <2> QED BY Zenon, <1>4, <1>5, <1>6, <1>9, <2>4, ReaderMove
<1>10. CASE rd' = [rd EXCEPT ![r] = Leave(r, "top")]
  <2>1. /\ Leave(r, "top") \in ReadRecords /\ ReadOK(Leave(r, "top"))
        /\ Leave(r, "top").pc \in {"finish", "top", "failed", "waiting"}
    BY ZenonT(60), <1>2, <1>3, LeaveOK
  <2> QED BY Zenon, <1>4, <1>5, <1>6, <1>10, <2>1, ReaderMove
<1> QED BY ZenonT(60), <1>7, <1>8, <1>9, <1>10

LEMMA LookedInv ==
    ASSUME CacheConstants, CacheInv, NEW r \in Readers, Looked(r)
    PROVE  CacheInv'
<1> DEFINE x == rd[r]
<1>1. x.pc \in {"look", "relook"} BY ZenonT(60) DEF Looked
<1>2. x \in ReadRecords /\ ReadOK(x) BY ZenonT(60), <1>1, ReaderRecord
<1>3. ~Replied(x) BY ZenonT(60), <1>1 DEF Replied
<1>4. UNCHANGED Reading /\ flights' = flights /\ gate' = gate /\ cache' = cache BY ZenonT(60) DEF Looked
<1>5. cache' = [order |-> cache'.order, entries |-> cache.entries] BY ZenonT(60), <1>4 DEF CacheInv, CacheTypes
<1>6. \A q \in Readers \ {r} : rd[q].pc = "insert" => gate' = q BY ZenonT(60), <1>4, OthersKeepGate
<1>7. \/ rd' = [rd EXCEPT ![r] = Leave(r, "top")]
      \/ Missing(r) = {} /\ rd' = [rd EXCEPT ![r] = Reply(r)]
      \/ rd' = [rd EXCEPT ![r].pc = "acquire"]
      \/ \E plan \in FetchPlans(Missing(r)) : rd' = [rd EXCEPT ![r].pc = "fetch", ![r].want = plan]
  BY ZenonT(60) DEF Looked
<1>8. CASE rd' = [rd EXCEPT ![r] = Leave(r, "top")]
  <2>1. /\ Leave(r, "top") \in ReadRecords /\ ReadOK(Leave(r, "top"))
        /\ Leave(r, "top").pc \in {"finish", "top", "failed", "waiting"}
    BY ZenonT(60), <1>2, <1>3, LeaveOK
  <2> QED BY Zenon, <1>4, <1>5, <1>6, <1>8, <2>1, ReaderMove
<1>9. CASE Missing(r) = {} /\ rd' = [rd EXCEPT ![r] = Reply(r)]
  <2>1. \A b \in x.first..x.last : b \in DOMAIN x.got BY ZenonT(60), <1>2, <1>9, ReadFacts DEF Missing
  <2>2. Reply(r) \in ReadRecords /\ ReadOK(Reply(r)) /\ Reply(r).pc \in {"finish", "answered"}
    BY ZenonT(60), <1>2, <1>3, <2>1, ReplyOK
  <2> QED BY Zenon, <1>4, <1>5, <1>6, <1>9, <2>2, ReaderMove
<1>10. CASE rd' = [rd EXCEPT ![r].pc = "acquire"]
  <2> DEFINE n == [x EXCEPT !.pc = "acquire"]
  <2>1. rd' = [rd EXCEPT ![r] = n] BY ZenonT(60), <1>10
  <2>2. "acquire" \in ReadPcs BY ZenonT(60) DEF ReadPcs
  <2> HIDE DEF x
  <2>3. n \in ReadRecords BY ZenonT(60), <1>2, <2>2 DEF ReadRecords
  <2>4. /\ n.pc = "acquire" /\ n.file = x.file /\ n.first = x.first /\ n.last = x.last /\ n.lo = x.lo
        /\ n.hi = x.hi /\ n.floor = x.floor /\ n.got = x.got /\ n.fetched = x.fetched /\ n.stamp = x.stamp
    BY ZenonT(60), <1>2 DEF ReadRecords
  <2> HIDE DEF n
  <2>5. ~Replied(n) /\ InsertOK(n) BY ZenonT(60), <2>4 DEF Replied, InsertOK
  <2>6. RangeOK(n) BY ZenonT(60), <1>2, <2>4 DEF ReadOK, RangeOK
  <2>7. ReadOK(n) BY ZenonT(60), <1>2, <1>3, <2>4, <2>5, <2>6, KeepOK
  <2> QED BY Zenon, <1>4, <1>5, <1>6, <2>1, <2>3, <2>4, <2>7, ReaderMove
<1>11. ASSUME NEW plan \in FetchPlans(Missing(r)), rd' = [rd EXCEPT ![r].pc = "fetch", ![r].want = plan]
       PROVE  CacheInv'
  <2> DEFINE n == [x EXCEPT !.pc = "fetch", !.want = plan]
  <2>1. rd' = [rd EXCEPT ![r] = n] BY ZenonT(60), <1>11
  <2>2. "fetch" \in ReadPcs BY ZenonT(60) DEF ReadPcs
  <2>3. plan \subseteq Blocks /\ Lacks(x) \subseteq plan
    <3>1. Missing(r) = Lacks(x) BY ZenonT(60) DEF Missing, Lacks
    <3>2. Lacks(x) \subseteq Blocks BY ZenonT(60), <1>2, ReadFacts DEF Lacks
    <3>3. Blocks \subseteq Nat BY ZenonT(60), SetupFacts DEF CacheInv, CacheTypes
    <3>4. PICK m : m = Missing(r) OBVIOUS
    <3>5. \A b \in m : b \in Blocks /\ b <= b
      <4>1. m \subseteq Blocks BY ZenonT(60), <3>1, <3>2, <3>4
      <4> QED BY ONLY <3>3, <4>1
    <3>6. plan = m \/ plan = {b \in Blocks : \E c, d \in m : c <= b /\ b <= d} BY ZenonT(60), <3>4 DEF FetchPlans
    <3>7. plan \subseteq Blocks /\ m \subseteq plan BY ONLY ZenonT(60), <3>5, <3>6
    <3> QED BY ZenonT(60), <3>1, <3>4, <3>7
  <2> HIDE DEF x
  <2>4. n \in ReadRecords BY Zenon, <1>2, <2>2, <2>3 DEF ReadRecords
  <2>5. /\ n.pc = "fetch" /\ n.file = x.file /\ n.first = x.first /\ n.last = x.last /\ n.lo = x.lo
        /\ n.hi = x.hi /\ n.floor = x.floor /\ n.got = x.got /\ n.fetched = x.fetched /\ n.stamp = x.stamp
        /\ n.want = plan
    BY ZenonT(60), <1>2 DEF ReadRecords
  <2> HIDE DEF n
  <2>6. ~Replied(n) /\ InsertOK(n) BY ZenonT(60), <2>5 DEF Replied, InsertOK
  <2>7. RangeOK(n)
    <3>1. Lacks(n) \subseteq n.want BY ZenonT(60), <2>3, <2>5 DEF Lacks
    <3> QED BY ZenonT(60), <1>2, <2>5, <3>1 DEF ReadOK, RangeOK
  <2>8. ReadOK(n) BY ZenonT(60), <1>2, <1>3, <2>5, <2>6, <2>7, KeepOK
  <2> QED BY Zenon, <1>4, <1>5, <1>6, <2>1, <2>4, <2>5, <2>8, ReaderMove
<1> QED BY ZenonT(60), <1>7, <1>8, <1>9, <1>10, <1>11

LEMMA AcquireInv ==
    ASSUME CacheConstants, CacheInv, NEW r \in Readers, AcquireFill(r)
    PROVE  CacheInv'
<1> DEFINE x == rd[r]
<1> DEFINE other == {y \in flights : y.file = rd[r].file /\ y.blocks \cap Missing(r) # {}}
<1>1. x.pc = "acquire" BY ZenonT(60) DEF AcquireFill
<1>2. x \in ReadRecords /\ ReadOK(x) BY ZenonT(60), <1>1, ReaderRecord
<1>3. ~Replied(x) BY ZenonT(60), <1>1 DEF Replied
<1>4. UNCHANGED Reading /\ gate' = gate /\ cache' = cache BY ZenonT(60) DEF AcquireFill
<1>5. cache' = [order |-> cache'.order, entries |-> cache.entries] BY ZenonT(60), <1>4 DEF CacheInv, CacheTypes
<1>6. \A q \in Readers \ {r} : rd[q].pc = "insert" => gate' = q BY ZenonT(60), <1>4, OthersKeepGate
<1>7. CASE other = {}
  <2> DEFINE n == [x EXCEPT !.pc = "owned", !.own = TRUE]
  <2> DEFINE y == [owner |-> r, file |-> rd[r].file, blocks |-> Missing(r), done |-> FALSE]
  <2>1. rd' = [rd EXCEPT ![r] = n] /\ flights' = flights \cup {y} BY Zenon, <1>7 DEF AcquireFill
  <2>2. "owned" \in ReadPcs BY ZenonT(60) DEF ReadPcs
  <2>3. flights' \subseteq FlightRecords
    <3>1. rd[r].file \in Files /\ Missing(r) \subseteq Blocks BY ZenonT(60), <1>2, ReadFacts DEF Missing
    <3>2. y \in FlightRecords BY ZenonT(60), <3>1 DEF FlightRecords
    <3> HIDE DEF y
    <3> QED BY ZenonT(60), <2>1, <3>2 DEF CacheInv, CacheTypes
  <2> HIDE DEF x
  <2>4. n \in ReadRecords BY ZenonT(60), <1>2, <2>2 DEF ReadRecords
  <2>5. /\ n.pc = "owned" /\ n.file = x.file /\ n.first = x.first /\ n.last = x.last /\ n.lo = x.lo
        /\ n.hi = x.hi /\ n.floor = x.floor /\ n.got = x.got /\ n.fetched = x.fetched /\ n.stamp = x.stamp
    BY ZenonT(60), <1>2 DEF ReadRecords
  <2> HIDE DEF n
  <2>6. ~Replied(n) /\ InsertOK(n) BY ZenonT(60), <2>5 DEF Replied, InsertOK
  <2>7. RangeOK(n) BY ZenonT(60), <1>2, <2>5 DEF ReadOK, RangeOK
  <2>8. ReadOK(n) BY ZenonT(60), <1>2, <1>3, <2>5, <2>6, <2>7, KeepOK
  <2> QED BY Zenon, <1>4, <1>5, <1>6, <2>1, <2>3, <2>4, <2>5, <2>8, ReaderMove
<1>8. CASE other # {}
  <2>1. PICK y \in other :
           rd' = [rd EXCEPT ![r] = IF y.done THEN Leave(r, "top")
                                   ELSE [Leave(r, "waiting") EXCEPT !.on = y.owner]]
    BY ZenonT(60), <1>8 DEF AcquireFill
  <2>2. flights' = flights BY ZenonT(60), <1>8 DEF AcquireFill
  <2>3. CASE y.done
    <3>1. /\ Leave(r, "top") \in ReadRecords /\ ReadOK(Leave(r, "top"))
          /\ Leave(r, "top").pc \in {"finish", "top", "failed", "waiting"}
      BY ZenonT(60), <1>2, <1>3, LeaveOK
    <3>2. rd' = [rd EXCEPT ![r] = Leave(r, "top")] BY ZenonT(60), <2>1, <2>3
    <3> QED BY Zenon, <1>4, <1>5, <1>6, <2>2, <3>1, <3>2, ReaderMove
  <2>4. CASE ~y.done
    <3> DEFINE l == Leave(r, "waiting")
    <3> DEFINE n == [l EXCEPT !.on = y.owner]
    <3>1. rd' = [rd EXCEPT ![r] = n] BY ZenonT(60), <2>1, <2>4
    <3>2. y.owner \in Readers BY ZenonT(60) DEF CacheInv, CacheTypes, FlightRecords
    <3>3. "waiting" \in NextPcs BY ZenonT(60) DEF NextPcs
    <3>4. /\ l \in ReadRecords
          /\ l.pc = IF x.own THEN "finish" ELSE "waiting"
          /\ l.next = IF x.own THEN "waiting" ELSE x.next
          /\ l.file = x.file /\ l.first = x.first /\ l.last = x.last /\ l.lo = x.lo /\ l.hi = x.hi
          /\ l.got = Nothing /\ l.fetched = Nothing
          /\ l.stamp = <<>> /\ l.floor = x.floor
      BY ZenonT(60), <1>2, <3>3, LeaveFields
    <3>5. x.lo <= x.first /\ x.last <= x.hi BY ZenonT(60), <1>2 DEF ReadOK, RangeOK
    <3> HIDE DEF x, l
    <3>6. n \in ReadRecords BY ZenonT(60), <3>2, <3>4 DEF ReadRecords
    <3>7. /\ n.pc = l.pc /\ n.next = l.next /\ n.file = l.file /\ n.first = l.first /\ n.last = l.last
          /\ n.lo = l.lo /\ n.hi = l.hi /\ n.got = l.got /\ n.fetched = l.fetched /\ n.stamp = l.stamp
          /\ n.floor = l.floor
      BY ZenonT(60), <3>4 DEF ReadRecords
    <3> HIDE DEF n
    <3>8. n.pc \in {"finish", "waiting"} /\ ~Replied(n) BY ZenonT(60), <3>4, <3>7 DEF Replied
    <3>9. DOMAIN n.got = {} /\ DOMAIN n.fetched = {} BY ZenonT(60), <3>4, <3>7, NothingFacts
    <3>10. ReadOK(n) BY ZenonT(60), <1>2, <1>3, <3>4, <3>5, <3>7, <3>8, <3>9, OutOK
    <3> QED BY Zenon, <1>4, <1>5, <1>6, <2>2, <3>1, <3>6, <3>8, <3>10, ReaderMove
  <2> QED BY ZenonT(60), <2>3, <2>4
<1> QED BY ZenonT(60), <1>7, <1>8

LEMMA FetchFailsInv ==
    ASSUME CacheConstants, CacheInv, NEW r \in Readers, FetchFails(r)
    PROVE  CacheInv'
<1>1. rd[r].pc = "fetch" BY ZenonT(60) DEF FetchFails
<1>2. rd[r] \in ReadRecords /\ ReadOK(rd[r]) BY ZenonT(60), <1>1, ReaderRecord
<1>3. ~Replied(rd[r]) BY ZenonT(60), <1>1 DEF Replied
<1>4. UNCHANGED Reading /\ flights' = flights /\ gate' = gate /\ cache' = cache BY ZenonT(60) DEF FetchFails
<1>5. cache' = [order |-> cache'.order, entries |-> cache.entries] BY ZenonT(60), <1>4 DEF CacheInv, CacheTypes
<1>6. \A q \in Readers \ {r} : rd[q].pc = "insert" => gate' = q BY ZenonT(60), <1>4, OthersKeepGate
<1>7. /\ Leave(r, "failed") \in ReadRecords /\ ReadOK(Leave(r, "failed"))
      /\ Leave(r, "failed").pc \in {"finish", "top", "failed", "waiting"}
  BY ZenonT(60), <1>2, <1>3, LeaveOK
<1>8. rd' = [rd EXCEPT ![r] = Leave(r, "failed")] BY ZenonT(60) DEF FetchFails
<1> QED BY ZenonT(60), <1>4, <1>5, <1>6, <1>7, <1>8, ReaderMove

\* Rows are fetched after every answered change and after every commit.
LEMMA FetchBlockRangeInv ==
    ASSUME CacheConstants, CacheInv, NEW r \in Readers, FetchBlockRange(r)
    PROVE  CacheInv'
<1> DEFINE x == rd[r]
<1>1. x.pc = "fetch" BY Zenon DEF FetchBlockRange
<1>2. x \in ReadRecords /\ ReadOK(x) BY ZenonT(60), <1>1, ReaderRecord
<1>3. ~Replied(x) BY ZenonT(60), <1>1 DEF Replied
<1>4. UNCHANGED Reading /\ flights' = flights /\ gate' = gate /\ cache' = cache BY ZenonT(60) DEF FetchBlockRange
<1>5. cache' = [order |-> cache'.order, entries |-> cache.entries] BY ZenonT(60), <1>4 DEF CacheInv, CacheTypes
<1>6. \A q \in Readers \ {r} : rd[q].pc = "insert" => gate' = q BY ZenonT(60), <1>4, OthersKeepGate
<1>7. PICK lo \in x.want, hi \in x.want :
        /\ lo..hi \subseteq x.want
        /\ rd' = [rd EXCEPT ![r].want = x.want \ (lo..hi),
                            ![r].fetched = With([b \in lo..hi |-> db[<<x.file, b>>]], x.fetched),
                            ![r].pc = IF x.want = lo..hi THEN "publish" ELSE x.pc]
  BY ZenonT(60) DEF FetchBlockRange
<1> DEFINE bs == lo..hi
<1> DEFINE new == [b \in bs |-> db[<<x.file, b>>]]
<1> DEFINE g == With(new, x.fetched)
<1> DEFINE pc == IF x.want = bs THEN "publish" ELSE "fetch"
<1> DEFINE n == [x EXCEPT !.want = x.want \ bs, !.fetched = g, !.pc = pc]
<1>8. rd' = [rd EXCEPT ![r] = n] BY ZenonT(60), <1>1, <1>7
<1>9. x.want \subseteq Blocks /\ bs \subseteq x.want /\ x.file \in Files BY ZenonT(60), <1>2, <1>7 DEF ReadRecords
<1>10. DOMAIN x.fetched \subseteq Blocks /\ x.fetched \in [DOMAIN x.fetched -> Rows] BY ZenonT(60), <1>2, ReadFacts
<1>11. /\ DOMAIN g = bs \cup DOMAIN x.fetched
       /\ \A b \in bs : g[b] = db[<<x.file, b>>]
       /\ \A b \in (DOMAIN x.fetched) \ bs : g[b] = x.fetched[b]
       /\ g = [b \in bs \cup DOMAIN x.fetched |-> g[b]]
  BY ZenonT(60) DEF With
<1>12. ASSUME NEW b \in bs
       PROVE  /\ b \in Blocks /\ db[<<x.file, b>>] \in Rows /\ db[<<x.file, b>>].v \in Nat
              /\ acked[<<x.file, b>>] \in Nat /\ acked[<<x.file, b>>] <= db[<<x.file, b>>].v
              /\ settled[<<x.file, b>>] \in Nat /\ settled[<<x.file, b>>] <= acked[<<x.file, b>>]
              /\ NotBehind(x.file, b, db[<<x.file, b>>].v)
  <2>1. b \in Blocks /\ <<x.file, b>> \in Keys BY ZenonT(60), <1>9 DEF Keys
  <2>2. db[<<x.file, b>>] \in Rows /\ acked[<<x.file, b>>] \in Nat /\ settled[<<x.file, b>>] \in Nat
    BY ZenonT(60), <2>1 DEF CacheInv, CacheTypes
  <2>3. db[<<x.file, b>>].v \in Nat BY ZenonT(60), <2>2 DEF Rows
  <2>4. acked[<<x.file, b>>] <= db[<<x.file, b>>].v /\ settled[<<x.file, b>>] <= acked[<<x.file, b>>]
    BY ZenonT(60), <2>1 DEF CacheInv, ChangeInv
  <2>5. NotBehind(x.file, b, db[<<x.file, b>>].v)
    BY ZenonT(60) DEF NotBehind, HalfDropped, CacheInv, ChangeInv, ChangeOK
  <2> QED BY ZenonT(60), <2>1, <2>2, <2>3, <2>4, <2>5
<1> HIDE DEF x, bs, new, g
<1>13. g \in Fetches(Blocks)
  <2>1. \A b \in bs \cup DOMAIN x.fetched : g[b] \in Rows BY Zenon, <1>10, <1>11, <1>12
  <2>2. g \in [DOMAIN g -> Rows] BY ZenonT(60), <1>11, <2>1
  <2>3. DOMAIN g \subseteq Blocks BY ZenonT(60), <1>9, <1>10, <1>11
  <2> QED BY ZenonT(60), <2>2, <2>3, FetchesFacts
<1>14. pc \in ReadPcs /\ pc \in {"publish", "fetch"} /\ (pc = "publish" => x.want = bs) BY ZenonT(60) DEF ReadPcs
<1> HIDE DEF pc
<1>15. n \in ReadRecords BY ZenonT(60), <1>2, <1>9, <1>13, <1>14 DEF ReadRecords
<1>16. /\ n.pc = pc /\ n.file = x.file /\ n.first = x.first /\ n.last = x.last /\ n.lo = x.lo
       /\ n.hi = x.hi /\ n.floor = x.floor /\ n.got = x.got /\ n.fetched = g /\ n.stamp = x.stamp
       /\ n.want = x.want \ bs
  BY ZenonT(60), <1>2 DEF ReadRecords
<1> HIDE DEF n
<1>17. ~Replied(n) /\ InsertOK(n) BY ZenonT(60), <1>14, <1>16 DEF Replied, InsertOK
<1>18. RangeOK(n)
  <2>1. Lacks(n) = Lacks(x) BY ZenonT(60), <1>16 DEF Lacks
  <2>2. Lacks(x) \subseteq x.want \cup DOMAIN x.fetched BY ZenonT(60), <1>1, <1>2 DEF ReadOK, RangeOK
  <2>3. Lacks(n) \subseteq n.want \cup DOMAIN n.fetched BY ZenonT(60), <2>1, <2>2, <1>11, <1>16
  <2>4. n.pc = "publish" => Lacks(n) \subseteq DOMAIN n.fetched BY ZenonT(60), <2>3, <1>14, <1>16
  <2>5. x.lo <= x.first /\ x.first <= x.last /\ x.last <= x.hi BY ZenonT(60), <1>2 DEF ReadOK, RangeOK
  <2> QED BY ZenonT(60), <2>3, <2>4, <2>5, <1>14, <1>16 DEF RangeOK
<1>19. FloorOK(n)
  <2>1. x.floor \in [x.first..x.last -> Nat] BY ZenonT(60), <1>2, <1>3 DEF ReadOK, FloorOK
  <2>2. ASSUME NEW b \in n.first..n.last
        PROVE  /\ n.floor[b] <= settled[<<n.file, b>>]
               /\ b \in DOMAIN n.got => n.floor[b] <= n.got[b]
               /\ b \in DOMAIN n.fetched => n.floor[b] <= n.fetched[b].v
    <3>1. b \in x.first..x.last BY ZenonT(60), <1>16
    <3>2. /\ x.floor[b] <= settled[<<x.file, b>>]
          /\ b \in DOMAIN x.got => x.floor[b] <= x.got[b]
          /\ b \in DOMAIN x.fetched => x.floor[b] <= x.fetched[b].v
      BY ZenonT(60), <1>2, <1>3, <3>1 DEF ReadOK, FloorOK
    <3>3. x.floor[b] \in Nat BY Zenon, <2>1, <3>1
    <3>4. b \in bs => x.floor[b] <= g[b].v BY <1>11, <1>12, <3>2, <3>3
    <3>5. b \in DOMAIN g => x.floor[b] <= g[b].v BY ZenonT(60), <1>11, <3>2, <3>4
    <3> QED BY ZenonT(60), <1>16, <3>2, <3>5
  <2> QED BY ZenonT(60), <1>16, <1>17, <2>1, <2>2 DEF FloorOK
<1>20. StampOK(n)
  <2>1. n.stamp # <<>> => n.stamp[1] <= epoch[n.file] /\ n.stamp[2] <= cacheEpoch
    BY ZenonT(60), <1>2, <1>16 DEF ReadOK, StampOK
  <2>2. ASSUME n.stamp = Stamp(n.file), NEW b \in DOMAIN n.fetched
        PROVE  /\ acked[<<n.file, b>>] <= n.fetched[b].v
               /\ NotBehind(n.file, b, n.fetched[b].v)
    <3>1. CASE b \in bs BY ZenonT(60), <1>11, <1>12, <1>16, <3>1
    <3>2. CASE b \notin bs
      <4>1. b \in DOMAIN x.fetched /\ g[b] = x.fetched[b] BY ZenonT(60), <1>11, <1>16, <3>2
      <4>2. /\ acked[<<x.file, b>>] <= x.fetched[b].v
            /\ NotBehind(x.file, b, x.fetched[b].v)
        BY ZenonT(60), <1>2, <1>16, <2>2, <4>1 DEF ReadOK, StampOK
      <4> QED BY ZenonT(60), <1>16, <4>1, <4>2
    <3> QED BY ZenonT(60), <3>1, <3>2
  <2> QED BY ZenonT(60), <2>1, <2>2 DEF StampOK
<1>21. ReadOK(n) BY ZenonT(60), <1>17, <1>18, <1>19, <1>20 DEF ReadOK
<1> QED BY Zenon, <1>4, <1>5, <1>6, <1>8, <1>14, <1>15, <1>16, <1>21, ReaderMove

LEMMA PublishIfCurrentInv ==
    ASSUME CacheConstants, CacheInv, NEW r \in Readers, PublishIfCurrent(r)
    PROVE  CacheInv'
<1> DEFINE x == rd[r]
<1>1. x.pc = "publish" BY ZenonT(60) DEF PublishIfCurrent
<1>2. x \in ReadRecords /\ ReadOK(x) BY ZenonT(60), <1>1, ReaderRecord
<1>3. ~Replied(x) BY ZenonT(60), <1>1 DEF Replied
<1>4. UNCHANGED Reading /\ flights' = flights /\ gate = Nobody /\ cache' = cache
  BY ZenonT(60) DEF PublishIfCurrent, GateFree
<1>5. cache' = [order |-> cache'.order, entries |-> cache.entries] BY ZenonT(60), <1>4 DEF CacheInv, CacheTypes
<1>6. \A q \in Readers \ {r} : rd[q].pc = "insert" => gate' = q BY ZenonT(60), <1>4, OthersKeepGate
<1>7. CASE IsCurrent(r)
  <2> DEFINE n == [x EXCEPT !.pc = "insert", !.lim = limit]
  <2>1. rd' = [rd EXCEPT ![r] = n] /\ gate' = r BY Zenon, <1>7 DEF PublishIfCurrent
  <2>2. "insert" \in ReadPcs /\ limit \in Nat BY ZenonT(60) DEF ReadPcs, CacheInv, CacheTypes
  <2>3. x.stamp = Stamp(x.file) BY ZenonT(60), <1>7 DEF IsCurrent
  <2> HIDE DEF x
  <2>4. n \in ReadRecords BY ZenonT(60), <1>2, <2>2 DEF ReadRecords
  <2>5. /\ n.pc = "insert" /\ n.file = x.file /\ n.first = x.first /\ n.last = x.last /\ n.lo = x.lo
        /\ n.hi = x.hi /\ n.floor = x.floor /\ n.got = x.got /\ n.fetched = x.fetched /\ n.stamp = x.stamp
        /\ n.lim = limit
    BY ZenonT(60), <1>2 DEF ReadRecords
  <2> HIDE DEF n
  <2>6. ~Replied(n) /\ InsertOK(n) BY ZenonT(60), <2>3, <2>5 DEF Replied, InsertOK
  <2>7. RangeOK(n)
    <3>1. Lacks(n) = Lacks(x) BY ZenonT(60), <2>5 DEF Lacks
    <3> QED BY ZenonT(60), <1>1, <1>2, <2>5, <3>1 DEF ReadOK, RangeOK
  <2>8. ReadOK(n) BY ZenonT(60), <1>2, <1>3, <2>5, <2>6, <2>7, KeepOK
  <2> QED BY Zenon, <1>4, <1>5, <1>6, <2>1, <2>4, <2>8, ReaderMove
<1>8. CASE ~IsCurrent(r)
  <2>1. rd' = [rd EXCEPT ![r] = Leave(r, "top")] BY ZenonT(60), <1>8 DEF PublishIfCurrent
  <2>2. /\ Leave(r, "top") \in ReadRecords /\ ReadOK(Leave(r, "top"))
        /\ Leave(r, "top").pc \in {"finish", "top", "failed", "waiting"}
    BY ZenonT(60), <1>2, <1>3, LeaveOK
  <2> QED BY Zenon, <1>4, <1>5, <1>6, <2>1, <2>2, ReaderMove
<1> QED BY ZenonT(60), <1>7, <1>8

\* What is resident after rows of f were stored was resident before or is a row.
LEMMA InsertFacts ==
    ASSUME CacheInv, NEW f \in Files, NEW rows \in Versions(Blocks), NEW lim
    PROVE  LET c == InsertMany(cache, f, rows, lim)
           IN  /\ c = [order |-> c.order, entries |-> c.entries]
               /\ c.entries \in Versions(Keys)
               /\ \A k \in DOMAIN c.entries :
                     \/ k[1] = f /\ k[2] \in DOMAIN rows /\ c.entries[k] = rows[k[2]]
                     \/ k \in DOMAIN cache.entries /\ c.entries[k] = cache.entries[k]
<1> DEFINE new == [k \in {<<f, b>> : b \in DOMAIN rows} |-> rows[k[2]]]
<1> DEFINE all == With(new, cache.entries)
<1>1. PICK o, out : InsertMany(cache, f, rows, lim) = [order |-> o, entries |-> Without(all, out)]
  BY Zenon DEF InsertMany
<1>2. DOMAIN rows \subseteq Blocks /\ rows \in [DOMAIN rows -> Nat] BY ZenonT(60), VersionsFacts
<1>3. new \in Versions(Keys)
  <2>1. DOMAIN new \subseteq Keys BY <1>2 DEF Keys
  <2>2. new \in [DOMAIN new -> Nat] BY <1>2
  <2> HIDE DEF new
  <2> QED BY ZenonT(60), <2>1, <2>2, VersionsFacts
<1>4. all \in Versions(Keys) BY ZenonT(60), <1>3, WithVersions DEF CacheInv, CacheTypes
<1>5. Without(all, out) \in Versions(Keys) BY ZenonT(60), <1>4, WithoutVersions
<1>6. ASSUME NEW k \in DOMAIN Without(all, out)
      PROVE  \/ k[1] = f /\ k[2] \in DOMAIN rows /\ Without(all, out)[k] = rows[k[2]]
             \/ k \in DOMAIN cache.entries /\ Without(all, out)[k] = cache.entries[k]
  <2>1. k \in DOMAIN all /\ Without(all, out)[k] = all[k] BY ZenonT(60) DEF Without
  <2>2. \/ k \in DOMAIN new /\ all[k] = new[k]
        \/ k \in DOMAIN cache.entries /\ all[k] = cache.entries[k]
    BY ZenonT(60), <2>1 DEF With
  <2>3. k \in DOMAIN new => k[1] = f /\ k[2] \in DOMAIN rows /\ new[k] = rows[k[2]] BY SMTT(60)
  <2> HIDE DEF new, all
  <2> QED BY ZenonT(60), <2>1, <2>2, <2>3
<1> HIDE DEF all, new
<1> QED BY <1>1, <1>5, <1>6

LEMMA StoreReadBlocksInv ==
    ASSUME CacheConstants, CacheInv, NEW r \in Readers, StoreReadBlocks(r)
    PROVE  CacheInv'
<1> DEFINE x == rd[r]
<1> DEFINE fetched == x.fetched
<1> DEFINE rows == [b \in {b \in DOMAIN fetched : fetched[b].row} |-> fetched[b].v]
<1> DEFINE c == InsertMany(cache, x.file, rows, x.lim)
<1>1. x.pc = "insert" BY ZenonT(60) DEF StoreReadBlocks
<1>2. x \in ReadRecords /\ ReadOK(x) BY ZenonT(60), <1>1, ReaderRecord
<1>3. ~Replied(x) BY ZenonT(60), <1>1 DEF Replied
<1>4. UNCHANGED Reading /\ flights' = flights /\ rd' = [rd EXCEPT ![r] = Reply(r)]
  BY ZenonT(60) DEF StoreReadBlocks
<1>5. cache' = IF x.lim = 0 THEN cache ELSE c BY ZenonT(60) DEF StoreReadBlocks
<1>6. \A q \in Readers \ {r} : rd[q].pc # "insert" BY ZenonT(60), <1>1 DEF CacheInv, ReadersInv
<1>7. \A b \in x.first..x.last : b \in DOMAIN x.got \/ b \in DOMAIN x.fetched
  <2>1. Lacks(x) \subseteq DOMAIN x.fetched BY ZenonT(60), <1>1, <1>2 DEF ReadOK, RangeOK
  <2>2. x.first..x.last \subseteq x.lo..x.hi BY ZenonT(60), <1>2, ReadFacts
  <2> QED BY ZenonT(60), <2>1, <2>2 DEF Lacks
<1>8. Reply(r) \in ReadRecords /\ ReadOK(Reply(r)) /\ Reply(r).pc \in {"finish", "answered"}
  BY ZenonT(60), <1>2, <1>3, <1>7, ReplyOK
<1>9. CASE x.lim = 0
  <2>1. cache' = [order |-> cache'.order, entries |-> cache.entries]
    BY ZenonT(60), <1>5, <1>9 DEF CacheInv, CacheTypes
  <2> QED BY ZenonT(60), <1>4, <1>6, <1>8, <2>1, ReaderMove
<1>10. CASE x.lim # 0
  <2> DEFINE m == [rd EXCEPT ![r] = Reply(r)]
  <2>1. m \in [Readers -> {IdleRead} \cup ReadRecords] BY ZenonT(60), <1>8 DEF CacheInv, CacheTypes
  <2>2. ASSUME NEW q \in Readers
        PROVE  (m[q].pc # "idle" => ReadOK(m[q])) /\ (m[q].pc = "insert" => gate' = q)
    <3>1. m[q] = IF q = r THEN Reply(r) ELSE rd[q] BY ZenonT(60) DEF CacheInv, CacheTypes
    <3> HIDE DEF m
    <3>2. CASE q = r BY ZenonT(60), <1>8, <3>1, <3>2
    <3>3. CASE q # r BY ZenonT(60), <1>6, <3>1, <3>3 DEF CacheInv, ReadersInv
    <3> QED BY ZenonT(60), <3>2, <3>3
  <2>3. x.file \in Files BY ZenonT(60), <1>2, ReadFacts
  <2>4. /\ DOMAIN x.fetched \subseteq Blocks /\ x.fetched \in [DOMAIN x.fetched -> Rows]
        /\ \A b \in DOMAIN x.fetched : x.fetched[b].v \in Nat /\ x.fetched[b].row \in BOOLEAN
    BY ZenonT(60), <1>2, ReadFacts
  <2>5. DOMAIN rows \subseteq DOMAIN x.fetched /\ \A b \in DOMAIN rows : rows[b] = x.fetched[b].v
    OBVIOUS
  <2>6. rows \in Versions(Blocks)
    <3>1. DOMAIN rows \subseteq Blocks BY ZenonT(60), <2>4, <2>5
    <3>2. rows \in [DOMAIN rows -> Nat] BY ZenonT(60), <2>4
    <3> HIDE DEF rows
    <3> QED BY ZenonT(60), <3>1, <3>2, VersionsFacts
  <2>7. \A b \in DOMAIN rows : /\ acked[<<x.file, b>>] <= rows[b]
                               /\ NotBehind(x.file, b, rows[b])
    <3>1. x.stamp = Stamp(x.file) BY ZenonT(60), <1>1, <1>2 DEF ReadOK, InsertOK
    <3>2. \A b \in DOMAIN x.fetched : /\ acked[<<x.file, b>>] <= x.fetched[b].v
                                      /\ NotBehind(x.file, b, x.fetched[b].v)
      BY ZenonT(60), <1>2, <3>1 DEF ReadOK, StampOK
    <3> HIDE DEF rows
    <3> QED BY ZenonT(60), <2>5, <3>2
  <2> HIDE DEF x, rows
  <2>8. /\ c = [order |-> c.order, entries |-> c.entries]
        /\ c.entries \in Versions(Keys)
        /\ \A k \in DOMAIN c.entries :
              \/ k[1] = x.file /\ k[2] \in DOMAIN rows /\ c.entries[k] = rows[k[2]]
              \/ k \in DOMAIN cache.entries /\ c.entries[k] = cache.entries[k]
    BY <2>3, <2>6, InsertFacts
  <2>9. DOMAIN c.entries \subseteq Keys BY ZenonT(60), <2>8, VersionsFacts
  <2> HIDE DEF c
  <2>10. ASSUME NEW k \in DOMAIN c.entries
         PROVE  /\ acked[k] <= c.entries[k]
                /\ NotBehind(k[1], k[2], c.entries[k])
    <3>1. CASE k[1] = x.file /\ k[2] \in DOMAIN rows /\ c.entries[k] = rows[k[2]]
      <4>1. k = <<x.file, k[2]>> BY SMTT(60), <2>9, <3>1 DEF Keys
      <4> QED BY ZenonT(60), <2>7, <3>1, <4>1
    <3>2. CASE k \in DOMAIN cache.entries /\ c.entries[k] = cache.entries[k]
      BY ZenonT(60), <3>2 DEF CacheInv, StoresInv
    <3> QED BY ZenonT(60), <2>8, <3>1, <3>2
  <2>11. ~(limit = 0 /\ reload.pc = "idle")
    <3>1. x.lim \in Nat BY ZenonT(60), <1>2 DEF ReadRecords
    <3>2. limit > 0 \/ reload.pc = "clear" BY <1>1, <1>2, <1>10, <3>1 DEF ReadOK, InsertOK
    <3> QED BY <3>2 DEF CacheInv, CacheTypes
  <2>12. cache' = [order |-> cache'.order, entries |-> c.entries] BY ZenonT(60), <1>5, <1>10, <2>8
  <2>13. rd' = m BY ZenonT(60), <1>4
  <2> HIDE DEF m
  <2> QED BY ZenonT(60), <1>4, <2>1, <2>2, <2>8, <2>10, <2>11, <2>12, <2>13, ReadersMove
<1> QED BY ZenonT(60), <1>9, <1>10

\* The end of a fill: the owner's reply stays fixed, the waiters start over.
LEMMA FinishDoneInv ==
    ASSUME CacheConstants, CacheInv, NEW r \in Readers, FinishDone(r)
    PROVE  CacheInv'
<1> DEFINE m == [q \in Readers |->
                    CASE q = r -> [rd[r] EXCEPT !.pc = "remove"]
                      [] q # r /\ rd[q].pc = "waiting" /\ rd[q].on = r ->
                            [rd[q] EXCEPT !.pc = "top", !.on = Nobody]
                      [] OTHER -> rd[q]]
<1>1. rd' = m /\ UNCHANGED Reading /\ gate' = gate /\ cache' = cache /\ rd[r].pc = "finish"
  BY Zenon DEF FinishDone
<1>2. ASSUME NEW q \in Readers
      PROVE  /\ m[q] \in {IdleRead} \cup ReadRecords
             /\ (m[q].pc # "idle" => ReadOK(m[q])) /\ (m[q].pc = "insert" => gate' = q)
  <2> DEFINE x == rd[q]
  <2>1. CASE q = r
    <3> DEFINE n == [x EXCEPT !.pc = "remove"]
    <3>1. m[q] = n BY ZenonT(60), <2>1
    <3>2. x.pc = "finish" BY ZenonT(60), <1>1, <2>1
    <3>3. x \in ReadRecords /\ ReadOK(x) BY ZenonT(60), <3>2, ReaderRecord
    <3>4. "remove" \in ReadPcs BY ZenonT(60) DEF ReadPcs
    <3> HIDE DEF x, m
    <3>5. n \in ReadRecords BY ZenonT(60), <3>3, <3>4 DEF ReadRecords
    <3>6. /\ n.pc = "remove" /\ n.file = x.file /\ n.first = x.first /\ n.last = x.last /\ n.lo = x.lo
          /\ n.hi = x.hi /\ n.floor = x.floor /\ n.got = x.got /\ n.fetched = x.fetched /\ n.stamp = x.stamp
          /\ n.next = x.next
      BY ZenonT(60), <3>3 DEF ReadRecords
    <3> HIDE DEF n
    <3>7. (Replied(n) <=> Replied(x)) /\ InsertOK(n) BY ZenonT(60), <3>2, <3>6 DEF Replied, InsertOK
    <3>8. RangeOK(n) BY ZenonT(60), <3>3, <3>6 DEF ReadOK, RangeOK
    <3>9. ReadOK(n) BY ZenonT(60), <3>3, <3>6, <3>7, <3>8, KeepOK
    <3> QED BY ZenonT(60), <3>1, <3>5, <3>6, <3>9
  <2>2. CASE q # r /\ x.pc = "waiting" /\ x.on = r
    <3> DEFINE n == [x EXCEPT !.pc = "top", !.on = Nobody]
    <3>1. m[q] = n BY ZenonT(60), <2>2
    <3>2. x.pc = "waiting" BY ZenonT(60), <2>2
    <3>3. x \in ReadRecords /\ ReadOK(x) BY ZenonT(60), <3>2, ReaderRecord
    <3>4. "top" \in ReadPcs BY ZenonT(60) DEF ReadPcs
    <3> HIDE DEF x, m
    <3>5. n \in ReadRecords BY ZenonT(60), <3>3, <3>4 DEF ReadRecords
    <3>6. /\ n.pc = "top" /\ n.file = x.file /\ n.first = x.first /\ n.last = x.last /\ n.lo = x.lo
          /\ n.hi = x.hi /\ n.floor = x.floor /\ n.got = x.got /\ n.fetched = x.fetched /\ n.stamp = x.stamp
          /\ n.next = x.next
      BY ZenonT(60), <3>3 DEF ReadRecords
    <3> HIDE DEF n
    <3>7. (Replied(n) <=> Replied(x)) /\ InsertOK(n) BY ZenonT(60), <3>2, <3>6 DEF Replied, InsertOK
    <3>8. RangeOK(n) BY Zenon, <3>3, <3>6 DEF ReadOK, RangeOK
    <3>9. ReadOK(n) BY ZenonT(60), <3>3, <3>6, <3>7, <3>8, KeepOK
    <3> QED BY ZenonT(60), <3>1, <3>5, <3>6, <3>9
  <2>3. CASE q # r /\ ~(x.pc = "waiting" /\ x.on = r)
    <3>1. m[q] = rd[q] BY ZenonT(60), <2>3
    <3> HIDE DEF m
    <3> QED BY ZenonT(60), <1>1, <3>1 DEF CacheInv, CacheTypes, ReadersInv
  <2> QED BY ZenonT(60), <2>1, <2>2, <2>3
<1>3. m \in [Readers -> {IdleRead} \cup ReadRecords]
  <2>1. m = [q \in Readers |-> m[q]] OBVIOUS
  <2> HIDE DEF m
  <2> QED BY ZenonT(60), <1>2, <2>1
<1>4. flights' \subseteq FlightRecords
  <2>1. flights' = {IF y.owner = r THEN [y EXCEPT !.done = TRUE] ELSE y : y \in flights} BY ZenonT(60) DEF FinishDone
  <2>2. flights \subseteq FlightRecords BY ZenonT(60) DEF CacheInv, CacheTypes
  <2>3. ASSUME NEW y \in flights PROVE [y EXCEPT !.done = TRUE] \in FlightRecords
    BY ZenonT(60), <2>2 DEF FlightRecords
  <2> QED BY ZenonT(60), <2>1, <2>2, <2>3
<1>5. cache' = [order |-> cache'.order, entries |-> cache.entries] BY Zenon, <1>1 DEF CacheInv, CacheTypes
<1>6. cache.entries \in Versions(Keys) BY ZenonT(60) DEF CacheInv, CacheTypes
<1>7. \A k \in DOMAIN cache.entries : /\ acked[k] <= cache.entries[k]
                                      /\ NotBehind(k[1], k[2], cache.entries[k])
  BY Zenon DEF CacheInv, StoresInv
<1>8. limit = 0 /\ reload.pc = "idle" => DOMAIN cache.entries = {} BY ZenonT(60) DEF CacheInv, OffInv
<1> HIDE DEF m
<1> QED BY Zenon, <1>1, <1>2, <1>3, <1>4, <1>5, <1>6, <1>7, <1>8, ReadersMove

LEMMA FinishRemoveInv ==
    ASSUME CacheConstants, CacheInv, NEW r \in Readers, FinishRemove(r)
    PROVE  CacheInv'
<1> DEFINE x == rd[r]
<1> DEFINE n == [x EXCEPT !.pc = x.next, !.own = FALSE, !.next = Nobody]
<1>1. x.pc = "remove" BY ZenonT(60) DEF FinishRemove
<1>2. x \in ReadRecords /\ ReadOK(x) BY ZenonT(60), <1>1, ReaderRecord
<1>3. UNCHANGED Reading /\ gate' = gate /\ cache' = cache /\ rd' = [rd EXCEPT ![r] = n] BY ZenonT(60) DEF FinishRemove
<1>4. flights' \subseteq FlightRecords BY ZenonT(60) DEF FinishRemove, CacheInv, CacheTypes
<1>5. cache' = [order |-> cache'.order, entries |-> cache.entries] BY ZenonT(60), <1>3 DEF CacheInv, CacheTypes
<1>6. \A q \in Readers \ {r} : rd[q].pc = "insert" => gate' = q BY ZenonT(60), <1>3, OthersKeepGate
<1> HIDE DEF x
<1>7. x.next \in NextPcs \cup {Nobody} BY ZenonT(60), <1>2 DEF ReadRecords
<1>8. x.next \in ReadPcs \cup {Nobody} BY ZenonT(60), <1>7 DEF ReadPcs, NextPcs
<1>9. n \in ReadRecords BY ZenonT(60), <1>2, <1>8 DEF ReadRecords
<1>10. /\ n.pc = x.next /\ n.file = x.file /\ n.first = x.first /\ n.last = x.last /\ n.lo = x.lo
       /\ n.hi = x.hi /\ n.floor = x.floor /\ n.got = x.got /\ n.fetched = x.fetched /\ n.stamp = x.stamp
       /\ n.next = Nobody
  BY ZenonT(60), <1>2 DEF ReadRecords
<1> HIDE DEF n
<1>11. n.pc \notin {"idle", "target", "fetch", "publish", "insert"} BY ZenonT(60), <1>7, <1>10 DEF NextPcs, Nobody
<1>12. (Replied(n) <=> Replied(x)) /\ InsertOK(n)
  BY ZenonT(60), <1>1, <1>10, <1>11 DEF Replied, InsertOK, Nobody
<1>13. RangeOK(n) BY ZenonT(60), <1>2, <1>10, <1>11 DEF ReadOK, RangeOK
<1>14. ReadOK(n) BY ZenonT(60), <1>2, <1>10, <1>12, <1>13, KeepOK
<1> QED BY Zenon, <1>3, <1>4, <1>5, <1>6, <1>9, <1>11, <1>14, ReaderMove

LEMMA EndReadInv ==
    ASSUME CacheConstants, CacheInv, NEW r \in Readers, EndRead(r)
    PROVE  CacheInv'
<1>1. UNCHANGED Reading /\ flights' = flights /\ gate' = gate /\ cache' = cache
      /\ rd' = [rd EXCEPT ![r] = IdleRead]
  BY ZenonT(60) DEF EndRead
<1>2. cache' = [order |-> cache'.order, entries |-> cache.entries] BY ZenonT(60), <1>1 DEF CacheInv, CacheTypes
<1>3. \A q \in Readers \ {r} : rd[q].pc = "insert" => gate' = q BY ZenonT(60), <1>1, OthersKeepGate
<1>4. IdleRead.pc = "idle" BY ZenonT(60) DEF IdleRead
<1> QED BY Zenon, <1>1, <1>2, <1>3, <1>4, ReaderMove

LEMMA StartReadInv ==
    ASSUME CacheConstants, CacheInv, NEW r \in Readers, NEW f \in Files, NEW w \in setup.reads,
           StartRead(r, f, w[1], w[2])
    PROVE  CacheInv'
<1>1. PICK first, last : first = w[1] /\ last = w[2] OBVIOUS
<1> DEFINE floor == [b \in first..last |-> settled[<<f, b>>]]
<1> DEFINE n == [pc |-> "fast", file |-> f, first |-> first, last |-> last,
                 lo |-> first, hi |-> last, left |-> first..last, in |-> "recent",
                 got |-> Nothing, want |-> {}, fetched |-> Nothing,
                 stamp |-> <<>>, own |-> FALSE, next |-> Nobody, on |-> Nobody, lim |-> 0,
                 floor |-> floor]
<1>2. UNCHANGED Reading /\ flights' = flights /\ gate' = gate /\ cache' = cache
      /\ rd' = [rd EXCEPT ![r] = n]
  BY ZenonT(60), <1>1 DEF StartRead
<1>3. cache' = [order |-> cache'.order, entries |-> cache.entries] BY ZenonT(60), <1>2 DEF CacheInv, CacheTypes
<1>4. \A q \in Readers \ {r} : rd[q].pc = "insert" => gate' = q BY ZenonT(60), <1>2, OthersKeepGate
<1>5. first \in Blocks /\ last \in Blocks /\ first <= last BY ZenonT(60), <1>1, SetupFacts DEF CacheInv, CacheTypes
<1>6. first..last \subseteq Blocks
  <2>1. Blocks = 0..LastBlock /\ LastBlock \in Nat BY ZenonT(60), SetupFacts DEF CacheInv, CacheTypes
  <2> QED BY SMTT(60), <1>5, <2>1
<1>7. first \in Nat /\ last \in Nat /\ first <= first /\ last <= last
  <2>1. Blocks \subseteq Nat BY ZenonT(60), SetupFacts DEF CacheInv, CacheTypes
  <2> QED BY SMTT(60), <1>5, <2>1
<1>8. \A b \in first..last : settled[<<f, b>>] \in Nat /\ settled[<<f, b>>] <= settled[<<f, b>>]
  BY SMTT(60), <1>6 DEF Keys, CacheInv, CacheTypes
<1>9. floor \in [first..last -> Nat] /\ \A b \in first..last : floor[b] <= settled[<<f, b>>]
  BY ZenonT(60), <1>8
<1>10. floor \in Floors(Blocks)
  <2> HIDE DEF floor
  <2> QED BY ZenonT(60), <1>6, <1>9, FloorsFacts
<1>11. Nothing \in Versions(Blocks) /\ Nothing \in Fetches(Blocks) /\ DOMAIN Nothing = {} BY ZenonT(60), NothingFacts
<1> HIDE DEF floor
<1>12. n \in ReadRecords BY ZenonT(60), <1>5, <1>6, <1>10, <1>11 DEF ReadRecords, ReadPcs
<1>13. /\ n.pc = "fast" /\ n.file = f /\ n.first = first /\ n.last = last /\ n.lo = first /\ n.hi = last
       /\ n.got = Nothing /\ n.fetched = Nothing /\ n.stamp = <<>> /\ n.floor = floor
  BY ZenonT(60)
<1> HIDE DEF n
<1>14. ~Replied(n) /\ InsertOK(n) BY ZenonT(60), <1>13 DEF Replied, InsertOK
<1>15. RangeOK(n) BY ZenonT(60), <1>5, <1>7, <1>13 DEF RangeOK
<1>16. FloorOK(n) BY ZenonT(60), <1>9, <1>11, <1>13, <1>14 DEF FloorOK
<1>17. StampOK(n) BY ZenonT(60), <1>11, <1>13 DEF StampOK
<1>18. ReadOK(n) BY ZenonT(60), <1>14, <1>15, <1>16, <1>17 DEF ReadOK
<1> QED BY ZenonT(60), <1>2, <1>3, <1>4, <1>12, <1>13, <1>18, ReaderMove

-----------------------------------------------------------------------------
\* The sets that the types are built from depend on the setup alone.
LEMMA SetsStay ==
    ASSUME setup' = setup
    PROVE  /\ Files' = Files /\ Blocks' = Blocks /\ Keys' = Keys /\ ReadRecords' = ReadRecords
           /\ ChangeRecords' = ChangeRecords /\ FlightRecords' = FlightRecords
           /\ Versions(Keys)' = Versions(Keys)
BY ZenonT(60) DEF Files, Blocks, LastBlock, Keys, ReadRecords, ChangeRecords, FlightRecords, Versions,
       Fetches, Floors, Nobody

LEMMA ChangeRecord ==
    ASSUME CacheInv, NEW w \in Writers, wr[w].pc # "idle"
    PROVE  /\ wr[w] \in ChangeRecords /\ wr[w].file \in Files /\ wr[w].blocks \subseteq Blocks
           /\ wr[w].kind \in {"flush", "punch", "buffer"}
           /\ wr[w].vers \in Versions(Blocks) /\ DOMAIN wr[w].vers \subseteq Blocks
           /\ \A b \in DOMAIN wr[w].vers : wr[w].vers[b] \in Nat
           /\ ChangeOK(wr[w])
<1>1. wr[w] \in ChangeRecords BY DEF CacheInv, CacheTypes, IdleWrite
<1>2. /\ wr[w].file \in Files /\ wr[w].blocks \subseteq Blocks /\ wr[w].vers \in Versions(Blocks)
      /\ wr[w].kind \in {"flush", "punch", "buffer"}
  BY ZenonT(60), <1>1 DEF ChangeRecords
<1>3. DOMAIN wr[w].vers \subseteq Blocks /\ wr[w].vers \in [DOMAIN wr[w].vers -> Nat]
  BY ZenonT(60), <1>2, VersionsFacts
<1>4. ChangeOK(wr[w]) BY ZenonT(60) DEF CacheInv, ChangeInv
<1> QED BY ZenonT(60), <1>1, <1>2, <1>3, <1>4

\* A step after which no change is half dropped that was not before.
LEMMA NotBehindStays ==
    ASSUME \A u \in Writers : wr'[u].pc = "clearRecent" =>
              wr[u].pc = "clearRecent" /\ wr'[u].file = wr[u].file /\ wr'[u].vers = wr[u].vers,
           NEW f, NEW b, NEW v, NotBehind(f, b, v)
    PROVE  NotBehind(f, b, v)'
BY ZenonT(60) DEF NotBehind, HalfDropped

\* A step of a local change, of another mount or of a reload: numbers only grow,
\* and where the stamp of a file stays what it was, rows under it stay current.
LEMMA ReadersStay ==
    ASSUME CacheConstants, CacheInv, setup' = setup, rd' = rd, gate' = gate,
           \A k \in Keys : settled'[k] \in Nat /\ settled[k] <= settled'[k],
           \A f \in Files : epoch'[f] \in Nat /\ epoch[f] <= epoch'[f],
           cacheEpoch' \in Nat /\ cacheEpoch <= cacheEpoch',
           gate # Nobody => /\ epoch' = epoch /\ cacheEpoch' = cacheEpoch
                            /\ limit > 0 \/ reload.pc = "clear" => limit' > 0 \/ reload'.pc = "clear",
           \A f \in Files, b \in Blocks, v \in Nat :
              /\ epoch'[f] = epoch[f] /\ cacheEpoch' = cacheEpoch
              /\ acked[<<f, b>>] <= v /\ NotBehind(f, b, v)
              => acked'[<<f, b>>] <= v /\ NotBehind(f, b, v)'
    PROVE  ReadersInv'
<1>1. ASSUME NEW r \in Readers, rd[r].pc # "idle" PROVE ReadOK(rd[r])'
  <2>1. PICK x : x = rd[r] BY ZenonT(60)
  <2>2. rd'[r] = x BY ZenonT(60), <2>1
  <2>3. x \in ReadRecords /\ ReadOK(x) BY ZenonT(60), <1>1, <2>1, ReaderRecord
  <2>4. x.file \in Files /\ x.first..x.last \subseteq Blocks BY ZenonT(60), <2>3, ReadFacts
  <2>5. epoch[x.file] \in Nat /\ cacheEpoch \in Nat BY ZenonT(60), <2>4 DEF CacheInv, CacheTypes
  <2>6. x.stamp # <<>> => /\ x.stamp \in Nat \X Nat /\ x.stamp[1] <= epoch[x.file] /\ x.stamp[2] <= cacheEpoch
    BY ZenonT(60), <2>3 DEF ReadRecords, ReadOK, StampOK
  <2>7. /\ x.stamp # <<>> => x.stamp[1] <= epoch'[x.file] /\ x.stamp[2] <= cacheEpoch'
        /\ x.stamp = <<epoch'[x.file], cacheEpoch'>> =>
              x.stamp = Stamp(x.file) /\ epoch'[x.file] = epoch[x.file] /\ cacheEpoch' = cacheEpoch
    <3>1. CASE x.stamp = <<>> BY SMTT(60), <3>1
    <3>2. CASE x.stamp # <<>>
      <4>1. PICK s1 \in Nat, s2 \in Nat : x.stamp = <<s1, s2>> BY SMTT(60), <2>6, <3>2
      <4>2. s1 <= epoch[x.file] /\ s2 <= cacheEpoch BY SMTT(60), <2>6, <3>2, <4>1
      <4>3. PICK e1 \in Nat, e2 \in Nat : e1 = epoch'[x.file] /\ e2 = cacheEpoch' BY ZenonT(60), <2>4
      <4>4. s1 <= e1 /\ s2 <= e2 BY SMTT(60), <2>4, <2>5, <4>2, <4>3
      <4>5. s1 = e1 /\ s2 = e2 => epoch[x.file] = e1 /\ cacheEpoch = e2 BY SMTT(60), <2>4, <2>5, <4>2, <4>3
      <4> QED BY SMTT(60), <4>1, <4>3, <4>4, <4>5 DEF Stamp
    <3> QED BY ZenonT(60), <3>1, <3>2
  <2>8. RangeOK(x)' BY ZenonT(60), <2>3 DEF ReadOK, RangeOK, Lacks
  <2>9. FloorOK(x)'
    <3>1. FloorOK(x) BY ZenonT(60), <2>3 DEF ReadOK
    <3>2. ~Replied(x) => x.floor \in [x.first..x.last -> Nat] BY ZenonT(60), <3>1 DEF FloorOK
    <3>3. ASSUME ~Replied(x), NEW b \in x.first..x.last PROVE x.floor[b] <= settled'[<<x.file, b>>]
      <4>1. x.floor[b] <= settled[<<x.file, b>>] /\ x.floor[b] \in Nat BY ZenonT(60), <3>1, <3>2, <3>3 DEF FloorOK
      <4>2. <<x.file, b>> \in Keys BY ZenonT(60), <2>4 DEF Keys
      <4>3. settled[<<x.file, b>>] \in Nat BY ZenonT(60), <4>2 DEF CacheInv, CacheTypes
      <4> QED BY SMTT(60), <4>1, <4>2, <4>3
    <3> QED BY ZenonT(60), <3>1, <3>3 DEF FloorOK, Replied
  <2>10. StampOK(x)'
    <3>1. ASSUME x.stamp = <<epoch'[x.file], cacheEpoch'>>, NEW b \in DOMAIN x.fetched
          PROVE  acked'[<<x.file, b>>] <= x.fetched[b].v /\ NotBehind(x.file, b, x.fetched[b].v)'
      <4>1. x.stamp = Stamp(x.file) /\ epoch'[x.file] = epoch[x.file] /\ cacheEpoch' = cacheEpoch
        BY ZenonT(60), <2>7, <3>1
      <4>2. /\ acked[<<x.file, b>>] <= x.fetched[b].v
            /\ NotBehind(x.file, b, x.fetched[b].v)
        BY ZenonT(60), <2>3, <4>1 DEF ReadOK, StampOK
      <4>3. b \in Blocks /\ x.fetched[b].v \in Nat BY ZenonT(60), <2>3, ReadFacts
      <4> QED BY ZenonT(60), <2>4, <4>1, <4>2, <4>3
    <3> QED BY ZenonT(60), <2>7, <3>1 DEF StampOK, Stamp
  <2>11. InsertOK(x)'
    <3>1. CASE x.pc # "insert" BY ZenonT(60), <3>1 DEF InsertOK
    <3>2. CASE x.pc = "insert"
      <4>1. gate = r /\ gate # Nobody BY ZenonT(60), <2>1, <3>2 DEF CacheInv, ReadersInv, CacheConstants
      <4> QED BY ZenonT(60), <2>3, <4>1 DEF ReadOK, InsertOK, Stamp
    <3> QED BY ZenonT(60), <3>1, <3>2
  <2>12. ReadOK(x)' BY ZenonT(60), <2>8, <2>9, <2>10, <2>11 DEF ReadOK
  <2> QED BY ZenonT(60), <2>2, <2>12
<1>2. \A r \in Readers : rd'[r].pc = "insert" => gate' = r BY ZenonT(60) DEF CacheInv, ReadersInv
<1> QED BY ZenonT(60), <1>1, <1>2 DEF ReadersInv

\* Nothing a read depends on changes.
LEMMA ReadersUntouched ==
    ASSUME CacheConstants, CacheInv, setup' = setup, rd' = rd, gate' = gate, acked' = acked,
           settled' = settled, epoch' = epoch, cacheEpoch' = cacheEpoch,
           limit > 0 \/ reload.pc = "clear" => limit' > 0 \/ reload'.pc = "clear",
           \A u \in Writers : wr'[u].pc = "clearRecent" =>
              wr[u].pc = "clearRecent" /\ wr'[u].file = wr[u].file /\ wr'[u].vers = wr[u].vers
    PROVE  ReadersInv'
<1>1. \A k \in Keys : settled'[k] \in Nat /\ settled[k] <= settled'[k] BY DEF CacheInv, CacheTypes
<1>2. \A f \in Files : epoch'[f] \in Nat /\ epoch[f] <= epoch'[f] BY DEF CacheInv, CacheTypes
<1>3. cacheEpoch' \in Nat /\ cacheEpoch <= cacheEpoch' BY DEF CacheInv, CacheTypes
<1>4. ASSUME NEW f \in Files, NEW b \in Blocks, NEW v \in Nat, acked[<<f, b>>] <= v, NotBehind(f, b, v)
      PROVE  acked'[<<f, b>>] <= v /\ NotBehind(f, b, v)'
  <2>1. NotBehind(f, b, v)' BY Zenon, <1>4, NotBehindStays
  <2> QED BY Zenon, <1>4, <2>1
<1> QED BY ZenonT(60), <1>1, <1>2, <1>3, <1>4, ReadersStay

\* A step of one change that keeps its file and its blocks, or ends it.
LEMMA OneChange ==
    ASSUME CacheInv, setup' = setup, NEW w \in Writers, NEW n \in {IdleWrite} \cup ChangeRecords,
           wr' = [wr EXCEPT ![w] = n], wr[w].pc # "idle",
           n.pc # "idle" => /\ n.file = wr[w].file /\ n.blocks = wr[w].blocks /\ n.sole = wr[w].sole
                            /\ ChangeOK(n)',
           \A k \in Keys : /\ settled'[k] <= acked'[k] /\ acked'[k] <= db'[k].v
                           /\ db[k].v \in Nat /\ db'[k].v \in Nat /\ db[k].v <= db'[k].v,
           \A u \in Writers \ {w} : wr[u].pc # "idle" =>
              \A b \in DOMAIN wr[u].vers : settled'[<<wr[u].file, b>>] <= wr[u].vers[b]
    PROVE  /\ wr' \in [Writers -> {IdleWrite} \cup ChangeRecords]
           /\ wr'[w] = n /\ \A u \in Writers \ {w} : wr'[u] = wr[u]
           /\ ChangeInv'
<1>1. wr \in [Writers -> {IdleWrite} \cup ChangeRecords] BY ZenonT(60) DEF CacheInv, CacheTypes
<1>2. wr' \in [Writers -> {IdleWrite} \cup ChangeRecords] BY ZenonT(60), <1>1
<1>3. wr'[w] = n /\ \A u \in Writers \ {w} : wr'[u] = wr[u] BY ZenonT(60), <1>1
<1>4. \A k \in Keys : settled'[k] <= acked'[k] /\ acked'[k] <= db'[k].v OBVIOUS
<1>5. ASSUME NEW u \in Writers, wr'[u].pc # "idle" PROVE ChangeOK(wr[u])'
  <2>1. CASE u = w BY ZenonT(60), <1>3, <1>5, <2>1 DEF ChangeOK
  <2>2. CASE u # w
    <3>1. PICK c : c = wr[u] OBVIOUS
    <3>2. c.pc # "idle" /\ wr'[u] = c BY ZenonT(60), <1>3, <1>5, <2>2, <3>1
    <3>3. /\ ChangeOK(c) /\ c.file \in Files /\ DOMAIN c.vers \subseteq Blocks
          /\ \A b \in DOMAIN c.vers : c.vers[b] \in Nat
      BY ZenonT(60), <3>1, <3>2, ChangeRecord
    <3>4. ASSUME NEW b \in DOMAIN c.vers
          PROVE  settled'[<<c.file, b>>] <= c.vers[b] /\ c.vers[b] <= db'[<<c.file, b>>].v
      <4>1. <<c.file, b>> \in Keys /\ c.vers[b] \in Nat BY ZenonT(60), <3>3 DEF Keys
      <4>2. c.vers[b] <= db[<<c.file, b>>].v BY ZenonT(60), <3>3 DEF ChangeOK
      <4>3. /\ db[<<c.file, b>>].v \in Nat /\ db'[<<c.file, b>>].v \in Nat
            /\ db[<<c.file, b>>].v <= db'[<<c.file, b>>].v
        BY ZenonT(60), <4>1
      <4>4. c.vers[b] <= db'[<<c.file, b>>].v BY ONLY <4>1, <4>2, <4>3, SMTT(30)
      <4>5. settled'[<<c.file, b>>] <= c.vers[b] BY ZenonT(60), <2>2, <3>1, <3>2
      <4> QED BY Zenon, <4>4, <4>5
    <3>5. ChangeOK(c)' BY ZenonT(60), <3>3, <3>4 DEF ChangeOK
    <3> QED BY ZenonT(60), <3>2, <3>5 DEF ChangeOK
  <2> QED BY Zenon, <2>1, <2>2
<1>6. ASSUME NEW u \in Writers, wr'[u].pc # "idle", NEW o \in Writers \ {u}, wr'[o].pc # "idle"
      PROVE  Apart(wr'[u], wr'[o])
  <2>1. /\ wr[u].pc # "idle" /\ wr'[u].file = wr[u].file /\ wr'[u].blocks = wr[u].blocks
        /\ wr'[u].sole = wr[u].sole
    BY ZenonT(60), <1>3, <1>6
  <2>2. wr[o].pc # "idle" /\ wr'[o].file = wr[o].file /\ wr'[o].blocks = wr[o].blocks
    BY ZenonT(60), <1>3, <1>6
  <2>3. Apart(wr[u], wr[o]) BY ZenonT(60), <2>1, <2>2 DEF CacheInv, ChangeInv
  <2> QED BY ZenonT(60), <2>1, <2>2, <2>3 DEF Apart
<1>7. ChangeInv'
  <2>1. Keys' = Keys BY ZenonT(60), SetsStay
  <2> QED BY ZenonT(60), <1>4, <1>5, <1>6, <2>1 DEF ChangeInv, Apart
<1> QED BY ZenonT(60), <1>2, <1>3, <1>7

\* The answer of a change: its blocks are answered with its commit numbers, or
\* with the newer ones of a change that was answered before, and those it has for
\* itself are settled with its own.
LEMMA ChangeDoneFacts ==
    ASSUME CacheConstants, CacheInv, NEW w \in Writers, wr[w].pc # "idle", ChangeDone(w),
           setup' = setup, db' = db
    PROVE  /\ acked' \in [Keys -> Nat] /\ settled' \in [Keys -> Nat]
           /\ wr' \in [Writers -> {IdleWrite} \cup ChangeRecords]
           /\ wr'[w] = IdleWrite /\ \A u \in Writers \ {w} : wr'[u] = wr[u]
           /\ ChangeInv'
           /\ \A k \in Keys :
                 /\ acked'[k] = acked[k] \/ (Changed(w, k) /\ acked'[k] = wr[w].vers[k[2]])
                 /\ settled[k] <= settled'[k]
                 /\ \/ settled'[k] = settled[k]
                    \/ Changed(w, k) /\ k[2] \in wr[w].sole /\ settled'[k] = wr[w].vers[k[2]]
<1>1. PICK c : c = wr[w] OBVIOUS
<1>2. /\ c.file \in Files /\ DOMAIN c.vers \subseteq Blocks /\ ChangeOK(c)
      /\ \A b \in DOMAIN c.vers : c.vers[b] \in Nat
  BY ZenonT(60), <1>1, ChangeRecord
<1>3. \A k \in Keys : /\ acked[k] \in Nat /\ settled[k] \in Nat /\ db[k].v \in Nat
                      /\ settled[k] <= acked[k] /\ acked[k] <= db[k].v
  <2>1. \A k \in Keys : db[k] \in Rows /\ acked[k] \in Nat /\ settled[k] \in Nat
    BY ZenonT(60) DEF CacheInv, CacheTypes
  <2>2. \A k \in Keys : settled[k] <= acked[k] /\ acked[k] <= db[k].v
    BY ZenonT(60) DEF CacheInv, ChangeInv
  <2> QED BY ZenonT(60), <2>1, <2>2 DEF Rows
<1>4. /\ acked' = [k \in Keys |-> IF Changed(w, k) /\ c.vers[k[2]] > acked[k] THEN c.vers[k[2]] ELSE acked[k]]
      /\ settled' = [k \in Keys |-> IF Changed(w, k) /\ k[2] \in c.sole THEN c.vers[k[2]] ELSE settled[k]]
      /\ wr' = [wr EXCEPT ![w] = IdleWrite]
  BY ZenonT(60), <1>1 DEF ChangeDone
<1>5. ASSUME NEW k \in Keys
      PROVE  /\ acked'[k] \in Nat /\ settled'[k] \in Nat
             /\ settled[k] <= settled'[k] /\ settled'[k] <= acked'[k] /\ acked'[k] <= db[k].v
             /\ acked'[k] = acked[k] \/ (Changed(w, k) /\ acked'[k] = c.vers[k[2]])
             /\ \/ settled'[k] = settled[k]
                \/ Changed(w, k) /\ k[2] \in c.sole /\ settled'[k] = c.vers[k[2]]
  <2>1. k = <<k[1], k[2]>> BY DEF Keys
  <2>2. /\ acked[k] \in Nat /\ settled[k] \in Nat /\ db[k].v \in Nat
        /\ settled[k] <= acked[k] /\ acked[k] <= db[k].v
    BY ZenonT(60), <1>3
  <2>3. acked'[k] = IF Changed(w, k) /\ c.vers[k[2]] > acked[k] THEN c.vers[k[2]] ELSE acked[k]
    BY ZenonT(60), <1>4
  <2>4. settled'[k] = IF Changed(w, k) /\ k[2] \in c.sole THEN c.vers[k[2]] ELSE settled[k]
    BY ZenonT(60), <1>4
  <2>5. CASE Changed(w, k)
    <3>1. k[1] = c.file /\ k[2] \in DOMAIN c.vers BY ZenonT(60), <1>1, <2>5 DEF Changed
    <3>2. PICK v \in Nat : v = c.vers[k[2]] BY ZenonT(60), <1>2, <3>1
    <3>3. <<c.file, k[2]>> = k BY ZenonT(60), <2>1, <3>1
    <3>4. settled[k] <= v /\ v <= db[k].v BY ZenonT(60), <1>2, <3>1, <3>2, <3>3 DEF ChangeOK
    <3> QED BY ONLY <2>2, <2>3, <2>4, <2>5, <3>2, <3>4, SMTT(30)
  <2>6. CASE ~Changed(w, k) BY ONLY <2>2, <2>3, <2>4, <2>6, SMTT(30)
  <2> QED BY Zenon, <2>5, <2>6
<1>6. acked' \in [Keys -> Nat] /\ settled' \in [Keys -> Nat] BY ZenonT(60), <1>4, <1>5
<1>7. ASSUME NEW u \in Writers \ {w}, wr[u].pc # "idle", NEW b \in DOMAIN wr[u].vers
      PROVE  settled'[<<wr[u].file, b>>] <= wr[u].vers[b]
  <2>1. PICK d : d = wr[u] OBVIOUS
  <2>2. d.file \in Files /\ b \in Blocks /\ ChangeOK(d) BY ZenonT(60), <1>7, <2>1, ChangeRecord
  <2>3. PICK k \in Keys : k = <<d.file, b>> /\ k[1] = d.file /\ k[2] = b
    <3>1. <<d.file, b>> \in Keys BY Zenon, <2>2 DEF Keys
    <3> QED BY ONLY <3>1, SMTT(30)
  <2>4. settled[k] <= d.vers[b] /\ b \in d.blocks BY ZenonT(60), <1>7, <2>1, <2>2, <2>3 DEF ChangeOK
  <2>5. Apart(c, d) BY ZenonT(60), <1>1, <1>7, <2>1 DEF CacheInv, ChangeInv
  <2>6. ~(Changed(w, k) /\ k[2] \in c.sole) BY ZenonT(60), <1>1, <2>3, <2>4, <2>5 DEF Changed, Apart
  <2>7. settled'[k] = settled[k] BY ZenonT(60), <1>5, <2>6
  <2> QED BY ZenonT(60), <2>1, <2>3, <2>4, <2>7
<1>8. /\ wr' \in [Writers -> {IdleWrite} \cup ChangeRecords]
      /\ wr'[w] = IdleWrite /\ \A u \in Writers \ {w} : wr'[u] = wr[u]
      /\ ChangeInv'
  <2>1. IdleWrite.pc = "idle" BY DEF IdleWrite
  <2>2. \A k \in Keys : db[k].v <= db[k].v BY SMTT(30), <1>3
  <2>3. \A k \in Keys : /\ settled'[k] <= acked'[k] /\ acked'[k] <= db'[k].v
                        /\ db[k].v \in Nat /\ db'[k].v \in Nat /\ db[k].v <= db'[k].v
    BY ZenonT(60), <1>3, <1>5, <2>2
  <2> QED BY ZenonT(60), <1>4, <1>7, <2>1, <2>3, OneChange
<1> QED BY ZenonT(60), <1>1, <1>5, <1>6, <1>8

LEMMA StartChangeInv ==
    ASSUME CacheConstants, CacheInv, NEW w \in Writers, NEW kind \in setup.kinds, NEW f \in Files,
           NEW bs \in SUBSET Blocks, StartChange(w, kind, f, bs)
    PROVE  CacheInv'
<1> DEFINE sole == {b \in bs : \A o \in Writers : b \notin Meets(wr[o], f, bs)}
<1> DEFINE n == [pc |-> FirstStep(kind), kind |-> kind, file |-> f, blocks |-> bs, vers |-> Nothing,
                 sole |-> sole]
<1>1. /\ setup' = setup /\ db' = db /\ epoch' = epoch /\ cacheEpoch' = cacheEpoch /\ gate' = gate
      /\ cache' = cache /\ recent' = recent /\ limit' = limit /\ reload' = reload /\ flights' = flights
      /\ rd' = rd /\ acked' = acked /\ settled' = settled /\ wr[w].pc = "idle"
      /\ wr' = [u \in Writers |-> IF u = w THEN n
                                  ELSE IF Meets(wr[u], f, bs) = {} THEN wr[u]
                                  ELSE [wr[u] EXCEPT !.sole = wr[u].sole \ bs]]
  BY ZenonT(60) DEF StartChange
<1>2. kind \in {"flush", "punch", "buffer"} BY ZenonT(60), SetupFacts DEF CacheInv, CacheTypes
<1>3. FirstStep(kind) \in {"commit", "clear"} /\ (kind = "buffer" <=> FirstStep(kind) = "clear")
  BY ZenonT(60), <1>2 DEF FirstStep
<1>4. DOMAIN Nothing = {} /\ Nothing \in Versions(Blocks) BY ZenonT(60), NothingFacts
<1>5. sole \subseteq bs /\ \A o \in Writers, b \in sole : b \notin Meets(wr[o], f, bs) BY Zenon
<1> HIDE DEF sole
<1>6. /\ n.pc = FirstStep(kind) /\ n.kind = kind /\ n.file = f /\ n.blocks = bs /\ n.vers = Nothing
      /\ n.sole = sole /\ n \in ChangeRecords
  <2>1. sole \in SUBSET Blocks BY Zenon, <1>5
  <2> QED BY ZenonT(60), <1>2, <1>3, <1>4, <2>1 DEF ChangeRecords
<1> HIDE DEF n
<1>7. wr'[w] = n BY ZenonT(60), <1>1
\* Every other change keeps all but blocks it had for itself.
<1>8. ASSUME NEW u \in Writers \ {w}
      PROVE  /\ wr'[u] \in {IdleWrite} \cup ChangeRecords /\ wr'[u].pc = wr[u].pc
             /\ wr[u].pc # "idle" =>
                   /\ wr'[u].kind = wr[u].kind /\ wr'[u].file = wr[u].file /\ wr'[u].blocks = wr[u].blocks
                   /\ wr'[u].vers = wr[u].vers /\ wr'[u].sole \subseteq wr[u].sole
                   /\ f = wr[u].file => wr'[u].sole \cap bs = {}
  <2>1. wr'[u] = IF Meets(wr[u], f, bs) = {} THEN wr[u] ELSE [wr[u] EXCEPT !.sole = wr[u].sole \ bs]
    BY ZenonT(60), <1>1
  <2>2. wr[u] \in {IdleWrite} \cup ChangeRecords BY ZenonT(60) DEF CacheInv, CacheTypes
  <2>3. CASE wr[u].pc = "idle"
    <3>1. Meets(wr[u], f, bs) = {} BY Zenon, <2>3 DEF Meets
    <3> QED BY ZenonT(60), <2>1, <2>2, <2>3, <3>1
  <2>4. CASE wr[u].pc # "idle"
    <3>1. PICK c : c = wr[u] OBVIOUS
    <3>2. c \in ChangeRecords /\ ChangeOK(c) BY ZenonT(60), <2>4, <3>1, ChangeRecord
    <3>3. CASE Meets(c, f, bs) = {}
      <4>1. wr'[u] = c BY ZenonT(60), <2>1, <3>1, <3>3
      <4>2. f = c.file => c.blocks \cap bs = {} BY Zenon, <2>4, <3>1, <3>3 DEF Meets
      <4>3. c.sole \subseteq c.blocks BY Zenon, <3>2 DEF ChangeOK
      <4>4. f = c.file => c.sole \cap bs = {} BY Zenon, <4>2, <4>3
      <4> QED BY ZenonT(60), <3>1, <3>2, <4>1, <4>4
    <3>4. CASE Meets(c, f, bs) # {}
      <4>1. wr'[u] = [c EXCEPT !.sole = c.sole \ bs] BY ZenonT(60), <2>1, <3>1, <3>4
      <4>2. c.sole \ bs \in SUBSET Blocks BY ZenonT(60), <3>2 DEF ChangeRecords
      <4>3. PICK s : s = c.sole \ bs OBVIOUS
      <4>4. /\ [c EXCEPT !.sole = s] \in ChangeRecords /\ [c EXCEPT !.sole = s].pc = c.pc
            /\ [c EXCEPT !.sole = s].kind = c.kind /\ [c EXCEPT !.sole = s].file = c.file
            /\ [c EXCEPT !.sole = s].blocks = c.blocks /\ [c EXCEPT !.sole = s].vers = c.vers
            /\ [c EXCEPT !.sole = s].sole = s
        BY ZenonT(60), <3>2, <4>2, <4>3 DEF ChangeRecords
      <4>5. s \subseteq c.sole /\ s \cap bs = {} BY Zenon, <4>3
      <4> QED BY ZenonT(60), <3>1, <4>1, <4>3, <4>4, <4>5
    <3> QED BY Zenon, <3>3, <3>4
  <2> QED BY Zenon, <2>3, <2>4
<1>9. wr' \in [Writers -> {IdleWrite} \cup ChangeRecords]
  <2>1. \A u \in Writers : wr'[u] \in {IdleWrite} \cup ChangeRecords BY ZenonT(60), <1>6, <1>7, <1>8
  <2>2. wr' = [u \in Writers |-> wr'[u]] BY ZenonT(60), <1>1
  <2> QED BY ZenonT(60), <2>1, <2>2
<1>10. CacheTypes' BY ZenonT(60), <1>1, <1>9, SetsStay DEF CacheInv, CacheTypes
<1>11. ASSUME NEW u \in Writers, wr'[u].pc # "idle" PROVE ChangeOK(wr[u])'
  <2>1. CASE u = w
    <3>1. wr'[u] = n BY Zenon, <1>7, <2>1
    <3> QED BY ZenonT(60), <1>2, <1>3, <1>4, <1>5, <1>6, <3>1 DEF ChangeOK
  <2>2. CASE u # w
    <3>1. PICK c, d : c = wr[u] /\ d = wr'[u] OBVIOUS
    <3>2. /\ c.pc # "idle" /\ d.pc = c.pc /\ d.kind = c.kind /\ d.file = c.file /\ d.blocks = c.blocks
          /\ d.vers = c.vers /\ d.sole \subseteq c.sole
      BY ZenonT(60), <1>8, <1>11, <2>2, <3>1
    <3>3. ChangeOK(c) BY ZenonT(60), <3>1, <3>2, ChangeRecord
    <3>4. ChangeOK(d)' BY ZenonT(60), <1>1, <3>2, <3>3 DEF ChangeOK
    <3> QED BY ZenonT(60), <3>1, <3>4 DEF ChangeOK
  <2> QED BY Zenon, <2>1, <2>2
<1>12. ASSUME NEW u \in Writers, wr'[u].pc # "idle", NEW o \in Writers \ {u}, wr'[o].pc # "idle"
       PROVE  Apart(wr'[u], wr'[o])
  <2>1. CASE u = w
    <3>1. wr[o].pc # "idle" /\ wr'[o].file = wr[o].file /\ wr'[o].blocks = wr[o].blocks
      BY ZenonT(60), <1>8, <1>12, <2>1
    <3>2. wr[o].file = f => \A b \in sole : b \notin wr[o].blocks
      BY ZenonT(60), <1>5, <3>1 DEF Meets
    <3> QED BY ZenonT(60), <1>6, <1>7, <2>1, <3>1, <3>2 DEF Apart
  <2>2. CASE u # w /\ o = w
    <3>1. f = wr[u].file => wr'[u].sole \cap bs = {} BY ZenonT(60), <1>8, <1>12, <2>2
    <3>2. wr'[u].file = wr[u].file BY ZenonT(60), <1>8, <1>12, <2>2
    <3> QED BY ZenonT(60), <1>6, <1>7, <2>2, <3>1, <3>2 DEF Apart
  <2>3. CASE u # w /\ o # w
    <3>1. /\ wr[u].pc # "idle" /\ wr'[u].file = wr[u].file /\ wr'[u].sole \subseteq wr[u].sole
          /\ wr[o].pc # "idle" /\ wr'[o].file = wr[o].file /\ wr'[o].blocks = wr[o].blocks
      BY ZenonT(60), <1>8, <1>12, <2>3
    <3>2. Apart(wr[u], wr[o]) BY ZenonT(60), <3>1 DEF CacheInv, ChangeInv
    <3> QED BY ZenonT(60), <3>1, <3>2 DEF Apart
  <2> QED BY Zenon, <2>1, <2>2, <2>3
<1>13. ChangeInv'
  <2>1. Keys' = Keys BY ZenonT(60), <1>1, SetsStay
  <2>2. \A k \in Keys : settled[k] <= acked[k] /\ acked[k] <= db[k].v
    BY ZenonT(60) DEF CacheInv, ChangeInv
  <2> QED BY ZenonT(60), <1>1, <1>11, <1>12, <2>1, <2>2 DEF ChangeInv, Apart
<1>14. \A u \in Writers : wr'[u].pc = "clearRecent" =>
          wr[u].pc = "clearRecent" /\ wr'[u].file = wr[u].file /\ wr'[u].vers = wr[u].vers
  BY ZenonT(60), <1>3, <1>6, <1>7, <1>8
<1>15. StoresInv'
  <2>1. ASSUME NEW k \in DOMAIN cache.entries
        PROVE  acked[k] <= cache.entries[k] /\ NotBehind(k[1], k[2], cache.entries[k])'
    <3>1. PICK b1, b2, v : b1 = k[1] /\ b2 = k[2] /\ v = cache.entries[k] OBVIOUS
    <3>2. NotBehind(b1, b2, v) BY Zenon, <3>1 DEF CacheInv, StoresInv
    <3>3. NotBehind(b1, b2, v)' BY Zenon, <1>14, <3>2, NotBehindStays
    <3>4. acked[k] <= cache.entries[k] BY Zenon DEF CacheInv, StoresInv
    <3> QED BY Zenon, <1>1, <3>1, <3>3, <3>4 DEF NotBehind, HalfDropped
  <2>2. \A k \in DOMAIN recent : settled[k] <= recent[k] BY Zenon DEF CacheInv, StoresInv
  <2>3. ASSUME NEW u \in Writers, wr'[u].pc = "clear", wr'[u].kind = "flush" PROVE RecentOK(wr[u])'
    <3>1. u # w BY ZenonT(60), <1>3, <1>6, <1>7, <2>3
    <3>2. /\ wr[u].pc = "clear" /\ wr[u].kind = "flush" /\ wr'[u].file = wr[u].file
          /\ wr'[u].vers = wr[u].vers /\ wr'[u].sole \subseteq wr[u].sole
      BY ZenonT(60), <1>8, <2>3, <3>1
    <3>3. RecentOK(wr[u]) BY Zenon, <3>2 DEF CacheInv, StoresInv
    <3> QED BY ZenonT(60), <1>1, <3>2, <3>3 DEF RecentOK
  <2> QED BY ZenonT(60), <1>1, <2>1, <2>2, <2>3 DEF StoresInv
<1>16. OffInv' BY ZenonT(60), <1>1 DEF CacheInv, OffInv
<1>17. ReadersInv' BY ZenonT(60), <1>1, <1>14, ReadersUntouched
<1> QED BY ZenonT(60), <1>10, <1>13, <1>15, <1>16, <1>17 DEF CacheInv

\* What the step of one change leaves to the stores when it keeps the cache, drops
\* nothing by halves, and is not a flush with blocks stored (or its blocks are newer).
LEMMA StoresKept ==
    ASSUME CacheInv, NEW w \in Writers, cache' = cache, acked' = acked, settled' = settled,
           \A u \in Writers \ {w} : wr'[u] = wr[u],
           wr'[w].pc # "clearRecent",
           \A k \in DOMAIN recent' : settled[k] <= recent'[k],
           NEW n, n = wr'[w], n.pc = "clear" /\ n.kind = "flush" => RecentOK(n)',
           \A u \in Writers \ {w} : wr[u].pc = "clear" /\ wr[u].kind = "flush" =>
              \A k \in DOMAIN recent' :
                 k[1] = wr[u].file /\ k[2] \in wr[u].sole /\ k[2] \in DOMAIN wr[u].vers
                 => wr[u].vers[k[2]] <= recent'[k]
    PROVE  /\ StoresInv'
           /\ \A u \in Writers : wr'[u].pc = "clearRecent" =>
                 wr[u].pc = "clearRecent" /\ wr'[u].file = wr[u].file /\ wr'[u].vers = wr[u].vers
<1>1. \A u \in Writers : wr'[u].pc = "clearRecent" =>
          wr[u].pc = "clearRecent" /\ wr'[u].file = wr[u].file /\ wr'[u].vers = wr[u].vers
  BY ZenonT(60)
<1>2. ASSUME NEW k \in DOMAIN cache.entries
      PROVE  acked[k] <= cache.entries[k] /\ NotBehind(k[1], k[2], cache.entries[k])'
  <2>1. PICK b1, b2, v : b1 = k[1] /\ b2 = k[2] /\ v = cache.entries[k] OBVIOUS
  <2>2. NotBehind(b1, b2, v) BY Zenon, <2>1 DEF CacheInv, StoresInv
  <2>3. NotBehind(b1, b2, v)' BY Zenon, <1>1, <2>2, NotBehindStays
  <2>4. acked[k] <= cache.entries[k] BY Zenon DEF CacheInv, StoresInv
  <2> QED BY Zenon, <2>1, <2>3, <2>4 DEF NotBehind, HalfDropped
<1>3. ASSUME NEW u \in Writers, wr'[u].pc = "clear", wr'[u].kind = "flush" PROVE RecentOK(wr[u])'
  <2>1. CASE u = w BY ZenonT(60), <1>3, <2>1 DEF RecentOK
  <2>2. CASE u # w BY ZenonT(60), <1>3, <2>2 DEF RecentOK
  <2> QED BY Zenon, <2>1, <2>2
<1> QED BY ZenonT(60), <1>1, <1>2, <1>3 DEF StoresInv

LEMMA ChangeCommitInv ==
    ASSUME CacheConstants, CacheInv, NEW w \in Writers, ChangeCommit(w)
    PROVE  CacheInv'
<1>1. PICK c : c = wr[w] OBVIOUS
<1> DEFINE ks == {<<c.file, b>> : b \in c.blocks}
<1>2. PICK pc, vers : /\ pc = IF c.kind = "flush" THEN "recent" ELSE "clear"
                      /\ vers = [b \in c.blocks |-> db[<<c.file, b>>].v + 1]
  BY Zenon
<1>3. PICK n : n = [c EXCEPT !.pc = pc, !.vers = vers] OBVIOUS
<1>4. /\ setup' = setup /\ epoch' = epoch /\ cacheEpoch' = cacheEpoch /\ gate' = gate
      /\ cache' = cache /\ recent' = recent /\ limit' = limit /\ reload' = reload /\ flights' = flights
      /\ rd' = rd /\ acked' = acked /\ settled' = settled /\ c.pc = "commit"
      /\ db' = [k \in Keys |-> IF k \in ks THEN [v |-> db[k].v + 1, row |-> c.kind = "flush"] ELSE db[k]]
  BY ZenonT(60), <1>1 DEF ChangeCommit
<1>5. wr' = [wr EXCEPT ![w] = n]
  <2>1. wr' = [wr EXCEPT ![w] = [wr[w] EXCEPT
                   !.pc = IF wr[w].kind = "flush" THEN "recent" ELSE "clear",
                   !.vers = [b \in wr[w].blocks |-> db[<<wr[w].file, b>>].v + 1]]]
    BY DEF ChangeCommit
  <2> QED BY Zenon, <1>1, <1>2, <1>3, <2>1
<1>6. /\ c \in ChangeRecords /\ c.file \in Files /\ c.blocks \subseteq Blocks /\ ChangeOK(c)
      /\ c.kind \in {"flush", "punch"}
  <2>1. /\ c \in ChangeRecords /\ c.file \in Files /\ c.blocks \subseteq Blocks /\ ChangeOK(c)
        /\ c.kind \in {"flush", "punch", "buffer"}
    BY ZenonT(60), <1>1, <1>4, ChangeRecord
  <2>2. c.kind # "buffer" BY Zenon, <1>4, <2>1 DEF ChangeOK
  <2> QED BY Zenon, <2>1, <2>2
<1>7. ASSUME NEW k \in Keys
      PROVE  /\ db[k].v \in Nat /\ db'[k] \in Rows /\ db'[k].v \in Nat /\ db[k].v <= db'[k].v
             /\ acked[k] \in Nat /\ acked[k] <= db[k].v /\ settled[k] \in Nat /\ settled[k] <= acked[k]
             /\ k \in ks => db'[k].v = db[k].v + 1
  <2>1. /\ db[k] \in Rows /\ acked[k] \in Nat /\ acked[k] <= db[k].v
        /\ settled[k] \in Nat /\ settled[k] <= acked[k]
    BY ZenonT(60) DEF CacheInv, CacheTypes, ChangeInv
  <2>2. db[k].v \in Nat BY ZenonT(60), <2>1 DEF Rows
  <2>3. CASE k \in ks
    <3>1. db'[k] = [v |-> db[k].v + 1, row |-> c.kind = "flush"] BY ZenonT(60), <1>4, <2>3
    <3>2. db'[k] \in Rows /\ db'[k].v = db[k].v + 1 BY <2>2, <3>1 DEF Rows
    <3> QED BY <2>1, <2>2, <3>2
  <2>4. CASE k \notin ks
    <3>1. db'[k] = db[k] BY ZenonT(60), <1>4, <2>4
    <3> QED BY <2>1, <2>2, <2>4, <3>1
  <2> QED BY Zenon, <2>3, <2>4
<1>8. db' \in [Keys -> Rows]
  <2>1. db' = [k \in Keys |-> db'[k]] BY ZenonT(60), <1>4
  <2> QED BY ZenonT(60), <1>7, <2>1
<1>9. ASSUME NEW b \in c.blocks
      PROVE  /\ vers[b] \in Nat /\ settled[<<c.file, b>>] <= vers[b] /\ vers[b] <= db'[<<c.file, b>>].v
  <2>1. <<c.file, b>> \in Keys /\ <<c.file, b>> \in ks BY ZenonT(60), <1>6 DEF Keys
  <2>2. vers[b] = db[<<c.file, b>>].v + 1 BY Zenon, <1>2
  <2> HIDE DEF ks
  <2> QED BY SMTT(60), <1>7, <2>1, <2>2
<1>10. DOMAIN vers = c.blocks /\ vers \in Versions(Blocks)
  <2>1. DOMAIN vers = c.blocks BY ZenonT(60), <1>2
  <2>2. vers \in [DOMAIN vers -> Nat] BY ZenonT(60), <1>2, <1>9
  <2> QED BY ZenonT(60), <1>6, <2>1, <2>2, VersionsFacts
<1>11. pc \in {"recent", "clear"} /\ (pc = "recent" <=> c.kind = "flush") BY <1>2
<1> HIDE DEF ks
<1>12. n \in ChangeRecords BY Zenon, <1>3, <1>6, <1>10, <1>11 DEF ChangeRecords
<1>13. /\ n.pc = pc /\ n.vers = vers /\ n.kind = c.kind /\ n.file = c.file /\ n.blocks = c.blocks
       /\ n.sole = c.sole
  BY ZenonT(60), <1>3, <1>6 DEF ChangeRecords
<1>14. ChangeOK(n)'
  <2>1. c.sole \subseteq c.blocks BY Zenon, <1>6 DEF ChangeOK
  <2> QED BY ZenonT(60), <1>4, <1>6, <1>9, <1>10, <1>11, <1>13, <2>1 DEF ChangeOK
<1>15. /\ wr' \in [Writers -> {IdleWrite} \cup ChangeRecords]
       /\ wr'[w] = n /\ (\A u \in Writers \ {w} : wr'[u] = wr[u]) /\ ChangeInv'
  <2>1. \A k \in Keys : /\ settled'[k] <= acked'[k] /\ acked'[k] <= db'[k].v
                        /\ db[k].v \in Nat /\ db'[k].v \in Nat /\ db[k].v <= db'[k].v
    <3>1. ASSUME NEW k \in Keys
          PROVE  /\ settled[k] <= acked[k] /\ db[k].v \in Nat /\ db'[k].v \in Nat /\ db[k].v <= db'[k].v
                 /\ acked[k] \in Nat /\ acked[k] <= db[k].v
      BY Zenon, <1>7
    <3>2. ASSUME NEW k \in Keys PROVE acked[k] <= db'[k].v BY ONLY <3>1, k \in Keys, SMTT(30)
    <3> QED BY Zenon, <1>4, <3>1, <3>2
  <2>2. \A u \in Writers \ {w} : wr[u].pc # "idle" =>
           \A b \in DOMAIN wr[u].vers : settled'[<<wr[u].file, b>>] <= wr[u].vers[b]
    BY ZenonT(60), <1>4, ChangeRecord DEF ChangeOK
  <2>3. wr[w].pc # "idle" BY Zenon, <1>1, <1>4
  <2> QED BY ZenonT(60), <1>1, <1>4, <1>5, <1>12, <1>13, <1>14, <2>1, <2>2, <2>3, OneChange
<1>16. CacheTypes' BY ZenonT(60), <1>4, <1>8, <1>15, SetsStay DEF CacheInv, CacheTypes
<1>17. /\ StoresInv'
       /\ \A u \in Writers : wr'[u].pc = "clearRecent" =>
             wr[u].pc = "clearRecent" /\ wr'[u].file = wr[u].file /\ wr'[u].vers = wr[u].vers
  <2>1. n.pc # "clearRecent" /\ ~(n.pc = "clear" /\ n.kind = "flush") BY Zenon, <1>11, <1>13
  <2>2. \A k \in DOMAIN recent' : settled[k] <= recent'[k] BY ZenonT(60), <1>4 DEF CacheInv, StoresInv
  <2>3. \A u \in Writers \ {w} : wr[u].pc = "clear" /\ wr[u].kind = "flush" =>
           \A k \in DOMAIN recent' :
              k[1] = wr[u].file /\ k[2] \in wr[u].sole /\ k[2] \in DOMAIN wr[u].vers
              => wr[u].vers[k[2]] <= recent'[k]
    BY ZenonT(60), <1>4 DEF CacheInv, StoresInv, RecentOK
  <2> QED BY ZenonT(60), <1>4, <1>15, <2>1, <2>2, <2>3, StoresKept
<1>18. OffInv' BY ZenonT(60), <1>4 DEF CacheInv, OffInv
<1>19. ReadersInv' BY ZenonT(60), <1>4, <1>17, ReadersUntouched
<1> QED BY ZenonT(60), <1>15, <1>16, <1>17, <1>18, <1>19 DEF CacheInv

\* The map of recently written blocks after a flush: its blocks, or what was
\* there, less what is evicted; with the cache off everything is evicted.
LEMMA StoreRecentFacts ==
    ASSUME CacheConstants, CacheInv, NEW f \in Files, NEW rows \in Versions(Blocks)
    PROVE  LET rec == StoreRecentWriteBlocks(recent, f, rows)
           IN  /\ rec \in Versions(Keys) /\ IsFiniteSet(DOMAIN rec)
               /\ \A k \in DOMAIN rec :
                     IF k[1] = f /\ k[2] \in DOMAIN rows
                     THEN rec[k] = rows[k[2]] ELSE k \in DOMAIN recent /\ rec[k] = recent[k]
               /\ limit = 0 => DOMAIN rec = {}
<1> DEFINE new == [k \in {<<f, b>> : b \in DOMAIN rows} |-> rows[k[2]]]
<1> DEFINE all == With(new, recent)
<1> DEFINE keep == IF limit = 0 THEN 0 ELSE LastBlock + 1
<1> DEFINE Lower(k) == {j \in DOMAIN all : j[1] < k[1] \/ (j[1] = k[1] /\ j[2] < k[2])}
<1> DEFINE out == {k \in DOMAIN all : Cardinality(Lower(k)) + keep < Cardinality(DOMAIN all)}
<1> DEFINE rec == Without(all, out)
<1>1. StoreRecentWriteBlocks(recent, f, rows) = rec BY Zenon DEF StoreRecentWriteBlocks
<1>2. DOMAIN rows \subseteq Blocks /\ rows \in [DOMAIN rows -> Nat] BY ZenonT(60), VersionsFacts
<1>3. DOMAIN new = {<<f, b>> : b \in DOMAIN rows} /\ DOMAIN new \subseteq Keys /\ new \in [DOMAIN new -> Nat]
  BY <1>2 DEF Keys
<1>4. new \in Versions(Keys)
  <2> HIDE DEF new
  <2> QED BY ZenonT(60), <1>3, VersionsFacts
<1>5. recent \in Versions(Keys) /\ IsFiniteSet(DOMAIN recent) BY ZenonT(60) DEF CacheInv, CacheTypes
<1>6. all \in Versions(Keys) BY ZenonT(60), <1>4, <1>5, WithVersions
<1>7. DOMAIN all = DOMAIN new \cup DOMAIN recent /\ DOMAIN all \subseteq Keys
  <2>1. DOMAIN all = DOMAIN new \cup DOMAIN recent BY ZenonT(60) DEF With
  <2> HIDE DEF all
  <2> QED BY ZenonT(60), <1>6, <2>1, VersionsFacts
<1>8. IsFiniteSet(DOMAIN all)
  <2>1. IsFiniteSet(Blocks) BY ZenonT(60), SetupFacts DEF CacheInv, CacheTypes
  <2>2. IsFiniteSet(DOMAIN rows) BY ZenonT(60), <1>2, <2>1, FS_Subset
  <2>3. IsFiniteSet({f} \X DOMAIN rows) BY ZenonT(60), <2>2, FS_Singleton, FS_Product
  <2>4. DOMAIN new \subseteq {f} \X DOMAIN rows BY <1>3
  <2>5. IsFiniteSet(DOMAIN new) BY ZenonT(60), <2>3, <2>4, FS_Subset
  <2> HIDE DEF all, new
  <2> QED BY Zenon, <1>5, <1>7, <2>5, FS_Union
<1>9. rec \in Versions(Keys) BY ZenonT(60), <1>6, WithoutVersions
<1>10. DOMAIN rec = (DOMAIN all) \ out /\ \A k \in DOMAIN rec : rec[k] = all[k] BY ZenonT(60) DEF Without
<1>11. IsFiniteSet(DOMAIN rec)
  <2> HIDE DEF rec, out, all
  <2>1. DOMAIN rec \subseteq DOMAIN all BY ZenonT(60), <1>10
  <2> QED BY ZenonT(60), <1>8, <2>1, FS_Subset
<1>12. ASSUME NEW k \in DOMAIN rec
       PROVE  IF k[1] = f /\ k[2] \in DOMAIN rows
              THEN rec[k] = rows[k[2]] ELSE k \in DOMAIN recent /\ rec[k] = recent[k]
  <2>1. k \in DOMAIN all /\ rec[k] = all[k] BY ZenonT(60), <1>10
  <2>2. all[k] = IF k \in DOMAIN new THEN new[k] ELSE recent[k] BY ZenonT(60), <2>1 DEF With
  <2>3. k \in DOMAIN new => new[k] = rows[k[2]] BY ZenonT(60)
  <2> HIDE DEF new, all, rec
  <2>4. k \in Keys BY ZenonT(60), <1>7, <2>1
  <2>5. k \in DOMAIN new <=> k[1] = f /\ k[2] \in DOMAIN rows
    <3>1. k = <<k[1], k[2]>> BY ONLY <2>4 DEF Keys
    <3> QED BY ONLY <1>3, <3>1
  <2>6. k \notin DOMAIN new => k \in DOMAIN recent BY ZenonT(60), <1>7, <2>1
  <2> QED BY ZenonT(60), <2>1, <2>2, <2>3, <2>5, <2>6
<1>13. ASSUME limit = 0 PROVE DOMAIN rec = {}
  <2>1. ASSUME NEW k \in DOMAIN all PROVE k \in out
    <3>1. k[1] \in Nat /\ k[2] \in Nat
      BY Zenon, <1>7, SetupFacts DEF CacheInv, CacheTypes, Keys
    <3>2. Lower(k) \subseteq DOMAIN all /\ k \notin Lower(k) BY <3>1
    <3>3. keep = 0 BY ZenonT(60), <1>13
    <3> HIDE DEF Lower, all, keep
    <3>4. /\ IsFiniteSet(Lower(k)) /\ Cardinality(Lower(k)) < Cardinality(DOMAIN all)
          /\ Cardinality(Lower(k)) \in Nat /\ Cardinality(DOMAIN all) \in Nat
      <4>1. IsFiniteSet(Lower(k)) /\ Cardinality(Lower(k)) <= Cardinality(DOMAIN all)
            /\ (Cardinality(Lower(k)) = Cardinality(DOMAIN all) => Lower(k) = DOMAIN all)
        BY ZenonT(60), <1>8, <3>2, FS_Subset
      <4>2. Cardinality(Lower(k)) \in Nat /\ Cardinality(DOMAIN all) \in Nat
        BY ZenonT(60), <1>8, <4>1, FS_CardinalityType
      <4> QED BY SMTT(60), <2>1, <3>2, <4>1, <4>2
    <3>5. Cardinality(Lower(k)) + keep < Cardinality(DOMAIN all) BY SMTT(60), <3>3, <3>4
    <3> QED BY ZenonT(60), <2>1, <3>5
  <2> HIDE DEF rec, out
  <2> QED BY ZenonT(60), <1>10, <2>1
<1> HIDE DEF rec
<1> QED BY ZenonT(60), <1>1, <1>9, <1>11, <1>12, <1>13

LEMMA ChangeStoreRecentInv ==
    ASSUME CacheConstants, CacheInv, NEW w \in Writers, ChangeStoreRecent(w)
    PROVE  CacheInv'
<1>1. PICK c : c = wr[w] OBVIOUS
<1>2. PICK n : n = [c EXCEPT !.pc = "clear"] OBVIOUS
<1>3. /\ setup' = setup /\ db' = db /\ epoch' = epoch /\ cacheEpoch' = cacheEpoch /\ gate' = gate
      /\ cache' = cache /\ limit' = limit /\ reload' = reload /\ flights' = flights
      /\ rd' = rd /\ acked' = acked /\ settled' = settled /\ c.pc = "recent" /\ reload.pc = "idle"
      /\ recent' = StoreRecentWriteBlocks(recent, c.file, c.vers)
      /\ wr' = [wr EXCEPT ![w] = n]
  BY ZenonT(60), <1>1, <1>2 DEF ChangeStoreRecent, RecentUnlocked
<1>4. /\ c \in ChangeRecords /\ c.file \in Files /\ c.vers \in Versions(Blocks) /\ ChangeOK(c)
      /\ \A b \in DOMAIN c.vers : c.vers[b] \in Nat
  BY ZenonT(60), <1>1, <1>3, ChangeRecord
<1>5. c.kind = "flush" BY Zenon, <1>3, <1>4 DEF ChangeOK
<1>6. /\ n \in ChangeRecords /\ n.pc = "clear" /\ n.kind = "flush" /\ n.file = c.file
      /\ n.vers = c.vers /\ n.blocks = c.blocks /\ n.sole = c.sole
  BY ZenonT(60), <1>2, <1>4, <1>5 DEF ChangeRecords
<1>7. /\ recent' \in Versions(Keys) /\ IsFiniteSet(DOMAIN recent')
      /\ \A k \in DOMAIN recent' :
            IF k[1] = c.file /\ k[2] \in DOMAIN c.vers
            THEN recent'[k] = c.vers[k[2]] ELSE k \in DOMAIN recent /\ recent'[k] = recent[k]
      /\ limit = 0 => DOMAIN recent' = {}
  BY <1>3, <1>4, StoreRecentFacts
<1>8. ChangeOK(n)' BY ZenonT(60), <1>3, <1>4, <1>6 DEF ChangeOK
<1>9. /\ wr' \in [Writers -> {IdleWrite} \cup ChangeRecords]
      /\ wr'[w] = n /\ (\A u \in Writers \ {w} : wr'[u] = wr[u]) /\ ChangeInv'
  <2>1. \A k \in Keys : /\ settled[k] <= acked[k] /\ acked[k] <= db[k].v /\ db[k] \in Rows
    BY ZenonT(60) DEF CacheInv, CacheTypes, ChangeInv
  <2>2. \A k \in Keys : db[k].v \in Nat /\ db[k].v <= db[k].v BY SMTT(30), <2>1 DEF Rows
  <2>3. \A k \in Keys : /\ settled'[k] <= acked'[k] /\ acked'[k] <= db'[k].v
                        /\ db[k].v \in Nat /\ db'[k].v \in Nat /\ db[k].v <= db'[k].v
    BY ZenonT(60), <1>3, <2>1, <2>2
  <2>4. \A u \in Writers \ {w} : wr[u].pc # "idle" =>
           \A b \in DOMAIN wr[u].vers : settled'[<<wr[u].file, b>>] <= wr[u].vers[b]
    BY ZenonT(60), <1>3, ChangeRecord DEF ChangeOK
  <2>5. wr[w].pc # "idle" BY Zenon, <1>1, <1>3
  <2> QED BY ZenonT(60), <1>1, <1>3, <1>6, <1>8, <2>3, <2>4, <2>5, OneChange
<1>10. CacheTypes' BY ZenonT(60), <1>3, <1>7, <1>9, SetsStay DEF CacheInv, CacheTypes
<1>11. \A k \in DOMAIN recent' : k = <<k[1], k[2]>>
  <2>1. DOMAIN recent' \subseteq Keys BY ZenonT(60), <1>7, VersionsFacts
  <2> QED BY SMTT(60), <2>1 DEF Keys
<1>12. ASSUME NEW k \in DOMAIN recent' PROVE settled[k] <= recent'[k]
  <2>1. CASE k[1] = c.file /\ k[2] \in DOMAIN c.vers
    <3>1. recent'[k] = c.vers[k[2]] BY ZenonT(60), <1>7, <2>1
    <3>2. settled[<<c.file, k[2]>>] <= c.vers[k[2]] BY ZenonT(60), <1>4, <2>1 DEF ChangeOK
    <3> QED BY ZenonT(60), <1>11, <2>1, <3>1, <3>2
  <2>2. CASE ~(k[1] = c.file /\ k[2] \in DOMAIN c.vers)
    <3>1. k \in DOMAIN recent /\ recent'[k] = recent[k] BY ZenonT(60), <1>7, <2>2
    <3> QED BY ZenonT(60), <3>1 DEF CacheInv, StoresInv
  <2> QED BY Zenon, <2>1, <2>2
<1>13. RecentOK(n)'
  <2>1. ASSUME NEW k \in DOMAIN recent', k[1] = c.file, k[2] \in DOMAIN c.vers
        PROVE  c.vers[k[2]] <= recent'[k]
    <3>1. recent'[k] = c.vers[k[2]] BY ZenonT(60), <1>7, <2>1
    <3>2. c.vers[k[2]] \in Nat BY Zenon, <1>4, <2>1
    <3> QED BY ONLY <3>1, <3>2, SMTT(30)
  <2> QED BY ZenonT(60), <1>6, <2>1 DEF RecentOK
\* A block that another flush has for itself is not among those stored.
<1>14. ASSUME NEW u \in Writers \ {w}, wr[u].pc = "clear", wr[u].kind = "flush", NEW k \in DOMAIN recent',
              k[1] = wr[u].file, k[2] \in wr[u].sole, k[2] \in DOMAIN wr[u].vers
       PROVE  wr[u].vers[k[2]] <= recent'[k]
  <2>1. Apart(wr[u], c) BY ZenonT(60), <1>1, <1>3, <1>14 DEF CacheInv, ChangeInv
  <2>2. DOMAIN c.vers \subseteq c.blocks BY Zenon, <1>4 DEF ChangeOK
  <2>3. ~(k[1] = c.file /\ k[2] \in DOMAIN c.vers) BY ZenonT(60), <1>14, <2>1, <2>2 DEF Apart
  <2>4. k \in DOMAIN recent /\ recent'[k] = recent[k] BY ZenonT(60), <1>7, <2>3
  <2>5. RecentOK(wr[u]) BY ZenonT(60), <1>14 DEF CacheInv, StoresInv
  <2> QED BY ZenonT(60), <1>14, <2>4, <2>5 DEF RecentOK
<1>15. /\ StoresInv'
       /\ \A u \in Writers : wr'[u].pc = "clearRecent" =>
             wr[u].pc = "clearRecent" /\ wr'[u].file = wr[u].file /\ wr'[u].vers = wr[u].vers
  <2>1. n.pc # "clearRecent" BY Zenon, <1>6
  <2> QED BY ZenonT(60), <1>3, <1>9, <1>12, <1>13, <1>14, <2>1, StoresKept
<1>16. OffInv' BY ZenonT(60), <1>3, <1>7 DEF CacheInv, OffInv
<1>17. ReadersInv' BY ZenonT(60), <1>3, <1>15, ReadersUntouched
<1> QED BY ZenonT(60), <1>9, <1>10, <1>15, <1>16, <1>17 DEF CacheInv

\* The clearing of a file: none of its blocks is resident, the others are as before.
LEMMA ClearFileFacts ==
    ASSUME CacheTypes, NEW f
    PROVE  /\ ClearFile(cache, f) = [order |-> ClearFile(cache, f).order,
                                     entries |-> ClearFile(cache, f).entries]
           /\ ClearFile(cache, f).entries \in Versions(Keys)
           /\ \A k \in DOMAIN ClearFile(cache, f).entries :
                 k[1] # f /\ k \in DOMAIN cache.entries /\ ClearFile(cache, f).entries[k] = cache.entries[k]
<1> DEFINE e == Without(cache.entries, {k \in Keys : k[1] = f})
<1>1. PICK o : ClearFile(cache, f) = [order |-> o, entries |-> e] BY ZenonT(60) DEF ClearFile
<1>2. e \in Versions(Keys) BY ZenonT(60), WithoutVersions DEF CacheTypes
<1>3. DOMAIN cache.entries \subseteq Keys BY ZenonT(60), VersionsFacts DEF CacheTypes
<1>4. \A k \in DOMAIN e : k[1] # f /\ k \in DOMAIN cache.entries /\ e[k] = cache.entries[k]
  BY ZenonT(60), <1>3 DEF Without
<1> HIDE DEF e
<1> QED BY SMTT(60), <1>1, <1>2, <1>4

\* The clearing of a file's blocks ends a flush or a buffered write; after a punch
\* the recently written blocks are still to be dropped.
LEMMA ClearReadCacheForFileInv ==
    ASSUME CacheConstants, CacheInv, NEW w \in Writers, ClearReadCacheForFile(w)
    PROVE  CacheInv'
<1>1. PICK c : c = wr[w] OBVIOUS
<1>2. /\ setup' = setup /\ db' = db /\ cacheEpoch' = cacheEpoch /\ gate' = gate /\ gate = Nobody
      /\ recent' = recent /\ limit' = limit /\ reload' = reload /\ flights' = flights
      /\ rd' = rd /\ c.pc = "clear" /\ wr[w].pc # "idle"
      /\ epoch' = [epoch EXCEPT ![c.file] = epoch[c.file] + 1]
      /\ cache' = ClearFile(cache, c.file)
  BY ZenonT(60), <1>1 DEF ClearReadCacheForFile, GateFree
<1>3. /\ c \in ChangeRecords /\ c.file \in Files /\ c.kind \in {"flush", "punch", "buffer"}
      /\ DOMAIN c.vers \subseteq Blocks /\ ChangeOK(c) /\ \A b \in DOMAIN c.vers : c.vers[b] \in Nat
  BY ZenonT(60), <1>1, <1>2, ChangeRecord
<1>4. /\ cache' = [order |-> cache'.order, entries |-> cache'.entries]
      /\ cache'.entries \in Versions(Keys)
      /\ \A k \in DOMAIN cache'.entries :
            k[1] # c.file /\ k \in DOMAIN cache.entries /\ cache'.entries[k] = cache.entries[k]
  BY ZenonT(60), <1>2, ClearFileFacts DEF CacheInv
<1>5. /\ epoch' \in [Files -> Nat]
      /\ \A f \in Files : epoch[f] \in Nat /\ epoch[f] <= epoch'[f] /\ (f = c.file => epoch'[f] # epoch[f])
  BY SMTT(60), <1>2, <1>3 DEF CacheInv, CacheTypes
<1>6. PICK n : n = IF c.kind = "punch" THEN [c EXCEPT !.pc = "clearRecent"] ELSE IdleWrite OBVIOUS
<1>7. /\ c.kind = "punch" => /\ n \in ChangeRecords /\ n.pc = "clearRecent" /\ n.kind = "punch"
                             /\ n.file = c.file /\ n.vers = c.vers /\ n.blocks = c.blocks /\ n.sole = c.sole
      /\ c.kind # "punch" => n = IdleWrite /\ n.pc = "idle"
  <2>1. IdleWrite.pc = "idle" BY DEF IdleWrite
  <2> QED BY ZenonT(60), <1>3, <1>6, <2>1 DEF ChangeRecords
<1>8. /\ acked' \in [Keys -> Nat] /\ settled' \in [Keys -> Nat]
      /\ wr' \in [Writers -> {IdleWrite} \cup ChangeRecords]
      /\ wr'[w] = n /\ (\A u \in Writers \ {w} : wr'[u] = wr[u])
      /\ ChangeInv'
      /\ \A k \in Keys : /\ k[1] # c.file => acked'[k] = acked[k]
                         /\ settled[k] <= settled'[k]
                         /\ \/ settled'[k] = settled[k]
                            \/ /\ c.kind = "flush" /\ k[1] = c.file /\ k[2] \in DOMAIN c.vers
                               /\ k[2] \in c.sole /\ settled'[k] = c.vers[k[2]]
  <2>1. CASE c.kind = "punch"
    <3>1. wr' = [wr EXCEPT ![w] = n] /\ acked' = acked /\ settled' = settled
      BY ZenonT(60), <1>1, <1>6, <2>1 DEF ClearReadCacheForFile
    <3>2. acked \in [Keys -> Nat] /\ settled \in [Keys -> Nat] BY ZenonT(60) DEF CacheInv, CacheTypes
    <3>3. \A k \in Keys : /\ settled[k] <= acked[k] /\ acked[k] <= db[k].v /\ db[k] \in Rows
      BY ZenonT(60) DEF CacheInv, CacheTypes, ChangeInv
    <3>4. \A k \in Keys : db[k].v \in Nat /\ db[k].v <= db[k].v /\ settled[k] <= settled[k]
      BY SMTT(30), <3>2, <3>3 DEF Rows
    <3>5. \A k \in Keys : /\ settled'[k] <= acked'[k] /\ acked'[k] <= db'[k].v
                          /\ db[k].v \in Nat /\ db'[k].v \in Nat /\ db[k].v <= db'[k].v
      BY ZenonT(60), <1>2, <3>1, <3>3, <3>4
    <3>6. \A u \in Writers \ {w} : wr[u].pc # "idle" =>
             \A b \in DOMAIN wr[u].vers : settled'[<<wr[u].file, b>>] <= wr[u].vers[b]
      BY ZenonT(60), <3>1, ChangeRecord DEF ChangeOK
    <3>7. ChangeOK(n)' BY ZenonT(60), <1>2, <1>3, <1>7, <2>1, <3>1 DEF ChangeOK
    <3>8. /\ wr' \in [Writers -> {IdleWrite} \cup ChangeRecords]
          /\ wr'[w] = n /\ (\A u \in Writers \ {w} : wr'[u] = wr[u]) /\ ChangeInv'
      BY ZenonT(60), <1>1, <1>2, <1>7, <2>1, <3>1, <3>5, <3>6, <3>7, OneChange
    <3> QED BY ZenonT(60), <3>1, <3>2, <3>4, <3>8
  <2>2. CASE c.kind # "punch"
    <3>1. ChangeDone(w) BY ZenonT(60), <1>1, <2>2 DEF ClearReadCacheForFile
    <3>2. c.kind = "buffer" => DOMAIN c.vers = {} BY Zenon, <1>3 DEF ChangeOK
    <3>3. /\ acked' \in [Keys -> Nat] /\ settled' \in [Keys -> Nat]
          /\ wr' \in [Writers -> {IdleWrite} \cup ChangeRecords]
          /\ wr'[w] = IdleWrite /\ (\A u \in Writers \ {w} : wr'[u] = wr[u])
          /\ ChangeInv'
          /\ \A k \in Keys :
                /\ acked'[k] = acked[k] \/ (Changed(w, k) /\ acked'[k] = wr[w].vers[k[2]])
                /\ settled[k] <= settled'[k]
                /\ \/ settled'[k] = settled[k]
                   \/ Changed(w, k) /\ k[2] \in wr[w].sole /\ settled'[k] = wr[w].vers[k[2]]
      BY ZenonT(60), <1>2, <3>1, ChangeDoneFacts
    <3>4. \A k : Changed(w, k) => c.kind = "flush" /\ k[1] = c.file /\ k[2] \in DOMAIN c.vers
      BY ZenonT(60), <1>1, <1>3, <2>2, <3>2 DEF Changed
    <3> QED BY ZenonT(60), <1>1, <1>7, <2>2, <3>3, <3>4
  <2> QED BY Zenon, <2>1, <2>2
<1>9. CacheTypes' BY ZenonT(60), <1>2, <1>4, <1>5, <1>8, SetsStay DEF CacheInv, CacheTypes
\* On other files nothing is dropped by halves that was not before.
<1>10. ASSUME NEW f, f # c.file, NEW b, NEW v, NotBehind(f, b, v) PROVE NotBehind(f, b, v)'
  <2>1. ASSUME NEW u \in Writers, wr'[u].pc = "clearRecent", wr'[u].file = f, b \in DOMAIN wr'[u].vers
        PROVE  wr'[u].vers[b] <= v
    <3>1. u # w BY ZenonT(60), <1>7, <1>8, <1>10, <2>1
    <3>2. wr'[u] = wr[u] BY Zenon, <1>8, <3>1
    <3> QED BY ZenonT(60), <1>10, <2>1, <3>2 DEF NotBehind, HalfDropped
  <2> QED BY Zenon, <2>1 DEF NotBehind, HalfDropped
<1>11. StoresInv'
  <2>1. ASSUME NEW k \in DOMAIN cache'.entries
        PROVE  acked'[k] <= cache'.entries[k] /\ NotBehind(k[1], k[2], cache.entries[k])'
    <3>1. k[1] # c.file /\ k \in DOMAIN cache.entries /\ cache'.entries[k] = cache.entries[k] BY Zenon, <1>4
    <3>2. k \in Keys BY ZenonT(60), <1>4, VersionsFacts
    <3>3. acked'[k] = acked[k] BY Zenon, <1>8, <3>1, <3>2
    <3>4. PICK f, b, v : f = k[1] /\ b = k[2] /\ v = cache.entries[k] OBVIOUS
    <3>5. acked[k] <= v /\ NotBehind(f, b, v) BY Zenon, <3>1, <3>4 DEF CacheInv, StoresInv
    <3>6. NotBehind(f, b, v)' BY Zenon, <1>10, <3>1, <3>4, <3>5
    <3> QED BY Zenon, <3>1, <3>3, <3>4, <3>5, <3>6 DEF NotBehind, HalfDropped
  <2>2. ASSUME NEW k \in DOMAIN recent PROVE settled'[k] <= recent[k]
    <3>1. k \in Keys BY ZenonT(60), VersionsFacts DEF CacheInv, CacheTypes
    <3>2. CASE settled'[k] = settled[k] BY Zenon, <3>2 DEF CacheInv, StoresInv
    <3>3. CASE /\ c.kind = "flush" /\ k[1] = c.file /\ k[2] \in DOMAIN c.vers
               /\ k[2] \in c.sole /\ settled'[k] = c.vers[k[2]]
      <4>1. RecentOK(c) BY Zenon, <1>1, <1>2, <3>3 DEF CacheInv, StoresInv
      <4> QED BY Zenon, <3>3, <4>1 DEF RecentOK
    <3> QED BY Zenon, <1>8, <3>1, <3>2, <3>3
  <2>3. ASSUME NEW u \in Writers, wr'[u].pc = "clear", wr'[u].kind = "flush" PROVE RecentOK(wr[u])'
    <3>1. u # w
      <4>1. n.pc # "clear" BY Zenon, <1>7
      <4> QED BY Zenon, <1>8, <2>3, <4>1
    <3>2. wr'[u] = wr[u] BY Zenon, <1>8, <3>1
    <3> QED BY ZenonT(60), <1>2, <2>3, <3>2 DEF CacheInv, StoresInv, RecentOK
  <2> QED BY ZenonT(60), <1>2, <2>1, <2>2, <2>3 DEF StoresInv
<1>12. OffInv'
  <2>1. DOMAIN cache.entries = {} => DOMAIN cache'.entries = {} BY ZenonT(60), <1>4
  <2> QED BY ZenonT(60), <1>2, <2>1 DEF CacheInv, OffInv
<1>13. ReadersInv'
  <2>1. ASSUME NEW f \in Files, NEW b \in Blocks, NEW v \in Nat, epoch'[f] = epoch[f], acked[<<f, b>>] <= v,
               NotBehind(f, b, v)
        PROVE  acked'[<<f, b>>] <= v /\ NotBehind(f, b, v)'
    <3>1. f # c.file BY ZenonT(60), <1>5, <2>1
    <3>2. <<f, b>> \in Keys /\ <<f, b>>[1] = f BY DEF Keys
    <3>3. acked'[<<f, b>>] = acked[<<f, b>>] BY ZenonT(60), <1>8, <3>1, <3>2
    <3>4. NotBehind(f, b, v)' BY Zenon, <1>10, <2>1, <3>1
    <3> QED BY ZenonT(60), <2>1, <3>3, <3>4
  <2>2. cacheEpoch' \in Nat /\ cacheEpoch <= cacheEpoch' BY SMTT(60), <1>2 DEF CacheInv, CacheTypes
  <2>3. \A k \in Keys : settled'[k] \in Nat /\ settled[k] <= settled'[k] BY ZenonT(60), <1>8
  <2>4. \A f \in Files : epoch'[f] \in Nat /\ epoch[f] <= epoch'[f] BY ZenonT(60), <1>5
  <2> QED BY ZenonT(60), <1>2, <2>1, <2>2, <2>3, <2>4, ReadersStay
<1> QED BY ZenonT(60), <1>8, <1>9, <1>11, <1>12, <1>13 DEF CacheInv

LEMMA ClearRecentWriteBlocksForFileInv ==
    ASSUME CacheConstants, CacheInv, NEW w \in Writers, ClearRecentWriteBlocksForFile(w)
    PROVE  CacheInv'
<1>1. PICK c : c = wr[w] OBVIOUS
<1>2. /\ setup' = setup /\ db' = db /\ epoch' = epoch /\ cacheEpoch' = cacheEpoch /\ gate' = gate
      /\ cache' = cache /\ limit' = limit /\ reload' = reload /\ flights' = flights
      /\ rd' = rd /\ c.pc = "clearRecent" /\ wr[w].pc # "idle" /\ ChangeDone(w)
      /\ recent' = Without(recent, {k \in Keys : k[1] = c.file})
  BY ZenonT(60), <1>1 DEF ClearRecentWriteBlocksForFile
<1>3. recent \in Versions(Keys) /\ IsFiniteSet(DOMAIN recent) /\ DOMAIN recent \subseteq Keys
  BY ZenonT(60), VersionsFacts DEF CacheInv, CacheTypes
<1>4. /\ DOMAIN recent' \subseteq DOMAIN recent
      /\ \A k \in DOMAIN recent' : k[1] # c.file /\ recent'[k] = recent[k]
  BY ZenonT(60), <1>2, <1>3 DEF Without
<1>5. recent' \in Versions(Keys) /\ IsFiniteSet(DOMAIN recent')
  <2>1. recent' \in Versions(Keys) BY ZenonT(60), <1>2, <1>3, WithoutVersions
  <2>2. IsFiniteSet(DOMAIN recent') BY ZenonT(60), <1>3, <1>4, FS_Subset
  <2> QED BY ZenonT(60), <2>1, <2>2
<1>6. /\ acked' \in [Keys -> Nat] /\ settled' \in [Keys -> Nat]
      /\ wr' \in [Writers -> {IdleWrite} \cup ChangeRecords]
      /\ wr'[w] = IdleWrite /\ (\A u \in Writers \ {w} : wr'[u] = wr[u])
      /\ ChangeInv'
      /\ \A k \in Keys :
            /\ acked'[k] = acked[k] \/ (Changed(w, k) /\ acked'[k] = wr[w].vers[k[2]])
            /\ settled[k] <= settled'[k]
            /\ \/ settled'[k] = settled[k]
               \/ Changed(w, k) /\ k[2] \in wr[w].sole /\ settled'[k] = wr[w].vers[k[2]]
  BY ZenonT(60), <1>2, ChangeDoneFacts
<1>7. wr'[w].pc = "idle" BY <1>6 DEF IdleWrite
<1>8. \A u \in Writers : wr'[u].pc = "clearRecent" =>
         wr[u].pc = "clearRecent" /\ wr'[u].file = wr[u].file /\ wr'[u].vers = wr[u].vers
  BY ZenonT(60), <1>6, <1>7
<1>9. CacheTypes' BY ZenonT(60), <1>2, <1>5, <1>6, SetsStay DEF CacheInv, CacheTypes
\* The change was half dropped, so nothing resident is older than it.
<1>10. ASSUME NEW k \in Keys, NEW v, acked[k] <= v, NotBehind(k[1], k[2], v) PROVE acked'[k] <= v
  <2>1. CASE acked'[k] = acked[k] BY Zenon, <1>10, <2>1
  <2>2. CASE Changed(w, k) /\ acked'[k] = wr[w].vers[k[2]]
    <3>1. HalfDropped(w, k[1], k[2]) BY Zenon, <1>1, <1>2, <2>2 DEF Changed, HalfDropped
    <3> QED BY Zenon, <1>10, <2>2, <3>1 DEF NotBehind
  <2> QED BY Zenon, <1>6, <2>1, <2>2
<1>11. StoresInv'
  <2>1. ASSUME NEW k \in DOMAIN cache.entries
        PROVE  acked'[k] <= cache.entries[k] /\ NotBehind(k[1], k[2], cache.entries[k])'
    <3>1. k \in Keys BY ZenonT(60), VersionsFacts DEF CacheInv, CacheTypes
    <3>2. PICK f, b, v : f = k[1] /\ b = k[2] /\ v = cache.entries[k] OBVIOUS
    <3>3. acked[k] <= v /\ NotBehind(f, b, v) BY Zenon, <3>2 DEF CacheInv, StoresInv
    <3>4. NotBehind(f, b, v)' BY Zenon, <1>8, <3>3, NotBehindStays
    <3>5. acked'[k] <= v BY Zenon, <1>10, <3>1, <3>2, <3>3
    <3> QED BY Zenon, <1>2, <3>2, <3>4, <3>5 DEF NotBehind, HalfDropped
  <2>2. ASSUME NEW k \in DOMAIN recent' PROVE settled'[k] <= recent'[k]
    <3>1. k \in Keys /\ k[1] # c.file /\ k \in DOMAIN recent /\ recent'[k] = recent[k] BY ZenonT(60), <1>3, <1>4
    <3>2. ~Changed(w, k) BY Zenon, <1>1, <3>1 DEF Changed
    <3>3. settled'[k] = settled[k] BY Zenon, <1>6, <3>1, <3>2
    <3> QED BY Zenon, <3>1, <3>3 DEF CacheInv, StoresInv
  <2>3. ASSUME NEW u \in Writers, wr'[u].pc = "clear", wr'[u].kind = "flush" PROVE RecentOK(wr[u])'
    <3>1. u # w BY Zenon, <1>7, <2>3
    <3>2. wr'[u] = wr[u] BY Zenon, <1>6, <3>1
    <3>3. RecentOK(wr[u]) BY Zenon, <2>3, <3>2 DEF CacheInv, StoresInv
    <3> QED BY ZenonT(60), <1>4, <3>2, <3>3 DEF RecentOK
  <2> QED BY ZenonT(60), <1>2, <2>1, <2>2, <2>3 DEF StoresInv
<1>12. OffInv' BY ZenonT(60), <1>2, <1>4 DEF CacheInv, OffInv
<1>13. ReadersInv'
  <2>1. ASSUME NEW f \in Files, NEW b \in Blocks, NEW v \in Nat, acked[<<f, b>>] <= v, NotBehind(f, b, v)
        PROVE  acked'[<<f, b>>] <= v /\ NotBehind(f, b, v)'
    <3>1. PICK k \in Keys : k = <<f, b>> /\ k[1] = f /\ k[2] = b
      <4>1. <<f, b>> \in Keys BY Zenon DEF Keys
      <4> QED BY ONLY <4>1, SMTT(30)
    <3>2. acked'[k] <= v BY Zenon, <1>10, <2>1, <3>1
    <3>3. NotBehind(f, b, v)' BY Zenon, <1>8, <2>1, NotBehindStays
    <3> QED BY Zenon, <3>1, <3>2, <3>3
  <2>2. cacheEpoch' \in Nat /\ cacheEpoch <= cacheEpoch' BY SMTT(60), <1>2 DEF CacheInv, CacheTypes
  <2>3. \A k \in Keys : settled'[k] \in Nat /\ settled[k] <= settled'[k] BY ZenonT(60), <1>6
  <2>4. \A f \in Files : epoch'[f] \in Nat /\ epoch[f] <= epoch'[f] BY <1>2 DEF CacheInv, CacheTypes
  <2> QED BY Zenon, <1>2, <2>1, <2>2, <2>3, <2>4, ReadersStay
<1> QED BY ZenonT(60), <1>6, <1>9, <1>11, <1>12, <1>13 DEF CacheInv

LEMMA RemoteCommitInv ==
    ASSUME CacheConstants, CacheInv, NEW k \in Keys, NEW row \in BOOLEAN, RemoteCommit(k, row)
    PROVE  CacheInv'
<1>1. /\ setup' = setup /\ epoch' = epoch /\ cacheEpoch' = cacheEpoch /\ gate' = gate
      /\ cache' = cache /\ recent' = recent /\ limit' = limit /\ reload' = reload /\ flights' = flights
      /\ rd' = rd /\ wr' = wr /\ acked' = acked /\ settled' = settled
      /\ db' = [db EXCEPT ![k] = [v |-> db[k].v + 1, row |-> row]]
  BY ZenonT(60) DEF RemoteCommit
<1>2. ASSUME NEW j \in Keys
      PROVE  /\ db[j].v \in Nat /\ db'[j] \in Rows /\ db'[j].v \in Nat /\ db[j].v <= db'[j].v /\ acked[j] \in Nat
             /\ acked[j] <= db[j].v /\ settled[j] <= acked[j]
  <2>1. /\ db \in [Keys -> Rows] /\ acked[j] \in Nat
        /\ acked[j] <= db[j].v /\ settled[j] <= acked[j]
    BY ZenonT(60) DEF CacheInv, CacheTypes, ChangeInv
  <2>2. db[j].v \in Nat /\ db[k].v \in Nat BY ZenonT(60), <2>1 DEF Rows
  <2>3. [v |-> db[k].v + 1, row |-> row] \in Rows BY SMTT(60), <2>2 DEF Rows
  <2>4. CASE j = k
    <3>1. db'[j] = [v |-> db[k].v + 1, row |-> row] BY ZenonT(60), <1>1, <2>1, <2>4
    <3> QED BY SMTT(60), <2>1, <2>2, <2>3, <2>4, <3>1
  <2>5. CASE j # k
    <3>1. db'[j] = db[j] BY ZenonT(60), <1>1, <2>1, <2>5
    <3> QED BY SMTT(60), <2>1, <2>2, <3>1
  <2> QED BY ZenonT(60), <2>4, <2>5
<1>3. db' \in [Keys -> Rows]
  <2>1. db \in [Keys -> Rows] BY ZenonT(60) DEF CacheInv, CacheTypes
  <2>2. [v |-> db[k].v + 1, row |-> row] \in Rows
    <3>1. db[k].v \in Nat BY ZenonT(60), <1>2
    <3> QED BY <3>1 DEF Rows
  <2> QED BY ZenonT(60), <1>1, <2>1, <2>2
<1>4. CacheTypes' BY ZenonT(60), <1>1, <1>3, SetsStay DEF CacheInv, CacheTypes
<1>5. ChangeInv'
  <2>1. ASSUME NEW j \in Keys PROVE settled[j] <= acked[j] /\ acked[j] <= db'[j].v
    BY SMTT(60), <1>2
  <2>2. ASSUME NEW w \in Writers, wr[w].pc # "idle" PROVE ChangeOK(wr[w])'
    <3>1. PICK c : c = wr[w] OBVIOUS
    <3>2. /\ ChangeOK(c) /\ c.file \in Files /\ DOMAIN c.vers \subseteq Blocks
          /\ \A b \in DOMAIN c.vers : c.vers[b] \in Nat
      BY ZenonT(60), <2>2, <3>1, ChangeRecord
    <3>3. ASSUME NEW b \in DOMAIN c.vers PROVE c.vers[b] <= db'[<<c.file, b>>].v
      <4>1. PICK j \in Keys : j = <<c.file, b>> BY Zenon, <3>2 DEF Keys
      <4>2. c.vers[b] \in Nat /\ c.vers[b] <= db[j].v BY Zenon, <3>2, <4>1 DEF ChangeOK
      <4>3. db[j].v \in Nat /\ db'[j].v \in Nat /\ db[j].v <= db'[j].v BY Zenon, <1>2
      <4>4. c.vers[b] <= db'[j].v BY ONLY <4>2, <4>3, SMTT(30)
      <4> QED BY Zenon, <4>1, <4>4
    <3>4. ChangeOK(c)' BY ZenonT(60), <1>1, <3>2, <3>3 DEF ChangeOK
    <3> QED BY ZenonT(60), <1>1, <3>1, <3>4 DEF ChangeOK
  <2>3. Keys' = Keys BY Zenon, <1>1, SetsStay
  <2> QED BY ZenonT(60), <1>1, <2>1, <2>2, <2>3 DEF CacheInv, ChangeInv, Apart
<1>6. StoresInv' BY ZenonT(60), <1>1 DEF CacheInv, StoresInv, NotBehind, HalfDropped, RecentOK
<1>7. OffInv' BY ZenonT(60), <1>1 DEF CacheInv, OffInv
<1>8. ReadersInv' BY ZenonT(60), <1>1, ReadersUntouched
<1> QED BY ZenonT(60), <1>4, <1>5, <1>6, <1>7, <1>8 DEF CacheInv

LEMMA ReloadSettingsInv ==
    ASSUME CacheConstants, CacheInv, NEW l \in setup.limits, ReloadSettings(l)
    PROVE  CacheInv'
<1>1. /\ setup' = setup /\ db' = db /\ epoch' = epoch /\ cacheEpoch' = cacheEpoch /\ gate' = gate
      /\ cache' = cache /\ recent' = recent /\ flights' = flights
      /\ rd' = rd /\ wr' = wr /\ acked' = acked /\ settled' = settled /\ limit' = l /\ l # limit /\ reload.pc = "idle"
      /\ reload' = [pc |-> IF limit > 0 /\ l = 0 THEN "clear" ELSE "idle", n |-> reload.n + 1]
  BY ZenonT(60) DEF ReloadSettings
<1>2. l \in Nat /\ limit \in Nat /\ reload.n \in Nat BY ZenonT(60), SetupFacts DEF CacheInv, CacheTypes
<1>3. /\ reload' \in [pc : {"idle", "clear"}, n : Nat]
      /\ reload'.pc = IF limit > 0 /\ l = 0 THEN "clear" ELSE "idle"
  BY SMTT(60), <1>1, <1>2
<1>4. CacheTypes' BY ZenonT(60), <1>1, <1>2, <1>3, SetsStay DEF CacheInv, CacheTypes
<1>5. ChangeInv' BY ZenonT(60), <1>1, SetsStay DEF CacheInv, ChangeInv, ChangeOK, Apart
<1>6. StoresInv' BY ZenonT(60), <1>1 DEF CacheInv, StoresInv, NotBehind, HalfDropped, RecentOK
<1>7. OffInv'
  <2>1. ASSUME limit' = 0, reload'.pc = "idle" PROVE FALSE
    <3>1. l = 0 /\ limit > 0
      BY ONLY <1>1, <1>2, <2>1, SMTT(60)
    <3>2. reload'.pc = "clear"
      BY Zenon, <1>3, <3>1
    <3> QED BY Zenon, <2>1, <3>2
  <2> QED BY Zenon, <2>1 DEF OffInv
<1>8. limit > 0 \/ reload.pc = "clear" => limit' > 0 \/ reload'.pc = "clear" BY <1>1, <1>2, <1>3
<1>9. ReadersInv' BY ZenonT(60), <1>1, <1>8, ReadersUntouched
<1> QED BY ZenonT(60), <1>4, <1>5, <1>6, <1>7, <1>9 DEF CacheInv

LEMMA InvalidateAllInv ==
    ASSUME CacheConstants, CacheInv, InvalidateAll
    PROVE  CacheInv'
<1>1. /\ setup' = setup /\ db' = db /\ epoch' = epoch /\ gate' = gate /\ gate = Nobody
      /\ limit' = limit /\ flights' = flights /\ rd' = rd /\ wr' = wr /\ acked' = acked /\ settled' = settled
      /\ cacheEpoch' = cacheEpoch + 1 /\ cache' = EmptyCache /\ recent' = Nothing
      /\ reload' = [reload EXCEPT !.pc = "idle"]
  BY ZenonT(60) DEF InvalidateAll, GateFree
<1>2. /\ cache' = [order |-> cache'.order, entries |-> cache'.entries] /\ cache'.entries = Nothing
      /\ Nothing \in Versions(Keys) /\ DOMAIN Nothing = {} /\ IsFiniteSet(DOMAIN Nothing)
  <2>1. cache' = [order |-> cache'.order, entries |-> cache'.entries] /\ cache'.entries = Nothing
    BY ZenonT(60), <1>1 DEF EmptyCache
  <2> QED BY ZenonT(60), <2>1, NothingFacts, FS_EmptySet
<1>3. reload' \in [pc : {"idle", "clear"}, n : Nat] BY ZenonT(60), <1>1 DEF CacheInv, CacheTypes
<1>4. cacheEpoch \in Nat /\ cacheEpoch' \in Nat /\ cacheEpoch <= cacheEpoch' /\ cacheEpoch' # cacheEpoch
  BY <1>1 DEF CacheInv, CacheTypes
<1>5. CacheTypes' BY ZenonT(60), <1>1, <1>2, <1>3, <1>4, SetsStay DEF CacheInv, CacheTypes
<1>6. ChangeInv' BY ZenonT(60), <1>1, SetsStay DEF CacheInv, ChangeInv, ChangeOK, Apart
<1>7. StoresInv' BY ZenonT(60), <1>1, <1>2 DEF StoresInv, RecentOK
<1>8. OffInv' BY ZenonT(60), <1>1, <1>2 DEF OffInv
<1>9. ReadersInv'
  <2>1. \A k \in Keys : settled'[k] \in Nat /\ settled[k] <= settled'[k] BY <1>1 DEF CacheInv, CacheTypes
  <2>2. \A f \in Files : epoch'[f] \in Nat /\ epoch[f] <= epoch'[f] BY <1>1 DEF CacheInv, CacheTypes
  <2> QED BY ZenonT(60), <1>1, <1>4, <2>1, <2>2, ReadersStay
<1> QED BY ZenonT(60), <1>5, <1>6, <1>7, <1>8, <1>9 DEF CacheInv

-----------------------------------------------------------------------------
LEMMA CacheInvInit == ASSUME CacheConstants, CacheInit PROVE CacheInv
<1>1. setup \in Setups /\ limit \in Nat BY ZenonT(60), SetupFacts DEF CacheInit
<1>2. cache.entries = Nothing /\ cache = [order |-> cache.order, entries |-> cache.entries]
  BY ZenonT(60) DEF CacheInit, EmptyCache
<1>3. Nothing \in Versions(Keys) /\ DOMAIN Nothing = {} /\ IsFiniteSet(DOMAIN Nothing)
  BY ZenonT(60), NothingFacts, FS_EmptySet
<1>4. recent = Nothing /\ \A w \in Writers : wr[w].pc = "idle" BY DEF CacheInit, IdleWrite
<1>5. \A k \in Keys : db[k] \in Rows /\ db[k].v = 0 BY ZenonT(60) DEF CacheInit, Rows
<1>6. CacheTypes
  <2>1. db \in [Keys -> Rows] BY ZenonT(60), <1>5 DEF CacheInit
  <2>2. /\ epoch \in [Files -> Nat] /\ cacheEpoch \in Nat /\ acked \in [Keys -> Nat]
        /\ settled \in [Keys -> Nat]
        /\ reload \in [pc : {"idle", "clear"}, n : Nat] /\ flights \subseteq FlightRecords
        /\ rd \in [Readers -> {IdleRead} \cup ReadRecords] /\ wr \in [Writers -> {IdleWrite} \cup ChangeRecords]
    BY ZenonT(60) DEF CacheInit
  <2> QED BY ZenonT(60), <1>1, <1>2, <1>3, <1>4, <2>1, <2>2 DEF CacheTypes
<1>7. ChangeInv BY SMTT(60), <1>4, <1>5 DEF ChangeInv, CacheInit
<1>8. StoresInv BY ZenonT(60), <1>2, <1>3, <1>4 DEF StoresInv
<1>9. OffInv BY ZenonT(60), <1>2, <1>3, <1>4 DEF OffInv
<1>10. ReadersInv BY ZenonT(60) DEF ReadersInv, CacheInit, IdleRead
<1> QED BY ZenonT(60), <1>6, <1>7, <1>8, <1>9, <1>10 DEF CacheInv

LEMMA CacheInvStutter == ASSUME CacheConstants, CacheInv, UNCHANGED cacheVars PROVE CacheInv'
<1>1. /\ setup' = setup /\ db' = db /\ epoch' = epoch /\ cacheEpoch' = cacheEpoch /\ gate' = gate
      /\ cache' = cache /\ recent' = recent /\ limit' = limit /\ reload' = reload /\ flights' = flights
      /\ rd' = rd /\ wr' = wr /\ acked' = acked /\ settled' = settled
  BY ZenonT(60) DEF cacheVars
<1>2. CacheTypes' BY ZenonT(60), <1>1, SetsStay DEF CacheInv, CacheTypes
<1>3. ChangeInv' BY ZenonT(60), <1>1, SetsStay DEF CacheInv, ChangeInv, ChangeOK, Apart
<1>4. StoresInv' BY ZenonT(60), <1>1 DEF CacheInv, StoresInv, NotBehind, HalfDropped, RecentOK
<1>5. OffInv' BY ZenonT(60), <1>1 DEF CacheInv, OffInv
<1>6. ReadersInv' BY ZenonT(60), <1>1, ReadersUntouched
<1> QED BY ZenonT(60), <1>2, <1>3, <1>4, <1>5, <1>6 DEF CacheInv

LEMMA CacheInvNext == ASSUME CacheConstants, CacheInv, CacheNext PROVE CacheInv'
<1>1. ASSUME NEW r \in Readers, NEW f \in Files, NEW w \in setup.reads, StartRead(r, f, w[1], w[2])
      PROVE  CacheInv'
  BY ZenonT(60), <1>1, StartReadInv
<1>2. ASSUME NEW r \in Readers, ReadStep(r) PROVE CacheInv'
  <2>1. CASE LookupBypassed(r) BY ZenonT(60), <2>1, LookupBypassedInv
  <2>2. CASE LookupRange(r) BY ZenonT(60), <2>2, LookupRangeInv
  <2>3. CASE LookupRecent(r) BY ZenonT(60), <2>3, LookupRecentInv
  <2>4. CASE LookupCache(r) BY ZenonT(60), <2>4, LookupCacheInv
  <2>5. CASE FastMiss(r) BY ZenonT(60), <2>5, FastMissInv
  <2>6. CASE TakeStamp(r) BY ZenonT(60), <2>6, TakeStampInv
  <2>7. CASE TargetLooked(r) BY ZenonT(60), <2>7, TargetLookedInv
  <2>8. CASE Looked(r) BY ZenonT(60), <2>8, LookedInv
  <2>9. CASE AcquireFill(r) BY ZenonT(60), <2>9, AcquireInv
  <2>10. CASE FetchBlockRange(r) BY ZenonT(60), <2>10, FetchBlockRangeInv
  <2>11. CASE PublishIfCurrent(r) BY ZenonT(60), <2>11, PublishIfCurrentInv
  <2>12. CASE StoreReadBlocks(r) BY ZenonT(60), <2>12, StoreReadBlocksInv
  <2>13. CASE FinishDone(r) BY ZenonT(60), <2>13, FinishDoneInv
  <2>14. CASE FinishRemove(r) BY ZenonT(60), <2>14, FinishRemoveInv
  <2>15. CASE EndRead(r) BY ZenonT(60), <2>15, EndReadInv
  <2> QED BY ZenonT(60), <1>2, <2>1, <2>2, <2>3, <2>4, <2>5, <2>6, <2>7, <2>8, <2>9, <2>10, <2>11, <2>12, <2>13,
             <2>14, <2>15 DEF ReadStep
<1>3. ASSUME NEW r \in Readers, FetchFails(r) PROVE CacheInv' BY ZenonT(60), <1>3, FetchFailsInv
<1>4. ASSUME NEW w \in Writers, NEW kind \in setup.kinds, NEW f \in Files, NEW bs \in SUBSET Blocks,
             StartChange(w, kind, f, bs)
      PROVE  CacheInv'
  BY ZenonT(60), <1>4, StartChangeInv
<1>5. ASSUME NEW w \in Writers, ChangeStep(w) PROVE CacheInv'
  <2>1. CASE ChangeCommit(w) BY ZenonT(60), <2>1, ChangeCommitInv
  <2>2. CASE ChangeStoreRecent(w) BY ZenonT(60), <2>2, ChangeStoreRecentInv
  <2>3. CASE ClearReadCacheForFile(w) BY ZenonT(60), <2>3, ClearReadCacheForFileInv
  <2>4. CASE ClearRecentWriteBlocksForFile(w) BY ZenonT(60), <2>4, ClearRecentWriteBlocksForFileInv
  <2> QED BY ZenonT(60), <1>5, <2>1, <2>2, <2>3, <2>4 DEF ChangeStep
<1>6. ASSUME NEW k \in Keys, NEW row \in BOOLEAN, RemoteCommit(k, row) PROVE CacheInv'
  BY ZenonT(60), <1>6, RemoteCommitInv
<1>7. ASSUME NEW l \in setup.limits, ReloadSettings(l) PROVE CacheInv' BY ZenonT(60), <1>7, ReloadSettingsInv
<1>8. CASE InvalidateAll BY ZenonT(60), <1>8, InvalidateAllInv
<1> QED BY ZenonT(60), <1>1, <1>2, <1>3, <1>4, <1>5, <1>6, <1>7, <1>8 DEF CacheNext

\* The inductive invariant: stamps never run ahead of the epochs, rows under a
\* current stamp and every cached block are as new as what was answered, a recently
\* written block is as new as what is settled, and a read has nothing in hand that
\* is older than what it owes.
THEOREM CacheInvariant == ASSUME CacheConstants PROVE CacheSpec => []CacheInv
<1>1. CacheInit => CacheInv BY ZenonT(60), CacheInvInit
<1>2. CacheInv /\ [CacheNext]_cacheVars => CacheInv' BY ZenonT(60), CacheInvNext, CacheInvStutter
<1> QED BY <1>1, <1>2, PTL DEF CacheSpec

\* With any number of changes under way on any handles, the block cache is never
\* older than a change that was answered; every reply put together from hits,
\* recently written blocks and fetched rows is as new as the changes answered
\* before that met no other change of the block; and a cache that was turned off
\* stays empty (publish_if_current, clear_read_cache_for_file,
\* store_recent_write_blocks, apply_reloadable_runtime).
THEOREM CacheStaysCoherent == ASSUME CacheConstants PROVE CacheSpec => []CacheCoherent
<1>1. ASSUME CacheInv PROVE CacheCurrent
  <2>1. ASSUME NEW k \in DOMAIN cache.entries PROVE cache.entries[k] >= acked[k]
    <3>1. DOMAIN cache.entries \subseteq Keys /\ cache.entries \in [DOMAIN cache.entries -> Nat]
      BY ZenonT(60), <1>1, VersionsFacts DEF CacheInv, CacheTypes
    <3>2. acked[k] \in Nat /\ cache.entries[k] \in Nat BY ZenonT(60), <1>1, <3>1 DEF CacheInv, CacheTypes
    <3>3. acked[k] <= cache.entries[k] BY ZenonT(60), <1>1 DEF CacheInv, StoresInv
    <3> QED BY ZenonT(60), <3>2, <3>3
  <2> QED BY ZenonT(60), <2>1 DEF CacheCurrent
<1>2. ASSUME CacheInv PROVE ReadsCurrent
  <2>1. ASSUME NEW r \in Readers, rd[r].pc = "answered", NEW b \in DOMAIN rd[r].floor
        PROVE  rd[r].floor[b][2] >= rd[r].floor[b][1]
    <3>1. ReadOK(rd[r]) /\ Replied(rd[r]) BY ZenonT(60), <1>2, <2>1, ReaderRecord DEF Replied
    <3>2. rd[r].floor[b][1] <= rd[r].floor[b][2] BY ZenonT(60), <2>1, <3>1 DEF ReadOK, FloorOK
    <3> QED BY ZenonT(60), <3>2
  <2> QED BY ZenonT(60), <2>1 DEF ReadsCurrent
<1>3. ASSUME CacheInv PROVE DisabledStaysEmpty BY ZenonT(60), <1>3 DEF CacheInv, OffInv, DisabledStaysEmpty
<1>4. CacheInv => CacheCoherent BY ZenonT(60), <1>1, <1>2, <1>3 DEF CacheCoherent
<1> QED BY <1>4, CacheInvariant, PTL
=============================================================================
