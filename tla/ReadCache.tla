------------------------------- MODULE ReadCache -------------------------------
(***************************************************************************)
(* The block cache of one mount (read_cache.rs) and everything that runs   *)
(* against it: reads with their fill coordination, local content changes   *)
(* with their invalidation, commits of other mounts, and the reload of the *)
(* cache limit at run time.                                                *)
(*                                                                         *)
(* A block's content is the number of its last commit.  Steps are the      *)
(* critical sections: the generation gate, the recent-block lock and the   *)
(* lock of the block cache are held for one step each, except where the    *)
(* code holds one of them across another (fields gate and reload.pc).      *)
(***************************************************************************)
EXTENDS Integers, Sequences, FiniteSets, Functions

CONSTANTS Readers,     \* event threads of the mount that serve reads
          Writers,     \* and those that change content
          Setups,      \* what may run together, see CacheInit
          MaxCommits   \* commits per block

VARIABLES setup,       \* one of Setups, never changed:
                       \*   files, last     file ids; their blocks are 0..last
                       \*   lru, direct     eviction policy, fopen_direct_io
                       \*   reads           ranges of blocks that are read
                       \*   limits, reloads values and number of reloads of read_cache_blocks
                       \*   writers         those of Writers that change content
                       \*   changes, kinds  number and kinds of local changes
                       \*   remote          whether other mounts commit
          db,          \* content of every block: [v |-> commit, row |-> present]
          epoch,       \* FileCacheGenerationGate.files
          cacheEpoch,  \* FileCacheGenerationGate.cache_epoch
          gate,        \* the reader that publishes under the gate, or Nobody
          cache,       \* ReadBlockCache: order of the keys and their blocks
          recent,      \* recent_write_blocks
          limit,       \* read_cache_limit_blocks()
          reload,      \* the reload thread
          flights,     \* ReadFillCoordinator.flights
          rd,          \* the reads
          wr,          \* the local changes in progress
          changes,     \* local changes so far
          acked,       \* newest content of every block a local change was answered for
          settled      \* the same, of the changes that met no other change of the block

cacheVars == <<setup, db, epoch, cacheEpoch, gate, cache, recent, limit, reload,
               flights, rd, wr, changes, acked, settled>>

Files == setup.files
LastBlock == setup.last
Blocks == 0..LastBlock
Keys == Files \X Blocks
Nobody == "none"
Nothing == [k \in {} |-> 0]

\* What a setup may be: file ids and limits are numbers, a read asks for blocks
\* of the file.
CacheConstants ==
    /\ Nobody \notin Readers
    /\ \A s \in Setups :
          /\ s.files \subseteq Nat /\ s.last \in Nat /\ s.limits \subseteq Nat
          /\ \A w \in s.reads : w[1] \in 0..s.last /\ w[2] \in w[1]..s.last
          /\ s.kinds \subseteq {"flush", "punch", "buffer"}

Stamp(f) == <<epoch[f], cacheEpoch>>

EmptyCache == [order |-> <<>>, entries |-> Nothing]

Without(fun, S) == [k \in (DOMAIN fun) \ S |-> fun[k]]
With(new, old) == [k \in DOMAIN new \cup DOMAIN old |->
                        IF k \in DOMAIN new THEN new[k] ELSE old[k]]

\* The members of a set of numbers in ascending order.
Ascending(S) == CHOOSE s \in [1..Cardinality(S) -> S] : \A i, j \in DOMAIN s : i < j => s[i] < s[j]

\* A hit moves the key to the young end under "lru" only.
Get(c, k) ==
    IF setup.lru /\ k \in DOMAIN c.entries
    THEN [c EXCEPT !.order = Append(SelectSeq(c.order, LAMBDA j : j # k), k)]
    ELSE c

\* Looks every block of a range up; the hits count as uses in block order.
GetRange(c, f, bs) ==
    IF ~setup.lru THEN c
    ELSE LET hits == Ascending({b \in bs : <<f, b>> \in DOMAIN c.entries})
             keys == [i \in 1..Len(hits) |-> <<f, hits[i]>>]
         IN  [c EXCEPT !.order = SelectSeq(c.order, LAMBDA j : j \notin Range(keys)) \o keys]

\* Stores rows, a map from block to content, and evicts from the old end.
InsertMany(c, f, rows, lim) ==
    LET bs == Ascending(DOMAIN rows)
        keys == [i \in 1..Len(bs) |-> <<f, bs[i]>>]
        order == IF setup.lru
                 THEN SelectSeq(c.order, LAMBDA j : j \notin Range(keys)) \o keys
                 ELSE c.order \o SelectSeq(keys, LAMBDA j : j \notin DOMAIN c.entries)
        over == IF Len(order) > lim THEN Len(order) - lim ELSE 0
        all == With([k \in {<<f, b>> : b \in DOMAIN rows} |-> rows[k[2]]], c.entries)
    IN  [order |-> SubSeq(order, over + 1, Len(order)),
         entries |-> Without(all, Range(SubSeq(order, 1, over)))]

\* Mutant: the keys of the dropped blocks stay in the order.
ClearEntriesOnly(c, f) == [c EXCEPT !.entries = Without(c.entries, {k \in Keys : k[1] = f})]

ClearFile(c, f) ==
    [order |-> SelectSeq(c.order, LAMBDA k : k[1] # f),
     entries |-> Without(c.entries, {k \in Keys : k[1] = f})]

\* The flushed blocks enter the map of recently written blocks, which keeps
\* as many entries as the flushed file has blocks and drops the lowest keys.
StoreRecentWriteBlocks(rec, f, rows) ==
    LET all == With([k \in {<<f, b>> : b \in DOMAIN rows} |-> rows[k[2]]], rec)
        keep == IF limit = 0 THEN 0 ELSE LastBlock + 1
        Lower(k) == {j \in DOMAIN all : j[1] < k[1] \/ (j[1] = k[1] /\ j[2] < k[2])}
    IN  Without(all, {k \in DOMAIN all : Cardinality(Lower(k)) + keep < Cardinality(DOMAIN all)})

-----------------------------------------------------------------------------
IdleRead == [pc |-> "idle"]
IdleWrite == [pc |-> "idle", kind |-> Nobody]

CacheInit ==
    /\ setup \in Setups
    /\ db = [k \in Keys |-> [v |-> 0, row |-> TRUE]]
    /\ epoch = [f \in Files |-> 0]
    /\ cacheEpoch = 0
    /\ gate = Nobody
    /\ cache = EmptyCache
    /\ recent = Nothing
    /\ limit \in setup.limits
    /\ reload = [pc |-> "idle", n |-> 0]
    /\ flights = {}
    /\ rd = [r \in Readers |-> IdleRead]
    /\ wr = [w \in Writers |-> IdleWrite]
    /\ changes = 0
    /\ acked = [k \in Keys |-> 0]
    /\ settled = [k \in Keys |-> 0]

\* store_recent_write_blocks and recent_write_block wait for the reload thread,
\* which keeps the lock from the new settings to the end of its clearing.
RecentUnlocked == reload.pc = "idle"
GateFree == gate = Nobody

Reading == <<setup, db, epoch, cacheEpoch, recent, limit, reload, wr, changes, acked, settled>>

\* fs.rs read: blocks first..last of f, looked up in the caches first.
StartRead(r, f, first, last) ==
    /\ rd[r].pc = "idle"
    /\ rd' = [rd EXCEPT ![r] =
                [pc |-> "fast", file |-> f, first |-> first, last |-> last,
                 lo |-> first, hi |-> last, left |-> first..last, in |-> "recent",
                 got |-> Nothing, want |-> {}, fetched |-> Nothing,
                 stamp |-> <<>>, own |-> FALSE, next |-> Nobody, on |-> Nobody, lim |-> 0,
                 floor |-> [b \in first..last |-> settled[<<f, b>>]]]]
    /\ UNCHANGED <<Reading, gate, cache, flights>>

\* A lookup: left holds the blocks not looked up yet, got the hits.
Looking(r) == rd[r].pc \in {"fast", "target", "look", "relook"} /\ rd[r].left # {}

\* No block is found while the limit is zero, whatever is still resident.
LookupBypassed(r) ==
    /\ Looking(r)
    /\ limit = 0
    /\ rd[r].in = "recent"
    /\ rd' = [rd EXCEPT ![r].left = {}]
    /\ UNCHANGED <<Reading, gate, cache, flights>>

\* Without recently written blocks a range is taken under one lock.
LookupRange(r) ==
    LET f == rd[r].file
        hits == {b \in rd[r].left : <<f, b>> \in DOMAIN cache.entries}
    IN  /\ Looking(r)
        /\ limit > 0
        /\ DOMAIN recent = {}
        /\ rd[r].in = "recent"
        /\ rd' = [rd EXCEPT ![r].left = {},
                            ![r].got = With([b \in hits |-> cache.entries[<<f, b>>]], @)]
        /\ cache' = GetRange(cache, f, rd[r].left)
        /\ UNCHANGED <<Reading, gate, flights>>

NextBlock(r) == CHOOSE b \in rd[r].left : \A c \in rd[r].left : b <= c

\* With them, block by block: the recently written block ...
LookupRecent(r) ==
    LET b == NextBlock(r)
        k == <<rd[r].file, b>>
    IN  /\ Looking(r)
        /\ limit > 0
        /\ DOMAIN recent # {}
        /\ RecentUnlocked
        /\ rd[r].in = "recent"
        /\ rd' = IF k \in DOMAIN recent
                 THEN [rd EXCEPT ![r].left = @ \ {b}, ![r].got = With([c \in {b} |-> recent[k]], @)]
                 ELSE [rd EXCEPT ![r].in = "cache"]
        /\ UNCHANGED <<Reading, gate, cache, flights>>

\* ... and then the cached one.
LookupCache(r) ==
    LET b == NextBlock(r)
        k == <<rd[r].file, b>>
    IN  /\ Looking(r)
        /\ rd[r].in = "cache"
        /\ rd' = [rd EXCEPT ![r].left = @ \ {b}, ![r].in = "recent",
                            ![r].got = IF k \in DOMAIN cache.entries
                                       THEN With([c \in {b} |-> cache.entries[k]], @) ELSE @]
        /\ cache' = Get(cache, k)
        /\ UNCHANGED <<Reading, gate, flights>>

Found(r) == rd[r].pc \in {"fast", "target", "look", "relook"} /\ rd[r].left = {}
Missing(r) == (rd[r].lo..rd[r].hi) \ DOMAIN rd[r].got

\* The lease of a fill is dropped on every way out of a round.
Leave(r, to) ==
    LET round == [rd[r] EXCEPT !.got = Nothing, !.fetched = Nothing, !.want = {},
                               !.left = {}, !.stamp = <<>>, !.lim = 0]
    IN  IF rd[r].own THEN [round EXCEPT !.pc = "finish", !.next = to]
                     ELSE [round EXCEPT !.pc = to]

\* The blocks of a reply.  A single block is the hit if there was one; a range
\* is assembled from the hits overwritten by the fetched rows; a block without
\* a row reads as zeros.
Answer(r) ==
    LET got == rd[r].got
        fetched == rd[r].fetched
        rows == {b \in DOMAIN fetched : fetched[b].row}
        hitFirst == rd[r].first = rd[r].last
    IN  [b \in rd[r].first..rd[r].last |->
            CASE b \in DOMAIN got /\ (hitFirst \/ b \notin rows) -> got[b]
              [] OTHER -> fetched[b].v]

Reply(r) ==
    [Leave(r, "answered") EXCEPT !.floor = [b \in DOMAIN rd[r].floor |-> <<rd[r].floor[b], Answer(r)[b]>>]]

\* The range of blocks a miss asks for: the whole of a small file, or the blocks
\* read and as much read-ahead as the cache holds.
FetchBounds(first, last) ==
    {<<0, LastBlock>>} \cup
    {<<first, h>> : h \in {h \in last..LastBlock : h = last \/ h - last <= limit - 1}}

FastMiss(r) ==
    /\ Found(r)
    /\ rd[r].pc = "fast"
    /\ IF Missing(r) = {}
       THEN rd' = [rd EXCEPT ![r] = Reply(r)]
       ELSE \E w \in FetchBounds(rd[r].first, rd[r].last) :
                rd' = [rd EXCEPT ![r] = [Leave(r, "top") EXCEPT !.lo = w[1], !.hi = w[2]]]
    /\ UNCHANGED <<Reading, gate, cache, flights>>

\* A round: the stamp is taken before the lookups.
TakeStamp(r) ==
    /\ rd[r].pc \in {"top", "owned"}
    /\ GateFree
    /\ LET pc == CASE rd[r].pc = "owned" -> "relook"
                   [] rd[r].pc = "top" /\ setup.direct /\ rd[r].first = rd[r].last -> "target"
                   [] OTHER -> "look"
       IN  rd' = [rd EXCEPT ![r].pc = pc, ![r].stamp = Stamp(rd[r].file),
                            ![r].left = IF pc = "target" THEN {rd[r].first}
                                        ELSE rd[r].lo..rd[r].hi,
                            ![r].in = "recent", ![r].got = Nothing, ![r].fetched = Nothing]
    /\ UNCHANGED <<Reading, gate, cache, flights>>

\* Mutant: what the first lookup found is used without looking at the stamp again.
IsCurrentAlways(r) == TRUE

IsCurrent(r) == rd[r].stamp = Stamp(rd[r].file)

\* read_block_map_target_block: the block alone, and then the range with it
\* under the same stamp.
TargetLooked(r) ==
    /\ Found(r)
    /\ rd[r].pc = "target"
    /\ rd' = [rd EXCEPT ![r] =
                CASE DOMAIN rd[r].got = {} -> [rd[r] EXCEPT !.pc = "look", !.left = rd[r].lo..rd[r].hi]
                  [] DOMAIN rd[r].got # {} /\ IsCurrent(r) -> Reply(r)
                  [] OTHER -> Leave(r, "top")]
    /\ (DOMAIN rd[r].got # {} => GateFree)
    /\ UNCHANGED <<Reading, gate, cache, flights>>

\* One statement from the first missing block to the last, or one for every
\* contiguous range of them when there are enough workers.
FetchPlans(missing) ==
    {missing, {b \in Blocks : \E c, d \in missing : c <= b /\ b <= d}}

Looked(r) ==
    /\ Found(r)
    /\ rd[r].pc \in {"look", "relook"}
    /\ GateFree
    /\ CASE ~IsCurrent(r) -> rd' = [rd EXCEPT ![r] = Leave(r, "top")]
         [] IsCurrent(r) /\ Missing(r) = {} -> rd' = [rd EXCEPT ![r] = Reply(r)]
         [] IsCurrent(r) /\ Missing(r) # {} /\ rd[r].pc = "look" /\ ~setup.direct ->
                rd' = [rd EXCEPT ![r].pc = "acquire"]
         [] OTHER -> \E plan \in FetchPlans(Missing(r)) :
                rd' = [rd EXCEPT ![r].pc = "fetch", ![r].want = plan]
    /\ UNCHANGED <<Reading, gate, cache, flights>>

\* Becomes the owner of the fill, or waits for one that overlaps it.
AcquireFill(r) ==
    LET other == {x \in flights : x.file = rd[r].file /\ x.blocks \cap Missing(r) # {}}
    IN  /\ rd[r].pc = "acquire"
        /\ IF other = {}
           THEN /\ flights' = flights \cup {[owner |-> r, file |-> rd[r].file,
                                             blocks |-> Missing(r), done |-> FALSE]}
                /\ rd' = [rd EXCEPT ![r].pc = "owned", ![r].own = TRUE]
           ELSE /\ UNCHANGED flights
                /\ \E x \in other :
                      rd' = [rd EXCEPT ![r] = IF x.done THEN Leave(r, "top")
                                              ELSE [Leave(r, "waiting") EXCEPT !.on = x.owner]]
        /\ UNCHANGED <<Reading, gate, cache>>

\* One statement: a contiguous range of the blocks still wanted.
FetchBlockRange(r) ==
    /\ rd[r].pc = "fetch"
    /\ \E lo, hi \in rd[r].want :
          /\ lo..hi \subseteq rd[r].want
          /\ {lo - 1, hi + 1} \cap rd[r].want = {}
          /\ rd' = [rd EXCEPT ![r].want = @ \ (lo..hi),
                              ![r].fetched = With([b \in lo..hi |-> db[<<rd[r].file, b>>]], @),
                              ![r].pc = IF rd[r].want = lo..hi THEN "publish" ELSE @]
    /\ UNCHANGED <<Reading, gate, cache, flights>>

\* A failed statement answers EIO.
FetchFails(r) ==
    /\ rd[r].pc = "fetch"
    /\ rd' = [rd EXCEPT ![r] = Leave(r, "failed")]
    /\ UNCHANGED <<Reading, gate, cache, flights>>

\* Mutant: the fetched rows are stored whatever happened since the stamp.
PublishAlways(r) ==
    /\ rd[r].pc = "publish"
    /\ GateFree
    /\ gate' = r
    /\ rd' = [rd EXCEPT ![r].pc = "insert", ![r].lim = limit]
    /\ UNCHANGED <<Reading, cache, flights>>

\* publish_if_current: the gate is taken and kept if the stamp still holds.
PublishIfCurrent(r) ==
    /\ rd[r].pc = "publish"
    /\ GateFree
    /\ IF IsCurrent(r)
       THEN gate' = r /\ rd' = [rd EXCEPT ![r].pc = "insert", ![r].lim = limit]
       ELSE UNCHANGED gate /\ rd' = [rd EXCEPT ![r] = Leave(r, "top")]
    /\ UNCHANGED <<Reading, cache, flights>>

StoreReadBlocks(r) ==
    LET fetched == rd[r].fetched
        rows == [b \in {b \in DOMAIN fetched : fetched[b].row} |-> fetched[b].v]
    IN  /\ rd[r].pc = "insert"
        /\ cache' = IF rd[r].lim = 0 THEN cache ELSE InsertMany(cache, rd[r].file, rows, rd[r].lim)
        /\ gate' = Nobody
        /\ rd' = [rd EXCEPT ![r] = Reply(r)]
        /\ UNCHANGED <<Reading, flights>>

\* Mutant: a fill that ends wakes nobody.
FinishSilently(r) ==
    /\ rd[r].pc = "finish"
    /\ rd' = [rd EXCEPT ![r].pc = "remove"]
    /\ flights' = {IF x.owner = r THEN [x EXCEPT !.done = TRUE] ELSE x : x \in flights}
    /\ UNCHANGED <<Reading, gate, cache>>

\* The end of a fill: done is set, which every waiter sees ...
FinishDone(r) ==
    /\ rd[r].pc = "finish"
    /\ rd' = [q \in Readers |->
                CASE q = r -> [rd[r] EXCEPT !.pc = "remove"]
                  [] q # r /\ rd[q].pc = "waiting" /\ rd[q].on = r ->
                        [rd[q] EXCEPT !.pc = "top", !.on = Nobody]
                  [] OTHER -> rd[q]]
    /\ flights' = {IF x.owner = r THEN [x EXCEPT !.done = TRUE] ELSE x : x \in flights}
    /\ UNCHANGED <<Reading, gate, cache>>

\* ... and then the flight is removed.
FinishRemove(r) ==
    /\ rd[r].pc = "remove"
    /\ flights' = {x \in flights : x.owner # r}
    /\ rd' = [rd EXCEPT ![r].pc = rd[r].next, ![r].own = FALSE, ![r].next = Nobody]
    /\ UNCHANGED <<Reading, gate, cache>>

EndRead(r) ==
    /\ rd[r].pc \in {"answered", "failed"}
    /\ rd' = [rd EXCEPT ![r] = IdleRead]
    /\ UNCHANGED <<Reading, gate, cache, flights>>

-----------------------------------------------------------------------------
\* Local content changes.  "flush" persists dirty blocks; "punch" is fallocate,
\* or the adoption of another data object; "buffer" is a write that is only
\* buffered.  Each holds the lock of its own handle, so several may be under way.
\* sole is the blocks of which no other change has been under way since it began.
FirstStep(kind) == IF kind = "buffer" THEN "clear" ELSE "commit"

Meets(c, f, bs) == IF c.pc # "idle" /\ c.file = f THEN c.blocks \cap bs ELSE {}

StartChange(w, kind, f, bs) ==
    /\ wr[w].pc = "idle"
    /\ w \in setup.writers
    /\ changes < setup.changes
    /\ changes' = changes + 1
    /\ \A b \in bs : db[<<f, b>>].v < MaxCommits
    /\ wr' = [u \in Writers |->
                IF u = w THEN [pc |-> FirstStep(kind), kind |-> kind, file |-> f, blocks |-> bs, vers |-> Nothing,
                               sole |-> {b \in bs : \A o \in Writers : b \notin Meets(wr[o], f, bs)}]
                ELSE IF Meets(wr[u], f, bs) = {} THEN wr[u]
                ELSE [wr[u] EXCEPT !.sole = @ \ bs]]
    /\ UNCHANGED <<setup, db, epoch, cacheEpoch, gate, cache, recent, limit, reload, flights, rd, acked, settled>>

\* The change is answered.
Changed(w, k) == k[1] = wr[w].file /\ k[2] \in DOMAIN wr[w].vers

ChangeDone(w) ==
    /\ acked' = [k \in Keys |-> IF Changed(w, k) /\ wr[w].vers[k[2]] > acked[k] THEN wr[w].vers[k[2]] ELSE acked[k]]
    /\ settled' = [k \in Keys |-> IF Changed(w, k) /\ k[2] \in wr[w].sole THEN wr[w].vers[k[2]] ELSE settled[k]]
    /\ wr' = [wr EXCEPT ![w] = IdleWrite]

ChangeCommit(w) ==
    LET ks == {<<wr[w].file, b>> : b \in wr[w].blocks}
    IN  /\ wr[w].pc = "commit"
        /\ \A k \in ks : db[k].v < MaxCommits
        /\ db' = [k \in Keys |-> IF k \in ks THEN [v |-> db[k].v + 1, row |-> wr[w].kind = "flush"]
                                             ELSE db[k]]
        /\ wr' = [wr EXCEPT ![w].pc = IF wr[w].kind = "flush" THEN "recent" ELSE "clear",
                            ![w].vers = [b \in wr[w].blocks |-> db[<<wr[w].file, b>>].v + 1]]
        /\ UNCHANGED <<setup, epoch, cacheEpoch, gate, cache, recent, limit, reload, flights, rd, changes, acked, settled>>

\* The blocks as they were committed, over newer ones of a change that overtook it.
ChangeStoreRecent(w) ==
    /\ wr[w].pc = "recent"
    /\ RecentUnlocked
    /\ recent' = StoreRecentWriteBlocks(recent, wr[w].file, wr[w].vers)
    /\ wr' = [wr EXCEPT ![w].pc = "clear"]
    /\ UNCHANGED <<setup, db, epoch, cacheEpoch, gate, cache, limit, reload, flights, rd, changes, acked, settled>>

\* Mutant: the blocks are dropped without a new epoch.
ClearWithoutEpoch(w) ==
    /\ wr[w].pc = "clear"
    /\ GateFree
    /\ cache' = ClearFile(cache, wr[w].file)
    /\ IF wr[w].kind = "punch"
       THEN wr' = [wr EXCEPT ![w].pc = "clearRecent"] /\ UNCHANGED <<acked, settled>>
       ELSE ChangeDone(w)
    /\ UNCHANGED <<setup, db, epoch, cacheEpoch, gate, recent, limit, reload, flights, rd, changes>>

\* clear_read_cache_for_file: a new epoch and no block of the file, under the gate.
ClearReadCacheForFile(w) ==
    /\ wr[w].pc = "clear"
    /\ GateFree
    /\ epoch' = [epoch EXCEPT ![wr[w].file] = @ + 1]
    /\ cache' = ClearFile(cache, wr[w].file)
    /\ IF wr[w].kind = "punch"
       THEN wr' = [wr EXCEPT ![w].pc = "clearRecent"] /\ UNCHANGED <<acked, settled>>
       ELSE ChangeDone(w)
    /\ UNCHANGED <<setup, db, cacheEpoch, gate, recent, limit, reload, flights, rd, changes>>

ClearRecentWriteBlocksForFile(w) ==
    /\ wr[w].pc = "clearRecent"
    /\ RecentUnlocked
    /\ recent' = Without(recent, {k \in Keys : k[1] = wr[w].file})
    /\ ChangeDone(w)
    /\ UNCHANGED <<setup, db, epoch, cacheEpoch, gate, cache, limit, reload, flights, rd, changes>>

\* A commit of another mount; nothing tells this one.
RemoteCommit(k, row) ==
    /\ setup.remote
    /\ db[k].v < MaxCommits
    /\ db' = [db EXCEPT ![k] = [v |-> db[k].v + 1, row |-> row]]
    /\ UNCHANGED <<setup, epoch, cacheEpoch, gate, cache, recent, limit, reload, flights, rd, wr, changes, acked, settled>>

\* apply_reloadable_runtime: the recent-block lock is held to the end.
ReloadSettings(l) ==
    /\ reload.pc = "idle"
    /\ reload.n < setup.reloads
    /\ l # limit
    /\ limit' = l
    /\ reload' = [pc |-> IF limit > 0 /\ l = 0 THEN "clear" ELSE "idle", n |-> reload.n + 1]
    /\ UNCHANGED <<setup, db, epoch, cacheEpoch, gate, cache, recent, flights, rd, wr, changes, acked, settled>>

InvalidateAll ==
    /\ reload.pc = "clear"
    /\ GateFree
    /\ cacheEpoch' = cacheEpoch + 1
    /\ cache' = EmptyCache
    /\ recent' = Nothing
    /\ reload' = [reload EXCEPT !.pc = "idle"]
    /\ UNCHANGED <<setup, db, epoch, gate, limit, flights, rd, wr, changes, acked, settled>>

-----------------------------------------------------------------------------
ReadStep(r) ==
    \/ LookupBypassed(r) \/ LookupRange(r) \/ LookupRecent(r) \/ LookupCache(r)
    \/ FastMiss(r) \/ TakeStamp(r) \/ TargetLooked(r) \/ Looked(r) \/ AcquireFill(r)
    \/ FetchBlockRange(r) \/ PublishIfCurrent(r) \/ StoreReadBlocks(r)
    \/ FinishDone(r) \/ FinishRemove(r) \/ EndRead(r)

ChangeStep(w) ==
    \/ ChangeCommit(w) \/ ChangeStoreRecent(w)
    \/ ClearReadCacheForFile(w) \/ ClearRecentWriteBlocksForFile(w)

CacheNext ==
    \/ \E r \in Readers :
          \/ \E f \in Files, w \in setup.reads : StartRead(r, f, w[1], w[2])
          \/ ReadStep(r)
          \/ FetchFails(r)
    \/ \E w \in Writers :
          \/ \E kind \in setup.kinds, f \in Files, bs \in SUBSET Blocks :
                (kind = "buffer" <=> bs = {}) /\ StartChange(w, kind, f, bs)
          \/ ChangeStep(w)
    \/ \E k \in Keys, row \in BOOLEAN : RemoteCommit(k, row)
    \/ \E l \in setup.limits : ReloadSettings(l)
    \/ InvalidateAll

\* The threads run: a mutex or condition variable that is free is taken in the end.
CacheFairness ==
    /\ \A r \in Readers : WF_cacheVars(ReadStep(r))
    /\ \A w \in Writers : WF_cacheVars(ChangeStep(w))
    /\ WF_cacheVars(InvalidateAll)

CacheSpec == CacheInit /\ [][CacheNext]_cacheVars /\ CacheFairness

-----------------------------------------------------------------------------
NoNewRead == \A r \in Readers : rd[r].pc = "idle" => rd'[r].pc = "idle"

CacheTypeOK ==
    /\ \A k \in Keys : db[k].v \in 0..MaxCommits /\ acked[k] \in 0..db[k].v /\ settled[k] \in 0..acked[k]
    /\ Range(cache.order) = DOMAIN cache.entries
    /\ Len(cache.order) = Cardinality(DOMAIN cache.entries)
    /\ DOMAIN recent \subseteq Keys
    /\ gate \in Readers \cup {Nobody}
    /\ \A r \in Readers : (gate = r) <=> (rd[r].pc = "insert")
    /\ \A r \in Readers : rd[r].pc # "idle" =>
          (rd[r].own <=> \E x \in flights : x.owner = r)

\* A cached block is never older than any local change of it that was
\* answered: a fill that fetched its rows before the change does not store them
\* after the invalidation (publish_if_current, clear_read_cache_for_file).
CacheCurrent ==
    \A k \in DOMAIN cache.entries : cache.entries[k] >= acked[k]

\* A read returns every block at least as new as it was made by the last local
\* change answered before the read began, if no other change of the block was under
\* way with that one; hits, recently written blocks and fetched rows from different
\* moments are combined in the reply.  Of two changes under way together the older
\* may stay among the recently written blocks (store_recent_write_blocks).
ReadsCurrent ==
    \A r \in Readers : rd[r].pc = "answered" =>
        \A b \in DOMAIN rd[r].floor : rd[r].floor[b][2] >= rd[r].floor[b][1]

\* Once a reload has turned the cache off nothing is resident, and no fill or
\* flush that was under way brings a block back (apply_reloadable_runtime).
DisabledStaysEmpty ==
    limit = 0 /\ reload.pc = "idle" => DOMAIN cache.entries = {} /\ DOMAIN recent = {}

\* With any number of changes under way, the block cache is never older than a change
\* that was answered, a read never older than one that met no other change of the
\* block, and a cache that was turned off stays empty (publish_if_current,
\* clear_read_cache_for_file, apply_reloadable_runtime).
CacheCoherent == CacheCurrent /\ ReadsCurrent /\ DisabledStaysEmpty

\* Every read is answered once no new reads arrive: a waiter is woken by the fill
\* it waits for, also when that fill fails, and the rounds a fill loses to
\* invalidations end with them (ReadFillCoordinator, read_block_map).  While new
\* reads keep coming a waiter may lose every round to them.
ReadsFinish ==
    <>[][NoNewRead]_cacheVars
        => \A r \in Readers : []<>(rd[r].pc = "idle")
=============================================================================
