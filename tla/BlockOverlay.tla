---------------------------- MODULE BlockOverlay ----------------------------
(***************************************************************************)
(* The algorithms behind a buffered file write: how a byte range is laid   *)
(* over fixed-size blocks, what a truncation does to the block at the end  *)
(* of the file, which blocks a flush stores and in which form, and how a   *)
(* read puts the layers together again.                                    *)
(*                                                                         *)
(* A block is a sequence of at most BlockSize bytes.  A block map is a     *)
(* function from a set of block numbers to blocks.  A write state (one     *)
(* buffer of one open handle) is a record                                  *)
(*   size     the file size the handle believes in (file_size)             *)
(*   trunc    a truncation is still to be stored (truncate_pending)        *)
(*   buffered bytes taken since the last flush, capped at BufferedCap      *)
(*   blocks   the dirty blocks (payload)                                   *)
(* The stored file is a record with its size and the rows of data_blocks.  *)
(***************************************************************************)
EXTENDS Integers, Sequences, FiniteSets, TLC, Functions

CONSTANTS
    BlockSize,      \* bytes of a block (block_size)
    BufferedCap     \* bound: beyond so many bytes two counts are not told apart

MinOf(a, b) == IF a < b THEN a ELSE b
MaxOf(a, b) == IF a > b THEN a ELSE b

NoBlocks == [i \in {} |-> <<>>]

BlockOf(p) == p \div BlockSize
BlockCount(size) == (size + BlockSize - 1) \div BlockSize

\* Vec::resize: cut, or fill up with zero bytes.
Resize(b, n) == [k \in 1..n |-> IF k <= Len(b) THEN b[k] ELSE 0]
ZeroBlock == Resize(<<>>, BlockSize)
IsZero(b) == \A k \in DOMAIN b : b[k] = 0

NewWriteState(size, trunc) ==
    [size |-> size, trunc |-> trunc, buffered |-> 0, blocks |-> NoBlocks]

HasPendingChanges(s) == s.trunc \/ s.buffered > 0 \/ s.blocks # NoBlocks

-----------------------------------------------------------------------------
\* Writing into the buffer.

\* The dirty block, else the recently flushed one, else the stored row.
LoadWriteBlock(s, recent, rows, i) ==
    CASE i \in DOMAIN s.blocks -> s.blocks[i]
      [] i \notin DOMAIN s.blocks /\ i \in DOMAIN recent -> recent[i]
      [] i \notin DOMAIN s.blocks \cup DOMAIN recent /\ i \in DOMAIN rows -> rows[i]
      [] OTHER -> ZeroBlock

\* data is written at offset off: every touched block is taken whole from
\* data, from the buffer, as zeroes (a new block written from its start) or
\* loaded, and then patched.
UpdateWriteBuffer(s, recent, rows, off, data) ==
    LET end     == off + Len(data)
        touched == BlockOf(off)..BlockOf(end - 1)
        Base(i) ==
            IF /\ i \notin DOMAIN s.blocks
               /\ i * BlockSize >= s.size /\ off <= i * BlockSize
            THEN ZeroBlock
            ELSE Resize(LoadWriteBlock(s, recent, rows, i), BlockSize)
        Patched(i) ==
            [k \in 1..BlockSize |->
                LET p == i * BlockSize + k - 1
                IN  IF off <= p /\ p < end THEN data[p - off + 1] ELSE Base(i)[k]]
    IN  [s EXCEPT !.size   = MaxOf(s.size, end),
                  !.blocks = [i \in touched |-> Patched(i)] @@ s.blocks]

\* The update has to fetch a stored row: a touched block that is neither
\* written in full, nor at hand, nor new and written from its start.
NeedsRow(s, recent, off, data) ==
    LET end == off + Len(data)
    IN  \E i \in BlockOf(off)..BlockOf(end - 1) :
            /\ i \notin DOMAIN s.blocks \cup DOMAIN recent
            /\ off > i * BlockSize \/ (end < (i + 1) * BlockSize /\ i * BlockSize < s.size)

CountBuffered(s, n) == [s EXCEPT !.buffered = MinOf(s.buffered + n, BufferedCap)]

\* The buffer of another handle of the same file is laid over this one.
MergeWriteState(target, source) ==
    LET cut == IF source.trunc
               THEN [target EXCEPT
                        !.trunc  = TRUE,
                        !.size   = source.size,
                        !.blocks = Restrict(target.blocks,
                            {i \in DOMAIN target.blocks : i * BlockSize < source.size})]
               ELSE [target EXCEPT !.size = MaxOf(target.size, source.size)]
    IN  CountBuffered([cut EXCEPT !.blocks = source.blocks @@ cut.blocks],
                      source.buffered)

\* flushBytes is write_flush_threshold_bytes; 0 switches it off.
ShouldFlush(s, openHandles, flushBytes) ==
    \/ flushBytes > 0 /\ s.buffered >= flushBytes
    \/ openHandles > 1

-----------------------------------------------------------------------------
\* Truncation: the block that holds the end of the file.

\* A block that is neither dirty nor stored stays absent.
ResizeExistingBlock(s, recent, rows, i, n) ==
    IF i \in DOMAIN s.blocks \cup DOMAIN recent \cup DOMAIN rows
    THEN [s EXCEPT !.blocks =
            (i :> Resize(LoadWriteBlock(s, recent, rows, i), n)) @@ s.blocks]
    ELSE s

TrimAtEof(s, recent, rows) ==
    IF s.size % BlockSize = 0 THEN s
    ELSE ResizeExistingBlock(s, recent, rows, BlockOf(s.size), s.size % BlockSize)

\* The old last block keeps its bytes up to the old end and is filled with
\* zeroes up to the new end, or to its own end.
ZeroExtendFromEof(s, recent, rows, oldSize) ==
    LET i    == BlockOf(oldSize)
        keep == oldSize % BlockSize
    IN  IF keep = 0 \/ i \notin DOMAIN s.blocks \cup DOMAIN recent \cup DOMAIN rows
        THEN s
        ELSE LET cut == Resize(LoadWriteBlock(s, recent, rows, i), keep)
                 n   == MinOf(s.size - i * BlockSize, BlockSize)
             IN  [s EXCEPT !.blocks = (i :> Resize(cut, n)) @@ s.blocks]

PrepareTruncateBoundary(s, recent, db) ==
    CASE ~s.trunc -> s
      [] s.trunc /\ s.blocks # NoBlocks -> TrimAtEof(s, recent, db.rows)
      [] s.trunc /\ s.blocks = NoBlocks /\ s.size > db.size ->
            ZeroExtendFromEof(s, recent, db.rows, db.size)
      [] OTHER -> TrimAtEof(s, recent, db.rows)

-----------------------------------------------------------------------------
\* Storing a flushed buffer.

\* Mutant: the block that holds the end of the file is left out.
PlanOneShort(s) ==
    Restrict(s.blocks, {i \in DOMAIN s.blocks : i < BlockCount(s.size) - 1})

\* The dirty blocks below the new end of the file.
PersistBlockPlan(s) ==
    Restrict(s.blocks, {i \in DOMAIN s.blocks : i < BlockCount(s.size)})

\* How much of block i the file uses.
UsedLen(s, i) == MinOf(s.size - i * BlockSize, BlockSize)

\* The plan names every block of the file: a fresh data object takes them.
CoversFullFile(s) == DOMAIN PersistBlockPlan(s) = 0..(BlockCount(s.size) - 1) /\ s.size > 0

\* The staging transport pads a block and stores an all-zero one as a hole;
\* the direct ones delete the row of a block the file does not use in full.
PersistBlocks(s, db, staging) ==
    LET plan == PersistBlockPlan(s)
        kept == CASE CoversFullFile(s) -> {}
                  [] ~CoversFullFile(s) /\ s.trunc ->
                        {i \in DOMAIN db.rows : i < BlockCount(s.size)}
                  [] OTHER -> DOMAIN db.rows
        stored == {i \in DOMAIN plan :
                        IF staging THEN ~IsZero(plan[i]) ELSE UsedLen(s, i) = BlockSize}
    IN  [size |-> s.size,
         rows |-> [i \in stored |-> Resize(plan[i], BlockSize)]
                    @@ Restrict(db.rows, kept \ DOMAIN plan)]

\* The flushed blocks become the recently written ones, the lowest numbers
\* make room when there are too many.
StoreRecent(recent, s, limit) ==
    LET total == BlockCount(s.size)
        old   == IF s.trunc \/ total = 0
                 THEN Restrict(recent, {i \in DOMAIN recent : i < total})
                 ELSE recent
        all   == Restrict(s.blocks, {i \in DOMAIN s.blocks : i < total}) @@ old
        over  == Cardinality(DOMAIN all) - MinOf(total, limit)
    IN  Restrict(all, {i \in DOMAIN all :
                            Cardinality({j \in DOMAIN all : j < i}) >= over})

\* What flush_write_state leaves of the buffer.
Flushed(s) == [s EXCEPT !.trunc = FALSE, !.buffered = 0, !.blocks = NoBlocks]

\* fallocate(PUNCH_HOLE | KEEP_SIZE) on the stored rows.
PunchRows(db, off, n) ==
    LET end == MinOf(off + n, db.size)
        Punched(i) ==
            [k \in 1..BlockSize |->
                LET p == i * BlockSize + k - 1
                IN  IF off <= p /\ p < end THEN 0 ELSE db.rows[i][k]]
        touched == IF off < end THEN BlockOf(off)..BlockOf(end - 1) ELSE {}
        left    == {i \in DOMAIN db.rows : i \in touched => ~IsZero(Punched(i))}
    IN  [db EXCEPT !.rows = [i \in left |-> IF i \in touched THEN Punched(i)
                                            ELSE db.rows[i]]]

-----------------------------------------------------------------------------
\* Reading.  A read ends well with its bytes, or fails with none.

Result(how, data) == [how |-> how, data |-> data]
SliceOutOfBounds == Result("panic", <<>>)
TargetBlockTooShort == Result("EIO", <<>>)

ByteAt(block, k) == IF k <= Len(block) THEN block[k] ELSE 0

\* The bytes off..end-1 of a map of the blocks they lie in.
AssembleSlice(off, end, blocks) ==
    [k \in 1..(end - off) |->
        LET p == off + k - 1
        IN  ByteAt(blocks[BlockOf(p)], (p % BlockSize) + 1)]

BlocksOf(off, end) == BlockOf(off)..BlockOf(end - 1)

\* Mutant: the handle's own dirty blocks are passed over.
ReadPastBuffer(s, recent, rows, off, n) ==
    LET end == MinOf(off + n, s.size)
        blocks == [i \in BlocksOf(off, end) |->
                        LoadWriteBlock(NewWriteState(0, FALSE), recent, rows, i)]
    IN  Result("ok", IF off < s.size THEN AssembleSlice(off, end, blocks) ELSE <<>>)

\* A read through a handle that holds a write state.  One block is sliced
\* without looking at its length.
ReadFromWriteState(s, recent, rows, off, n) ==
    LET end == MinOf(off + n, s.size)
        blocks == [i \in BlocksOf(off, end) |-> LoadWriteBlock(s, recent, rows, i)]
        one == BlockOf(off) = BlockOf(end - 1)
    IN  CASE off >= s.size -> Result("ok", <<>>)
          [] off < s.size /\ one
             /\ end - BlockOf(off) * BlockSize > Len(blocks[BlockOf(off)]) -> SliceOutOfBounds
          [] OTHER -> Result("ok", AssembleSlice(off, end, blocks))

\* A read without one: the recently written block, else the stored row.
ReadFromRepo(db, recent, off, n) ==
    LET end == MinOf(off + n, db.size)
        blocks == [i \in BlocksOf(off, end) |->
                        LoadWriteBlock(NewWriteState(0, FALSE), recent, db.rows, i)]
        one == BlockOf(off) = BlockOf(end - 1)
    IN  CASE off >= db.size -> Result("ok", <<>>)
          [] off < db.size /\ one
             /\ end - BlockOf(off) * BlockSize > Len(blocks[BlockOf(off)]) -> TargetBlockTooShort
          [] OTHER -> Result("ok", AssembleSlice(off, end, blocks))

\* What PostgreSQL holds, as the bytes of the file.
StoredSlice(db, off, end) ==
    AssembleSlice(off, end, [i \in BlocksOf(off, end) |->
                                IF i \in DOMAIN db.rows THEN db.rows[i] ELSE <<>>])

\* copy_file_range: the chunks of at most BlockSize bytes, counted from the
\* start of the range, that differ from what the destination holds.
ChangedChunks(data, current) ==
    {c \in 0..((Len(data) - 1) \div BlockSize) :
        \E k \in (c * BlockSize + 1)..MinOf((c + 1) * BlockSize, Len(data)) :
            data[k] # ByteAt(current, k)}
=============================================================================
