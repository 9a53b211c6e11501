------------------------------ MODULE Extents -------------------------------
(***************************************************************************)
(* One regular file on its extent tree: the calls that map, convert, free  *)
(* and shift its blocks (extents.c), direct writes in flight, and          *)
(* evfs_extent_move (evfs.c), which swaps the physical blocks of a range.  *)
(*                                                                         *)
(* Every action holds i_data_sem for writing for as long as it works on    *)
(* the tree, so each call of ext4_map_blocks is one step; ext4_fallocate,  *)
(* ext4_zero_range and ext4_convert_unwritten_extents, which loop over     *)
(* ext4_map_blocks, take one step for each turn of the loop.               *)
(***************************************************************************)
EXTENDS ExtentTree

CONSTANTS
    PBlocks,     \* the number of data blocks on the device: 1 .. PBlocks
    Values,      \* what a user can write to a block
    MaxIO,       \* bound: direct writes in flight
    MaxSpan,     \* bound: blocks in the range of one call
    IOSpans,     \* bound: blocks in the range of a direct write
    FailOps,     \* the calls that may find no metadata block
    SplitMiddle, \* may they, when the range is inside an unwritten extent?
    MoveHoles,   \* may a moved range contain holes?
    Width        \* 2 ^ 32: the range of the __u32 lengths of an eVFS extent

ASSUME FileSizes ==
    /\ PBlocks \in Nat \ {0}
    /\ MaxIO \in Nat
    /\ MaxSpan \in 1 .. MaxBlocks
    /\ IOSpans \subseteq 1 .. MaxSpan
    /\ FailOps \subseteq {"write", "dio", "endio", "falloc", "zero", "move"}
    /\ SplitMiddle \in BOOLEAN /\ MoveHoles \in BOOLEAN
    /\ Width \in Nat /\ Width > 2 * MaxBlocks

VARIABLES
    tree,    \* the extent tree
    size,    \* i_size, in blocks
    data,    \* what each data block of the device holds
    used,    \* the data blocks the block bitmap has marked for this file
    io,      \* direct writes in flight: [blk, len, val, done]
    file     \* what the calls so far promise a reader of each block

vars == <<tree, size, data, used, io, file>>

Lblocks == 0 .. (MaxBlocks - 1)
Range2(b, n) == b .. (b + n - 1)

\* Enough for any call: one block to grow the tree and one for a leaf.
Plenty == 2

Init ==
    /\ tree = EmptyTree
    /\ size = 0
    /\ data = [p \in 1 .. PBlocks |-> "stale"]
    /\ used = {}
    /\ io = {}
    /\ file = [b \in Lblocks |-> "zero"]

\* Data blocks given back to the allocator, or no longer marked written, hold
\* nothing of this file any more.
Free(d, freed) == [p \in DOMAIN d |-> IF p \in freed THEN "stale" ELSE d[p]]
Put(d, ps, v) == [p \in DOMAIN d |-> IF p \in ps THEN v ELSE d[p]]

\* The file after a write of v to the blocks S, or after a call that leaves
\* zeros there.
Over(S, v) == [b \in Lblocks |-> IF b \in S THEN v ELSE file[b]]

\* The physical blocks of [b, b + n), all of it mapped.
PhysicalOf(t, b, n) == {Physical(t, k) : k \in Range2(b, n)}

\* How much of [b, b + n) one call of ext4_map_blocks covers: to the end of
\* the extent, or of the hole (ext4_ext_check_overlap).
HoleEnd(t, p, b) ==
    IF p.i = 0 THEN MaxBlocks
    ELSE IF b < At(t, p).blk THEN At(t, p).blk ELSE NextAllocated(t, p)

\* min and max of two lengths.
Least(m, n) == IF m < n THEN m ELSE n
Most(m, n) == IF m < n THEN n ELSE m

SpanAt(t, p, b, n) ==
    Least(n, (IF p.i # 0 /\ Covers(At(t, p), b) THEN End(At(t, p)) ELSE HoleEnd(t, p, b)) - b)

Span(t, b, n) == SpanAt(t, FindExtent(t, b), b, n)

\* ext4_mb_new_blocks: some free run of at most n blocks.
FreeRuns(n) ==
    {r \in (1 .. PBlocks) \X (1 .. n) :
        /\ r[1] + r[2] - 1 <= PBlocks
        /\ Range2(r[1], r[2]) \cap used = {}}

\* How many extents a call on [b, b + n) may insert: one into a hole, or one for
\* each end at which it cuts the extent that holds b.
One(p) == IF p THEN 1 ELSE 0
Cuts(e, b, n) == One(e.blk < b) + One(b + n < End(e))
Inserts(b, n) == IF Mapped(tree, b) THEN Cuts(ExtentOf(tree, b), b, n) ELSE 1

\* Whether the call op, which inserts k extents, may fail to get a metadata
\* block.  It asks for none while every leaf has k free slots.
Tight(k) ==
    \E l \in 1 .. Len(tree.leaf) :
        Len(tree.leaf[l]) + k > (IF tree.deep THEN LeafMax ELSE RootMax)

MetaBlocks(op, k) == IF op \in FailOps /\ Tight(k) THEN {0, Plenty} ELSE {Plenty}

\* A conversion inside an unwritten extent, away from both of its ends.
InMiddle(e, b, n) == e.blk < b /\ b + n < End(e)

MayConvert(b, n, m) == m = Plenty \/ SplitMiddle \/ ~InMiddle(ExtentOf(tree, b), b, n)

Within(r) == r.err # BEYOND

\* The tree becomes r, and the blocks r zeroed hold zeros.
SetTree(r) ==
    /\ Within(r)
    /\ tree' = Tree(r)

Zeros(r) == Put(data, r.zero, "zero")

-----------------------------------------------------------------------------
(* ext4_ext_map_blocks, by what its flags ask for.                         *)

\* The allocation part, for a block in a hole.  On an error the new blocks are
\* freed again, which leaves used as it was.
Allocate(b, unw, preio, m, run) ==
    InsertExtent(Start(tree, m), FindExtent(tree, b), Ext(b, run[2], run[1], unw), preio)

\* GET_BLOCKS_CREATE: a buffered write without dioread_nolock.
WriteMapped(b, n, v) ==
    /\ Written(tree, b)
    /\ \E k \in {Span(tree, b, n)} :
         /\ data' = Put(data, Part(ExtentOf(tree, b), b, b + k), v)
         /\ file' = Over(Range2(b, k), v)
         /\ size' = Most(size, b + k)
    /\ UNCHANGED <<tree, used, io>>

StoreConverted(r, b, k, v) ==
    /\ SetTree(r)
    /\ IF r.err = 0
       THEN /\ data' = Put(Zeros(r), PhysicalOf(r, b, k), v)
            /\ file' = Over(Range2(b, k), v)
            /\ size' = Most(size, b + k)
       ELSE /\ data' = Zeros(r)
            /\ UNCHANGED <<file, size>>
    /\ UNCHANGED <<used, io>>

WriteUnwritten(b, n, v) ==
    /\ Unwritten(tree, b)
    /\ \E m \in MetaBlocks("write", Inserts(b, n)) :
         /\ MayConvert(b, n, m)
         /\ \E r \in {ConvertToInitialized(Start(tree, m), b, n, size)}, k \in {Span(tree, b, n)} :
              StoreConverted(r, b, k, v)

StoreNew(r, b, run, v) ==
    /\ r.err = 0
    /\ tree' = Tree(r)
    /\ data' = Put(data, Range2(run[1], run[2]), v)
    /\ file' = Over(Range2(b, run[2]), v)
    /\ used' = used \cup Range2(run[1], run[2])
    /\ size' = Most(size, b + run[2])
    /\ UNCHANGED io

WriteHole(b, n, v) ==
    /\ ~Mapped(tree, b)
    /\ \E run \in FreeRuns(Span(tree, b, n)), m \in MetaBlocks("write", Inserts(b, n)) :
         \E r \in {Allocate(b, FALSE, FALSE, m, run)} : StoreNew(r, b, run, v)

\* GET_BLOCKS_IO_CREATE_EXT: the mapping step of a direct write inside the
\* file.  An unwritten extent is split before the I/O starts, a hole is filled
\* with an unwritten extent, and the I/O is on its way.  (On a written extent it
\* maps nothing new, and the whole write is WriteMapped.)
Submit(b, k, v) == io' = io \cup {[blk |-> b, len |-> k, val |-> v, done |-> FALSE]}

CanSubmit(b, n) ==
    /\ Cardinality(io) < MaxIO /\ n \in IOSpans
    /\ b + n <= size
    /\ \A w \in io : b + n <= w.blk \/ w.blk + w.len <= b

SubmitConverted(r, b, k, v) ==
    /\ SetTree(r)
    /\ data' = Zeros(r)
    /\ IF r.err = 0 THEN Submit(b, k, v) ELSE UNCHANGED io
    /\ UNCHANGED <<size, used, file>>

DioUnwritten(b, n, v) ==
    /\ CanSubmit(b, n)
    /\ Unwritten(tree, b)
    /\ \E m \in MetaBlocks("dio", Inserts(b, n)) :
         \E r \in {SplitConvert(Start(tree, m), b, n, size)}, k \in {Span(tree, b, n)} :
             SubmitConverted(r, b, k, v)

SubmitNew(r, b, run, v) ==
    /\ r.err = 0
    /\ tree' = Tree(r)
    /\ used' = used \cup Range2(run[1], run[2])
    /\ Submit(b, run[2], v)
    /\ UNCHANGED <<size, data, file>>

DioHole(b, n, v) ==
    /\ CanSubmit(b, n)
    /\ ~Mapped(tree, b)
    /\ \E run \in FreeRuns(Span(tree, b, n)), m \in MetaBlocks("dio", Inserts(b, n)) :
         \E r \in {Allocate(b, TRUE, TRUE, m, run)} : SubmitNew(r, b, run, v)

\* The device completes the I/O (outside src/): blocks already marked written
\* show it at once.
IOComplete(w) ==
    /\ ~w.done
    /\ data' = Put(data, PhysicalOf(tree, w.blk, w.len), w.val)
    /\ file' = Over({b \in Range2(w.blk, w.len) : Written(tree, b)}, w.val)
    /\ io' = (io \ {w}) \cup {[w EXCEPT !.done = TRUE]}
    /\ UNCHANGED <<tree, size, used>>

\* GET_BLOCKS_IO_CONVERT_EXT: one turn of ext4_convert_unwritten_extents.  An
\* error ends the loop and fails the write, of which some blocks may show.
EndConverted(r, w, k) ==
    /\ SetTree(r)
    /\ data' = Zeros(r)
    /\ file' = Over({b \in Range2(w.blk, IF r.err = 0 THEN k ELSE w.len) :
                       ~Written(tree, b) /\ (r.err = 0 \/ Written(r, b))}, w.val)
    /\ io' = (io \ {w}) \cup (IF r.err = 0 /\ k < w.len
                              THEN {[w EXCEPT !.blk = @ + k, !.len = @ - k]} ELSE {})
    /\ UNCHANGED <<size, used>>

\* Mutant of EndIO: the extent is converted before the data is on the device.
EndIOEarly(w) ==
    EndConverted(IF Written(tree, w.blk) THEN tree
                 ELSE ConvertEndio(Start(tree, Plenty), w.blk, w.len, size),
                 w, Span(tree, w.blk, w.len))

EndIO(w) ==
    /\ w.done
    /\ \E m \in MetaBlocks("endio", Inserts(w.blk, w.len)) :
         /\ MayConvert(w.blk, w.len, m)
         /\ \E r \in {IF Written(tree, w.blk) THEN tree
                      ELSE ConvertEndio(Start(tree, m), w.blk, w.len, size)},
               k \in {Span(tree, w.blk, w.len)} :
              EndConverted(r, w, k)

-----------------------------------------------------------------------------
(* The calls that first wait for direct I/O (inode_dio_wait).              *)

Quiet == io = {}

\* GET_BLOCKS_CREATE_UNWRIT_EXT: one turn of ext4_alloc_file_blocks for
\* ext4_fallocate.  The size stays with KEEP_SIZE and follows the blocks without.
NewSizes(b, k) == {size, Most(size, b + k)}

FallocateNew(r, b, run) ==
    /\ r.err = 0
    /\ tree' = Tree(r)
    /\ used' = used \cup Range2(run[1], run[2])
    /\ size' \in NewSizes(b, run[2])

Fallocate(b, n) ==
    /\ Quiet
    /\ IF Mapped(tree, b)
       THEN /\ size' \in NewSizes(b, Span(tree, b, n))
            /\ UNCHANGED <<tree, used>>
       ELSE \E run \in FreeRuns(Span(tree, b, n)), m \in MetaBlocks("falloc", Inserts(b, n)) :
              \E r \in {Allocate(b, TRUE, FALSE, m, run)} : FallocateNew(r, b, run)
    /\ UNCHANGED <<data, io, file>>

\* GET_BLOCKS_CONVERT_UNWRITTEN: the turn of the loop of ext4_zero_range that
\* meets a written extent; on a hole or an unwritten extent it is Fallocate.
ZeroConverted(r, b, k) ==
    /\ SetTree(r)
    /\ IF r.err = 0
       THEN /\ data' = Free(data, PhysicalOf(tree, b, k))
            /\ file' = Over(Range2(b, k), "zero")
            /\ size' \in NewSizes(b, k)
       ELSE UNCHANGED <<data, file, size>>
    /\ UNCHANGED <<used, io>>

ZeroRange(b, n) ==
    /\ Quiet
    /\ Written(tree, b)
    /\ \E m \in MetaBlocks("zero", Inserts(b, n)) :
         \E r \in {ConvertInitialized(Start(tree, m), b, n)}, k \in {Span(tree, b, n)} :
             ZeroConverted(r, b, k)

\* ext4_ext_remove_space frees the data blocks that left the tree.
FreeBlocks(freed) ==
    /\ used' = used \ freed
    /\ data' = Free(data, freed)

Release(r) ==
    /\ SetTree(r)
    /\ FreeBlocks(Blocks(tree) \ Blocks(r))
    /\ UNCHANGED io

\* The tree work of ext4_punch_hole (whose own code is outside src/).
PunchHole(b, n) ==
    /\ Quiet
    /\ \E r \in {RemoveSpace(Start(tree, Plenty), b, b + n - 1)} : Release(r)
    /\ file' = Over(Range2(b, n), "zero")
    /\ UNCHANGED size

\* ext4_ext_truncate, after the size has been set.
Truncate(n) ==
    /\ Quiet
    /\ \E r \in {RemoveSpace(Start(tree, Plenty), n, MaxBlocks - 1)} : Release(r)
    /\ file' = Over(n .. MaxBlocks, "zero")
    /\ size' = n

CollapseRange(b, n) ==
    /\ Quiet
    /\ b + n < size
    /\ \E r \in {ShiftLeft(RemoveSpace(Start(tree, Plenty), b, b + n - 1), b + n, n)} : Release(r)
    /\ file' = [k \in Lblocks |->
                  IF k < b THEN file[k] ELSE IF k + n < MaxBlocks THEN file[k + n] ELSE "zero"]
    /\ size' = size - n

\* ext4_insert_range.  The size grows before the extents move, and stays so
\* when blocks kept beyond it would leave the range of block numbers.
Fits(n) == LastEnd(tree) + n <= MaxBlocks

ShiftTail(r, b, n) ==
    IF r.leaf[1] # <<>> /\ Fits(n) THEN ShiftRight(r, Max({ExtentOf(r, b).blk, b}), n) ELSE r

InsertRange(b, n) ==
    /\ Quiet
    /\ size + n <= MaxBlocks /\ b < size
    /\ size' = size + n
    /\ \E r \in {ShiftTail(IF Mapped(tree, b) /\ ExtentOf(tree, b).blk < b
                           THEN ForceSplitAt(Start(tree, Plenty), b) ELSE tree, b, n)} :
         SetTree(r)
    /\ file' = IF ~Fits(n) THEN file
               ELSE [k \in Lblocks |->
                       IF k < b THEN file[k] ELSE IF k < b + n THEN "zero" ELSE file[k - n]]
    /\ UNCHANGED <<data, used, io>>

-----------------------------------------------------------------------------
(* evfs_extent_move.                                                       *)

\* __evfs_extent_map on the range c = [log, phy, len].  The result has the new
\* tree, cur (the range reported) and next (the range that is left).
Nothing == [log |-> 0, phy |-> 0, len |-> 0]

Jump(t, c, j) ==
    [tree |-> t, cur |-> [c EXCEPT !.len = j],
     next |-> [log |-> c.log + j, phy |-> c.phy + j, len |-> (c.len - j) % Width]]

\* Mutant of Swap: the range reported is the new one, not the one swapped out.
SwapReportsNew(t, p, x, c) ==
    [tree |-> TryToMerge([t EXCEPT !.leaf[p.l][p.i].pblk = c.phy], p.l, p.i),
     cur  |-> [log |-> c.log, phy |-> c.phy, len |-> x.len],
     next |-> IF c.log + c.len > End(x)
              THEN [log |-> End(x), phy |-> c.phy + x.len, len |-> c.len - x.len]
              ELSE Nothing]

\* x is exactly the first extent of the range: give it the new blocks.
Swap(t, p, x, c) ==
    [tree |-> TryToMerge([t EXCEPT !.leaf[p.l][p.i].pblk = c.phy], p.l, p.i),
     cur  |-> [log |-> c.log, phy |-> x.pblk, len |-> x.len],
     next |-> IF c.log + c.len > End(x)
              THEN [log |-> End(x), phy |-> c.phy + x.len, len |-> c.len - x.len]
              ELSE Nothing]

CutTail(t, c) ==
    IF t.err = 0 /\ End(ExtentOf(t, c.log)) > c.log + c.len
    THEN ForceSplitAt(t, c.log + c.len) ELSE t

SwapCut(t, c) ==
    IF t.err # 0 THEN [tree |-> t, cur |-> c, next |-> Nothing]
    ELSE Swap(t, FindExtent(t, c.log), ExtentOf(t, c.log), c)

MapFound(t, p, e, c) ==
    IF c.log < e.blk THEN Jump(t, c, e.blk - c.log)
    ELSE IF c.log >= End(e) /\ NextAllocated(t, p) < MaxBlocks
         THEN Jump(t, c, NextAllocated(t, p) - End(e))
    ELSE IF c.log >= End(e) \/ (c.log + c.len) % Width <= c.log
         THEN [tree |-> t, cur |-> c, next |-> Nothing]
    ELSE SwapCut(CutTail(IF e.blk < c.log THEN ForceSplitAt(t, c.log) ELSE t, c), c)

ExtentMap(t, c) ==
    IF t.leaf[1] = <<>> THEN [tree |-> t, cur |-> c, next |-> Nothing]
    ELSE MapFound(t, FindExtent(t, c.log), ExtentOf(t, c.log), c)

\* The loop of evfs_extent_move over the ranges c leaves, at most n times; an
\* error ends it and keeps what has been swapped.
Report(s, r) ==
    IF r.tree.err # 0 THEN [s EXCEPT !.tree = r.tree]
    ELSE [tree |-> r.tree, cur |-> r.next, exts |-> Append(s.exts, r.cur)]

MoveStep(s) ==
    IF s.tree.err # 0 \/ s.cur.len = 0 THEN s ELSE Report(s, ExtentMap(s.tree, s.cur))

MoveLoop(t, c, n) ==
    FoldLeft(LAMBDA s, i : MoveStep(s), [tree |-> t, cur |-> c, exts |-> <<>>],
             [i \in 1 .. n |-> i])

Lengths(exts) == FoldLeft(LAMBDA s, x : s + x.len, 0, exts)

Reported(exts) == UNION {Range2(exts[i].phy, exts[i].len) : i \in 1 .. Len(exts)}

CanMove(b, n, p) ==
    /\ Range2(p, n) \cap used = {}
    /\ MoveHoles \/ \A k \in Range2(b, n) : Mapped(tree, k)

\* The caller owns the free run p .. p + n - 1, copies to it what the range
\* holds, moves, and then frees the blocks the call reports and the part of the
\* run the call did not come to.
Copied(b, n, p) ==
    [q \in DOMAIN data |->
        IF q \in Range2(p, n) /\ Mapped(tree, b + (q - p))
        THEN data[Physical(tree, b + (q - p))] ELSE data[q]]

MoveDone(r, b, n, p, back) ==
    /\ SetTree(r.tree)
    /\ used' = (used \cup Range2(p, n)) \ back
    /\ data' = Free(Copied(b, n, p), back)

MoveFrees(r, b, n, p, len) ==
    MoveDone(r, b, n, p, Reported(r.exts) \cup Range2(p + len, n - len))

MoveReturns(r, b, n, p) == MoveFrees(r, b, n, p, Lengths(r.exts))

ExtentMove(b, n, p) ==
    /\ Quiet
    /\ CanMove(b, n, p)
    /\ \E m \in MetaBlocks("move", 2) :
         \E r \in {MoveLoop(Start(tree, m), [log |-> b, phy |-> p, len |-> n], n)} :
             MoveReturns(r, b, n, p)
    /\ UNCHANGED <<size, io, file>>

Next ==
    \/ \E w \in io : IOComplete(w) \/ EndIO(w)
    \/ \E n \in 0 .. MaxBlocks : Truncate(n)
    \/ \E b \in Lblocks : \E n \in 1 .. Min({MaxSpan, MaxBlocks - b}) :
          \/ \E v \in Values :
                \/ WriteMapped(b, n, v) \/ WriteUnwritten(b, n, v) \/ WriteHole(b, n, v)
                \/ DioUnwritten(b, n, v) \/ DioHole(b, n, v)
          \/ Fallocate(b, n) \/ ZeroRange(b, n)
          \/ PunchHole(b, n)
          \/ CollapseRange(b, n)
          \/ InsertRange(b, n)
          \/ \E p \in 1 .. (PBlocks - n + 1) : ExtentMove(b, n, p)

Spec == Init /\ [][Next]_vars

-----------------------------------------------------------------------------
(* Properties.                                                             *)

TypeOK ==
    /\ tree.err = 0 /\ tree.meta = 0 /\ tree.zero = {}
    /\ size \in 0 .. MaxBlocks
    /\ data \in [1 .. PBlocks -> Values \cup {"stale", "zero"}]
    /\ used \subseteq 1 .. PBlocks
    /\ \A w \in io : w.blk + w.len <= MaxBlocks

\* What ext4_valid_extent_entries and __ext4_ext_check accept: nodes within
\* their capacity, no empty leaf below an index, each index entry the first
\* block of its leaf, and extents in order that do not overlap, across leaves.
\* Every call leaves such a tree, whatever splits, merges and failures it took.
TreeValid ==
    LET all == FlattenSeq(tree.leaf)
    IN  /\ Len(tree.idx) = Len(tree.leaf)
        /\ ~tree.deep => Len(tree.leaf) = 1 /\ Len(tree.leaf[1]) <= RootMax
        /\ tree.deep =>
             /\ Len(tree.idx) \in 1 .. RootMax
             /\ \A l \in 1 .. Len(tree.idx) :
                  /\ Len(tree.leaf[l]) \in 1 .. LeafMax
                  /\ tree.idx[l] = tree.leaf[l][1].blk
        /\ \A i \in 1 .. Len(all) :
             /\ all[i].len > 0 /\ End(all[i]) <= MaxBlocks
             /\ i > 1 => End(all[i - 1]) <= all[i].blk

\* Every data block the bitmap has marked for the file is mapped by exactly one
\* block of the file, and only those are: no call leaks a block, frees one that
\* is still mapped, or maps one twice.
BlocksExact ==
    LET mapped == {b \in Lblocks : Mapped(tree, b)}
    IN  /\ used = Blocks(tree)
        /\ used = {Physical(tree, b) : b \in mapped}
        /\ Cardinality(used) = Cardinality(mapped)

\* Nothing beyond the end of the file is marked written, so a file that grows
\* reads as zeros there.
NothingWrittenBeyondSize == \A b \in Lblocks : Written(tree, b) => b < size

\* A written block holds data or zeros, never what the device held before.
NoStaleData == \A b \in Lblocks : Written(tree, b) => data[Physical(tree, b)] # "stale"

\* The lengths evfs_extent_move reports add up to the length it was asked for,
\* from every state and for every range and run.
MoveReportsLength ==
    \A b \in Lblocks : \A n \in 1 .. (MaxBlocks - b) : \A p \in 1 .. (PBlocks - n + 1) :
        LET r == MoveLoop(Start(tree, Plenty), [log |-> b, phy |-> p, len |-> n], n)
        IN  Quiet /\ CanMove(b, n, p) /\ Within(r.tree) => Lengths(r.exts) = n

\* A block reads as what was last written to it, and as zeros when nothing was
\* or the last call left zeros there: whatever the tree looks like, the mapping
\* and the unwritten marks give a reader the file the calls promised.
ReadsBack ==
    \A b \in Lblocks :
        file[b] = IF Written(tree, b) THEN data[Physical(tree, b)] ELSE "zero"
=============================================================================
