----------------------------- MODULE ExtentTree -----------------------------
(***************************************************************************)
(* The extent tree of one inode (extents.c) as a value, and the functions  *)
(* that rebuild it.  A tree is a record                                    *)
(*    leaf : a sequence of leaves, each a sequence of extents;             *)
(*    idx  : the ei_block of the index entry of each leaf;                 *)
(*    deep : FALSE while the only leaf is the root, in the inode body.     *)
(* An extent is [blk, len, pblk, unw]: ee_block, the actual length, the    *)
(* first physical block and the unwritten mark.                            *)
(*                                                                         *)
(* Three more fields are 0 or empty between calls: meta, the number of     *)
(* metadata blocks the allocator will still hand out to this call; zero,   *)
(* the physical blocks the call has overwritten with zeros; and err, which *)
(* is 0, ENOSPC or BEYOND.                                                 *)
(*                                                                         *)
(* The model has index blocks at one level only.  A call that would need a *)
(* second level sets err to BEYOND, and no action takes such a call.       *)
(***************************************************************************)
EXTENDS Integers, Sequences, SequencesExt, FiniteSets, FiniteSetsExt

CONSTANTS
    MaxBlocks,    \* EXT_MAX_BLOCKS: logical blocks are 0 .. MaxBlocks - 1
    RootMax,      \* ext4_ext_space_root: extents, or index entries, in the root
    LeafMax,      \* ext4_ext_space_block: extents in a leaf block
    MaxZeroout    \* s_extent_max_zeroout_kb, in blocks

ASSUME TreeSizes ==
    /\ MaxBlocks \in Nat \ {0}
    /\ RootMax \in Nat \ {0}
    /\ LeafMax \in Nat
    /\ LeafMax > RootMax
    /\ MaxZeroout \in Nat

ENOSPC == 1
BEYOND == 2

Ext(blk, len, pblk, unw) ==
    [blk |-> blk, len |-> len, pblk |-> pblk, unw |-> unw]

End(e) == e.blk + e.len

\* ext4_ext_tree_init
EmptyTree == [deep |-> FALSE, idx |-> <<0>>, leaf |-> << <<>> >>,
              meta |-> 0, zero |-> {}, err |-> 0]

\* A call that may take m metadata blocks starts on t; the tree it leaves.
Start(t, m) == [t EXCEPT !.meta = m]
Tree(t) == [t EXCEPT !.meta = 0, !.zero = {}, !.err = 0]

-----------------------------------------------------------------------------
(* Looking things up.                                                      *)

\* The last position of the sorted keys whose key is at most b, or 1: the
\* result of the binary searches, which never look at the first entry.
Search(keys, b) == 1 + Cardinality({k \in 2 .. Len(keys) : keys[k] <= b})

\* ext4_find_extent: the leaf l and the position i (0 in an empty leaf).
InLeaf(f, l, b) ==
    [l |-> l,
     i |-> IF f = <<>> THEN 0 ELSE 1 + Cardinality({k \in 2 .. Len(f) : f[k].blk <= b})]

FindLeaf(t, l, b) == InLeaf(t.leaf[l], l, b)

FindExtent(t, b) == FindLeaf(t, Search(t.idx, b), b)

At(t, p) == t.leaf[p.l][p.i]

\* ext4_ext_next_allocated_block
NextAllocated(t, p) ==
    IF p.i > 0 /\ p.i < Len(t.leaf[p.l]) THEN t.leaf[p.l][p.i + 1].blk
    ELSE IF p.l < Len(t.idx) THEN t.idx[p.l + 1]
    ELSE MaxBlocks

\* Every extent of the tree, and what the tree maps a block to.
Extents(t) == UNION {{t.leaf[l][i] : i \in 1 .. Len(t.leaf[l])} : l \in 1 .. Len(t.leaf)}

Covers(e, b) == e.blk <= b /\ b < End(e)

ExtentOf(t, b) == At(t, FindExtent(t, b))

Mapped(t, b) == t.leaf[1] # <<>> /\ Covers(ExtentOf(t, b), b)

PhysicalIn(e, b) == e.pblk + (b - e.blk)

Physical(t, b) == PhysicalIn(ExtentOf(t, b), b)

WrittenIn(e, b) == Covers(e, b) /\ ~e.unw
Written(t, b) == t.leaf[1] # <<>> /\ WrittenIn(ExtentOf(t, b), b)

UnwrittenIn(e, b) == Covers(e, b) /\ e.unw
Unwritten(t, b) == t.leaf[1] # <<>> /\ UnwrittenIn(ExtentOf(t, b), b)

Pblocks(e) == e.pblk .. (e.pblk + e.len - 1)

Blocks(t) == UNION {Pblocks(e) : e \in Extents(t)}

-----------------------------------------------------------------------------
(* Merging.                                                                *)

\* ext4_can_extents_be_merged.  The length limits, EXT_INIT_MAX_LEN and
\* EXT_UNWRITTEN_MAX_LEN, are far above MaxBlocks and never bind.
CanMerge(e, f) ==
    /\ e.unw = f.unw
    /\ End(e) = f.blk
    /\ e.pblk + e.len = f.pblk

Joined(e, f) == [e EXCEPT !.len = e.len + f.len]

\* ext4_ext_try_to_merge_right: f with its i-th extent merged with as many of
\* the following ones as will go.
CutTo(f, i, j) ==
    SubSeq(f, 1, i - 1)
      \o << [f[i] EXCEPT !.len = End(f[j]) - f[i].blk] >>
      \o SubSeq(f, j + 1, Len(f))

MergeRight(f, i) ==
    CutTo(f, i, Max({k \in i .. Len(f) : \A m \in i .. (k - 1) : CanMerge(f[m], f[m + 1])}))

\* ext4_ext_try_to_merge_up: a single leaf that fits is copied into the inode.
MergeUp(t) ==
    IF t.deep /\ Len(t.leaf) = 1 /\ Len(t.leaf[1]) <= RootMax
    THEN [t EXCEPT !.deep = FALSE, !.idx = <<0>>]
    ELSE t

\* ext4_ext_try_to_merge of extent i of leaf l: first to the left, to the
\* right only when that did nothing, then up.
MergeLeaf(f, i) ==
    IF i = 1 THEN MergeRight(f, 1)
    ELSE MergeRight(f, IF CanMerge(f[i - 1], f[i]) THEN i - 1 ELSE i)

TryToMerge(t, l, i) == MergeUp([t EXCEPT !.leaf[l] = MergeLeaf(@, i)])

\* Mutant of CorrectIndexes: the index keeps its old first block.
CorrectIndexesNever(t, l, i) == t

\* ext4_ext_correct_indexes, after extent i of leaf l has changed.
CorrectIndexes(t, l, i) ==
    IF t.deep /\ i = 1 THEN [t EXCEPT !.idx[l] = t.leaf[l][1].blk] ELSE t

-----------------------------------------------------------------------------
(* Inserting.                                                              *)

HasSpace(t, l) == Len(t.leaf[l]) < (IF t.deep THEN LeafMax ELSE RootMax)

Fail(t, e) == [t EXCEPT !.err = e]

\* ext4_ext_grow_indepth: the root leaf moves to a block of its own.
GrowIndepth(t) ==
    IF t.meta = 0 THEN Fail(t, ENOSPC)
    ELSE [t EXCEPT !.meta = @ - 1, !.deep = TRUE, !.idx = << t.leaf[1][1].blk >>]

\* ext4_ext_split at the root: the extents after the path's go to a new leaf,
\* whose index entry is the first of them or, when there is none, the extent
\* about to be inserted.
NewLeaf(t, p, f, border, at) ==
    [t EXCEPT !.meta = @ - 1,
              !.idx  = InsertAt(@, at, border),
              !.leaf = InsertAt([@ EXCEPT ![p.l] = SubSeq(f, 1, p.i)],
                                at, SubSeq(f, p.i + 1, Len(f)))]

SplitBorder(t, p, f, border) ==
    NewLeaf(t, p, f, border, IF border > t.idx[p.l] THEN p.l + 1 ELSE p.l)

SplitLeaf(t, p, f, new) ==
    IF t.meta = 0 THEN Fail(t, ENOSPC)
    ELSE SplitBorder(t, p, f, IF p.i < Len(f) THEN f[p.i + 1].blk ELSE new.blk)

\* ext4_ext_create_new_leaf.  The first growth leaves room in the leaf.
CreateNewLeaf(t, p, new) ==
    IF ~t.deep THEN GrowIndepth(t)
    ELSE IF Len(t.idx) < RootMax THEN SplitLeaf(t, p, t.leaf[p.l], new)
    ELSE Fail(t, BEYOND)

\* The has_space part of ext4_ext_insert_extent: new goes after the path's
\* extent when it is beyond it, in front of it otherwise.
PutIn(t, l, at, preio) ==
    CorrectIndexes(IF preio THEN t ELSE TryToMerge(t, l, at), l, at)

PutAt(t, l, at, new, preio) ==
    PutIn([t EXCEPT !.leaf[l] = InsertAt(@, at, new)], l, at, preio)

Place(f, i, new) ==
    IF i = 0 THEN 1 ELSE IF new.blk > f[i].blk THEN i + 1 ELSE i

PutNear(t, p, new, preio) == PutAt(t, p.l, Place(t.leaf[p.l], p.i, new), new, preio)

\* The next leaf takes the extent when this one is full and that one is not.
NextLeafHasSpace(t, l, f, new) ==
    /\ t.deep /\ l < Len(t.idx)
    /\ new.blk > f[Len(f)].blk
    /\ HasSpace(t, l + 1)

PutIfGrown(t, new, preio) ==
    IF t.err # 0 THEN t ELSE PutNear(t, FindExtent(t, new.blk), new, preio)

Insert(t, p, f, new, preio) ==
    IF HasSpace(t, p.l) THEN PutNear(t, p, new, preio)
    ELSE IF NextLeafHasSpace(t, p.l, f, new) THEN PutAt(t, p.l + 1, 1, new, preio)
    ELSE PutIfGrown(CreateNewLeaf(t, p, new), new, preio)

\* The neighbour x of the path's extent i that is tried first: the extent on
\* the right when new is beyond a gap.  (The extent ext4_find_extent returns
\* starts after new only when it is the first of its leaf, so the code's look
\* to the left of it never happens.)
Beyond(f, i, new) == i < Len(f) /\ End(f[i]) < new.blk

Grow(t, l, i, x, e) ==
    CorrectIndexes(TryToMerge([t EXCEPT !.leaf[l][x] = e], l, x), l, i)

InsertOrGrow(t, p, f, x, new) ==
    IF CanMerge(f[x], new) /\ x = p.i THEN Grow(t, p.l, p.i, x, Joined(f[x], new))
    ELSE IF CanMerge(new, f[x]) THEN Grow(t, p.l, p.i, x, Joined(new, f[x]))
    ELSE Insert(t, p, f, new, FALSE)

InsertAtPath(t, p, f, new, preio) ==
    IF preio \/ p.i = 0 THEN Insert(t, p, f, new, preio)
    ELSE InsertOrGrow(t, p, f, IF Beyond(f, p.i, new) THEN p.i + 1 ELSE p.i, new)

\* ext4_ext_insert_extent on the path l, i of the caller.  Without PRE_IO the
\* new extent is first appended or prepended to a neighbour in that leaf.
InsertExtent(t, p, new, preio) == InsertAtPath(t, p, t.leaf[p.l], new, preio)

-----------------------------------------------------------------------------
(* Splitting and converting.                                               *)

\* The split_flag bits that matter together.
NoFlags == [zeroout |-> FALSE, unw1 |-> FALSE, unw2 |-> FALSE,
            valid1 |-> FALSE, valid2 |-> FALSE]

\* ext4_split_extent_at at block b of the extent that holds it.  When the tree
\* has no room for the second half, the extent is zeroed and marked written if
\* the caller allows that, and put back as it was otherwise.
Marked(t, p, unw) == [t EXCEPT !.leaf[p.l][p.i].unw = unw]

Merged(t, p, preio) == IF preio THEN t ELSE TryToMerge(t, p.l, p.i)

\* The zeroout fallback: zero what the flags do not call valid, mark all of e.
Zeroed(t, p, e, one, two, flag) ==
    TryToMerge([Marked(t, p, FALSE) EXCEPT !.zero = @ \cup
                   Pblocks(IF flag.valid1 THEN two ELSE IF flag.valid2 THEN one ELSE e)],
               p.l, p.i)

AfterInsert(r, t, p, e, one, two, flag) ==
    IF r.err # ENOSPC THEN r
    ELSE IF flag.zeroout THEN Zeroed(t, p, e, one, two, flag)
    ELSE Fail(t, ENOSPC)

SplitInTwo(t, p, e, one, two, flag, preio) ==
    AfterInsert(InsertExtent([t EXCEPT !.leaf[p.l][p.i] = one], p, two, preio),
                t, p, e, one, two, flag)

SplitPath(t, p, e, b, flag, preio) ==
    IF b = e.blk THEN Merged(Marked(t, p, flag.unw2), p, preio)
    ELSE SplitInTwo(t, p, e,
                    Ext(e.blk, b - e.blk, e.pblk, flag.unw1),
                    Ext(b, End(e) - b, PhysicalIn(e, b), flag.unw2), flag, preio)

SplitAt(t, b, flag, preio) ==
    SplitPath(t, FindExtent(t, b), ExtentOf(t, b), b, flag, preio)

\* ext4_force_split_extent_at
BothMarked(unw) == [NoFlags EXCEPT !.unw1 = unw, !.unw2 = unw]

ForceSplitAt(t, b) == SplitAt(t, b, BothMarked(ExtentOf(t, b).unw), TRUE)

\* ext4_split_extent: cut [b, b + n) out of the extent e that holds b, first at
\* its end, then at its start.
SplitTail(t, e, b, n, flag) ==
    IF b + n >= End(e) THEN t
    ELSE SplitAt(t, b + n, [BothMarked(e.unw) EXCEPT !.zeroout = flag.zeroout,
                                                     !.valid1  = flag.valid2], TRUE)

SplitHead(t, unw, b, flag, preio) ==
    SplitAt(t, b, [zeroout |-> unw /\ flag.zeroout, unw1 |-> unw,
                   unw2 |-> unw /\ flag.unw2,
                   valid1 |-> FALSE, valid2 |-> flag.valid2], preio)

SplitRest(t, b, flag, preio) ==
    IF t.err # 0 THEN t ELSE SplitHead(t, ExtentOf(t, b).unw, b, flag, preio)

SplitExtent(t, b, n, flag, preio) ==
    SplitRest(SplitTail(t, ExtentOf(t, b), b, n, flag), b, flag, preio)

\* Mutant of InsideFile: the end of the file is not looked at.
InsideFileAlways(e, b, n, size) == TRUE

\* It is safe to zero the extent out only if it is inside the file.
InsideFile(e, b, n, size) == End(e) <= size \/ End(e) <= b + n

\* ext4_split_convert_extents with GET_BLOCKS_CONVERT ...
SplitConvert(t, b, n, size) ==
    SplitExtent(t, b, n,
        [NoFlags EXCEPT !.zeroout = InsideFile(ExtentOf(t, b), b, n, size),
                        !.unw2 = TRUE, !.valid2 = TRUE], TRUE)

\* ... and with GET_BLOCKS_CONVERT_UNWRITTEN.
SplitUnconvert(t, b, n) ==
    SplitExtent(t, b, n, [NoFlags EXCEPT !.valid1 = TRUE], TRUE)

\* Mark the extent that holds b, then merge it: the end of
\* ext4_convert_unwritten_extents_endio and of convert_initialized_extent.
MarkAndMerge(t, b, unw) ==
    IF t.err # 0 THEN t
    ELSE Merged(Marked(t, FindExtent(t, b), unw), FindExtent(t, b), FALSE)

\* Whether [b, b + n) has to be cut out of e first.
MustSplit(e, b, n) == e.blk # b \/ e.len > n

\* ext4_convert_unwritten_extents_endio
ConvertEndio(t, b, n, size) ==
    MarkAndMerge(IF MustSplit(ExtentOf(t, b), b, n) THEN SplitConvert(t, b, n, size) ELSE t,
                 b, FALSE)

\* convert_initialized_extent
ConvertInitialized(t, b, n) ==
    MarkAndMerge(IF MustSplit(ExtentOf(t, b), b, n) THEN SplitUnconvert(t, b, n) ELSE t,
                 b, TRUE)

\* ext4_ext_convert_to_initialized: a write of [b, b + m) into the unwritten
\* extent that holds b.  The blocks are handed to a written neighbour that
\* abuts them; else the rest of the extent is zeroed when that is cheap, and
\* the extent is split.
GiveLeft(t, l, i, m) ==
    [t EXCEPT !.leaf[l][i] = Ext(@.blk + m, @.len - m, @.pblk + m, TRUE),
              !.leaf[l][i - 1].len = @ + m]

GiveRight(t, l, i, m) ==
    [t EXCEPT !.leaf[l][i].len = @ - m,
              !.leaf[l][i + 1] = Ext(@.blk - m, @.len + m, @.pblk - m, FALSE)]

\* The blocks lo .. hi - 1 of e on the device.
Part(e, lo, hi) == {PhysicalIn(e, k) : k \in lo .. (hi - 1)}

ZeroAround(t, e, b, m, head, len, inside) ==
    SplitExtent([t EXCEPT !.zero = @ \cup Part(e, b + m, b + len)
                                     \cup (IF head THEN Part(e, e.blk, b) ELSE {})],
                IF head THEN e.blk ELSE b,
                IF head THEN (b - e.blk) + len ELSE len,
                [NoFlags EXCEPT !.zeroout = inside, !.valid2 = TRUE], FALSE)

\* The tail of e is zeroed when b .. its end is short enough, the head when
\* that and the head together are.
ZeroHead(t, e, b, m, maxz, len, inside) ==
    ZeroAround(t, e, b, m, End(e) - b > m /\ (b - e.blk) + len < maxz, len, inside)

ZeroTail(t, e, b, m, inside) ==
    ZeroHead(t, e, b, m, IF inside THEN MaxZeroout ELSE 0,
             IF inside /\ End(e) - b > m /\ End(e) - b <= MaxZeroout THEN End(e) - b ELSE m,
             inside)

Convert(t, p, f, e, b, m, size) ==
    IF m < e.len /\ b = e.blk /\ p.i > 1
    THEN IF CanMerge(f[p.i - 1], [e EXCEPT !.unw = FALSE]) THEN GiveLeft(t, p.l, p.i, m)
         ELSE ZeroTail(t, e, b, m, InsideFile(e, b, m, size))
    ELSE IF m < e.len /\ b + m = End(e) /\ p.i < Len(f)
    THEN IF CanMerge([e EXCEPT !.unw = FALSE], f[p.i + 1]) THEN GiveRight(t, p.l, p.i, m)
         ELSE ZeroTail(t, e, b, m, InsideFile(e, b, m, size))
    ELSE ZeroTail(t, e, b, m, InsideFile(e, b, m, size))

ConvertToInitialized(t, b, m, size) ==
    Convert(t, FindExtent(t, b), t.leaf[FindExtent(t, b).l], ExtentOf(t, b), b, m, size)

-----------------------------------------------------------------------------
(* Removing.                                                               *)

\* ext4_ext_rm_leaf: what is left of leaf f without [lo, hi].  The caller has
\* split the extent that reached beyond hi.
Outside(e, lo, hi) == End(e) <= lo \/ hi < e.blk

Trim(e, lo, hi) == IF Outside(e, lo, hi) THEN e ELSE [e EXCEPT !.len = lo - e.blk]

TrimAll(f, lo, hi) == [k \in 1 .. Len(f) |-> Trim(f[k], lo, hi)]

RmLeaf(f, lo, hi) ==
    TrimAll(SelectSeq(f, LAMBDA e : Outside(e, lo, hi) \/ e.blk < lo), lo, hi)

\* ext4_ext_remove_space: the blocks lo .. hi leave the tree, and with them
\* the leaves that become empty and, when none is left, the index.
RemoveLeaves(u, new, keep) ==
    IF keep = <<>> THEN [EmptyTree EXCEPT !.meta = u.meta]
    ELSE [u EXCEPT
            !.leaf = [k \in 1 .. Len(keep) |-> new[keep[k]]],
            !.idx  = [k \in 1 .. Len(keep) |->
                        IF u.deep /\ new[keep[k]] # u.leaf[keep[k]]
                        THEN new[keep[k]][1].blk ELSE u.idx[keep[k]]]]

KeepLeaves(u, new) ==
    RemoveLeaves(u, new, SelectSeq([l \in 1 .. Len(new) |-> l], LAMBDA l : new[l] # <<>>))

RemoveRange(u, lo, hi) ==
    IF u.err # 0 THEN u
    ELSE KeepLeaves(u, [l \in 1 .. Len(u.leaf) |-> RmLeaf(u.leaf[l], lo, hi)])

RemoveSpace(t, lo, hi) ==
    RemoveRange(IF hi < MaxBlocks - 1 /\ Mapped(t, hi) /\ End(ExtentOf(t, hi)) > hi + 1
                THEN ForceSplitAt(t, hi + 1) ELSE t, lo, hi)

-----------------------------------------------------------------------------
(* Shifting.                                                               *)

\* ext4_ext_shift_path_extents, SHIFT_LEFT: each extent of the leaf from start
\* on moves down by n and is merged with the one on its left if it will go.
Down(acc, e, n) ==
    IF acc # <<>> /\ CanMerge(Last(acc), [e EXCEPT !.blk = @ - n])
    THEN [acc EXCEPT ![Len(acc)].len = @ + e.len]
    ELSE Append(acc, [e EXCEPT !.blk = @ - n])

ShiftLeafLeft(f, start, n) ==
    FoldLeft(LAMBDA acc, e : IF e.blk < start THEN Append(acc, e) ELSE Down(acc, e, n),
             <<>>, f)

\* SHIFT_RIGHT: from the last extent of the leaf back to start, each moves up
\* by n and is merged with what follows it.
ShiftLeafRight(f, start, n) ==
    FoldRight(LAMBDA e, acc : IF e.blk < start THEN <<e>> \o acc
                              ELSE MergeRight(<<[e EXCEPT !.blk = @ + n]>> \o acc, 1),
              f, <<>>)

ShiftIndex(t, start, d) ==
    [l \in 1 .. Len(t.idx) |->
        IF t.deep /\ t.leaf[l][1].blk >= start THEN t.idx[l] + d ELSE t.idx[l]]

\* ext4_ext_shift_extents of every extent that starts at start or later.  The
\* index entry of a leaf follows when its first extent is one of them.
ShiftLeft(t, start, n) ==
    [t EXCEPT !.leaf = [l \in 1 .. Len(t.leaf) |-> ShiftLeafLeft(t.leaf[l], start, n)],
              !.idx  = ShiftIndex(t, start, -n)]

ShiftRight(t, start, n) ==
    [t EXCEPT !.leaf = [l \in 1 .. Len(t.leaf) |-> ShiftLeafRight(t.leaf[l], start, n)],
              !.idx  = ShiftIndex(t, start, n)]

\* The end of the last extent: what a right shift may not push past MaxBlocks.
LastEnd(t) == Max({0} \cup {End(e) : e \in Extents(t)})
=============================================================================
