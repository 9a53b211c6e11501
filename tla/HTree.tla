-------------------------------- MODULE HTree --------------------------------
(***************************************************************************)
(* A directory with a hashed index (namei.c): entries are added, deleted,  *)
(* looked up and listed while leaf blocks split and the index grows.       *)
(*                                                                         *)
(* dir.block[1] is block 0 of the directory.  A block is a leaf, with the  *)
(* entries de in the order of the block, or a node of the index, with the  *)
(* entries ent of the index.  A leaf entry has the name, or NoName when    *)
(* its inode is 0, and rec, its rec_len.  The key of the first index entry *)
(* of a node is never read: count and limit are kept there on disk.        *)
(*                                                                         *)
(* Adds and deletes hold the lock of the directory for writing and the     *)
(* listing holds it for reading, so each call is one step; a listing that  *)
(* goes on over several calls sees the directory change in between.        *)
(***************************************************************************)
EXTENDS Integers, Sequences, SequencesExt, FiniteSets, FiniteSetsExt

CONSTANTS
    Names,       \* the names of the files
    Hash,        \* ext4fs_dirhash: the even hash of each name ...
    Minor,       \* ... its minor hash
    Size,        \* ... and ext4_dir_rec_len: the space its entry needs
    DotSize,     \* the space of "." and ".."
    BlockSize,   \* the space in a block, without the checksum tail
    TailSize,    \* the checksum tail
    RootLimit,   \* dx_root_limit
    NodeLimit,   \* dx_node_limit
    Levels,      \* ext4_dir_htree_level: levels of the index at the most
    MaxBlocks,   \* bound: blocks of the directory
    Ranks        \* orders of the names with the same hash after dx_sort_map

NoName == "none"
DotDot == ".."

\* A block holds three entries of any length, and block 0 does beside the dots.
ASSUME HTreeSizes ==
    /\ \A n \in Names : Hash[n] > 0 /\ Hash[n] % 2 = 0 /\ Minor[n] \in Nat
    /\ \A n \in Names : 0 < Size[n] /\ DotSize + 3 * Size[n] <= BlockSize
    /\ DotSize > 0 /\ TailSize \in Nat
    /\ RootLimit > 1 /\ NodeLimit >= RootLimit
    /\ Levels > 0 /\ MaxBlocks > 0

VARIABLES
    dir,      \* [indexed, levels, block, free]; free is 0 between calls
    names,    \* the names added and not deleted since
    scan      \* a listing in progress

vars == <<dir, names, scan>>

De(name, rec) == [name |-> name, rec |-> rec]
Entry(hash, blk) == [hash |-> hash, blk |-> blk]
Leaf(de) == [de |-> de, ent |-> <<>>]
Node(ent) == [de |-> <<>>, ent |-> ent]

SizeOf(name) == IF name = DotDot THEN DotSize ELSE IF name = NoName THEN 0 ELSE Size[name]

EOF == 1 + Max({Hash[n] : n \in Names}) + 1

-----------------------------------------------------------------------------
(* Entries of one block.                                                   *)

\* Mutant of Room: one unit too many.
RoomOff(e, n) == e.rec - SizeOf(e.name) + 1 >= Size[n]

\* ext4_find_dest_de: whether n goes into or behind the entry e.
Room(e, n) == e.rec - SizeOf(e.name) >= Size[n]

Fits(de, n) == {i \in 1 .. Len(de) : Room(de[i], n)}

\* ext4_insert_dentry
PutDe(de, i, n) ==
    IF de[i].name = NoName THEN [de EXCEPT ![i].name = n]
    ELSE InsertAt([de EXCEPT ![i].rec = SizeOf(de[i].name)], i + 1,
                  De(n, de[i].rec - SizeOf(de[i].name)))

\* ext4_generic_delete_entry
DeleteDe(de, i) ==
    IF i = 1 THEN [de EXCEPT ![1].name = NoName]
    ELSE RemoveAt([de EXCEPT ![i - 1].rec = @ + de[i].rec], i)

Live(de) == SelectSeq(de, LAMBDA e : e.name \notin {NoName, DotDot})

NamesIn(b) == {dir.block[b].de[i].name : i \in 1 .. Len(dir.block[b].de)} \cap Names

Sum(s) == FoldLeft(LAMBDA a, e : a + e.rec, 0, s)

\* Entries of their smallest size, the last one up to the end of the block:
\* dx_pack_dirents and dx_move_dirents.
Packed(s) == [i \in 1 .. Len(s) |-> De(s[i].name, SizeOf(s[i].name))]

Filling(s, name) == Append(s, De(name, BlockSize - Sum(s)))

Pack(s) == Filling(Packed(Front(s)), Last(s).name)

-----------------------------------------------------------------------------
(* The index.                                                              *)

Search(ent, h) == 1 + Cardinality({k \in 2 .. Len(ent) : ent[k].hash <= h})

\* dx_probe: the path to the leaf of hash h, a frame for each level.
Frame(d, b, h) == [blk |-> b, at |-> Search(d.block[b].ent, h)]

Below(d, f) == d.block[f.blk].ent[f.at].blk

Probe(d, h) ==
    FoldLeft(LAMBDA fr, k : Append(fr, Frame(d, Below(d, Last(fr)), h)),
             << Frame(d, 1, h) >>, [k \in 1 .. d.levels |-> k])

\* The leaves in the order ext4_htree_next_block walks them, with the keys it
\* finds: that of the first leaf of a node is in the entry of the node.
Expand(d, e) ==
    [k \in 1 .. Len(d.block[e.blk].ent) |->
        IF k = 1 THEN Entry(e.hash, d.block[e.blk].ent[1].blk) ELSE d.block[e.blk].ent[k]]

Leaves(d) ==
    FoldLeft(LAMBDA s, k : FlattenSeq([i \in 1 .. Len(s) |-> Expand(d, s[i])]),
             << Entry(0, 1) >>, [k \in 1 .. (d.levels + 1) |-> k])

Position(s, b) == CHOOSE i \in 1 .. Len(s) : s[i].blk = b

Start(d, s, h) == Position(s, Below(d, Last(Probe(d, h))))

\* ext4_htree_next_block for a name: go on while the next key continues h.
Continues(s, i, j, h) == \A k \in (i + 1) .. j : s[k].hash - (s[k].hash % 2) = h

Chain(s, i, h) == {s[j].blk : j \in {m \in i .. Len(s) : Continues(s, i, m, h)}}

\* __ext4_find_entry, ext4_dx_find_entry: the blocks searched, and the hits.
Searched(d, n) ==
    IF d.indexed THEN Chain(Leaves(d), Start(d, Leaves(d), Hash[n]), Hash[n]) ELSE {1}

FindEntry(d, n) == {b \in Searched(d, n) : n \in NamesIn(b)}

-----------------------------------------------------------------------------
(* Adding an entry.  A call works on dir with free, the number of blocks   *)
(* ext4_append will get; err is set when it gets none or the index is full.*)

Append1(d, b) == [d EXCEPT !.block = Append(@, b), !.free = @ - 1]
NewBlock(d) == Len(d.block) + 1
Fail(d) == [d EXCEPT !.err = TRUE]

\* Mutant of InsertBlock: the new entry goes in front of the one that was split.
InsertBlockBefore(d, f, h, b) ==
    [d EXCEPT !.block[f.blk].ent = InsertAt(@, f.at, Entry(h, b))]

\* dx_insert_block
InsertBlock(d, f, h, b) ==
    [d EXCEPT !.block[f.blk].ent = InsertAt(@, f.at + 1, Entry(h, b))]

\* dx_make_map and dx_sort_map.  The sort is not stable: the order of equal
\* hashes is that of rank.
SortMap(de, rank) ==
    SortSeq(Live(de), LAMBDA a, b : \/ Hash[a.name] < Hash[b.name]
                                    \/ Hash[a.name] = Hash[b.name] /\ rank[a.name] < rank[b.name])

\* do_split: the entries of the map that stay.  From the end of the map they
\* move while they fill less than half of a block.
Breaks(map) ==
    {i \in 1 .. Len(map) : 2 * Sum(SubSeq(map, i + 1, Len(map))) + map[i].rec > BlockSize + TailSize}

SplitAt(map) ==
    IF Breaks(map) # {} /\ Max(Breaks(map)) > 1 THEN Max(Breaks(map)) ELSE Len(map) \div 2

Staying(de, map, k) ==
    SelectSeq(Live(de), LAMBDA e : \E i \in 1 .. k : map[i].name = e.name)

\* Mutant of SplitKey: a hash that goes on in the next block is not marked.
SplitKeyPlain(map, k) == Hash[map[k + 1].name]

\* hash2 + continued
SplitKey(map, k) ==
    Hash[map[k + 1].name] + (IF Hash[map[k + 1].name] = Hash[map[k].name] THEN 1 ELSE 0)

\* The half that gets n has room for it behind its last entry.
PutLast(de, n) == PutDe(de, Len(de), n)

Halves(d, f, b, one, two, key, upper, n) ==
    InsertBlock(Append1([d EXCEPT !.block[b].de = IF upper THEN one ELSE PutLast(one, n)],
                        Leaf(IF upper THEN PutLast(two, n) ELSE two)),
                f, key, NewBlock(d))

SplitMapped(d, f, b, map, k, n) ==
    Halves(d, f, b, Pack(Staying(d.block[b].de, map, k)), Pack(SubSeq(map, k + 1, Len(map))),
           SplitKey(map, k), Hash[n] >= Hash[map[k + 1].name], n)

DoSplit(d, f, b, map, n) ==
    IF d.free = 0 THEN Fail(d) ELSE SplitMapped(d, f, b, map, SplitAt(map), n)

\* make_indexed_dir.  The entries move to a new leaf, and that is split; when
\* the second block cannot be had the directory stays indexed without n.
MoveOut(d, de) ==
    [d EXCEPT !.indexed = TRUE, !.free = @ - 1,
              !.block = << Node(<< Entry(0, 2) >>),
                           Leaf([de EXCEPT ![Len(de)].rec = @ + (BlockSize - Sum(de))]) >>]

SplitFirst(d, rank, n) ==
    DoSplit(d, [blk |-> 1, at |-> 1], 2, SortMap(d.block[2].de, rank), n)

MakeIndexedDir(d, rank, n) ==
    IF d.free = 0 THEN Fail(d)
    ELSE SplitFirst(MoveOut(d, Tail(d.block[1].de)), rank, n)

\* ext4_dx_add_entry.  Full(d, fr, k) is whether the node of frame k is full.
Limit(k) == IF k = 1 THEN RootLimit ELSE NodeLimit
Full(d, fr, k) == Len(d.block[fr[k].blk].ent) = Limit(k)

\* The lowest frame whose parent can take another entry, or the root.
SplitFrame(d, fr) == Max({1} \cup {k \in 2 .. Len(fr) : ~Full(d, fr, k - 1)})

\* Add a level: the entries of the root go to a new node below it.
AddLevel(d) ==
    [Append1(d, Node(d.block[1].ent)) EXCEPT !.block[1].ent = << Entry(0, NewBlock(d)) >>,
                                             !.levels = @ + 1]

\* Split the node of frame k in two.
SplitEntries(d, fr, k, ent, c) ==
    InsertBlock(Append1([d EXCEPT !.block[fr[k].blk].ent = SubSeq(ent, 1, c)],
                        Node([SubSeq(ent, c + 1, Len(ent)) EXCEPT ![1].hash = 0])),
                fr[k - 1], ent[c + 1].hash, NewBlock(d))

SplitNode(d, fr, k, ent) == SplitEntries(d, fr, k, ent, Len(ent) \div 2)

GrowIndex(d, fr, k) ==
    IF (k = 1 /\ Len(fr) = Levels) \/ d.free = 0 THEN Fail(d)
    ELSE IF k = 1 THEN AddLevel(d)
    ELSE SplitNode(d, fr, k, d.block[fr[k].blk].ent)

\* One pass: the leaf is split and the entry goes in, or the index grows first.
\* After the split of the lowest node the code goes on with the frame it has
\* adjusted, which is the one another dx_probe finds.
AddAtLeaf(d, fr, b, rank, n) ==
    IF Full(d, fr, Len(fr)) THEN GrowIndex(d, fr, SplitFrame(d, fr))
    ELSE [DoSplit(d, Last(fr), b, SortMap(d.block[b].de, rank), n) EXCEPT !.done = TRUE]

AddPass(d, fr, rank, n) == AddAtLeaf(d, fr, Below(d, Last(fr)), rank, n)

AddIndexed(d, rank, n) ==
    FoldLeft(LAMBDA x, k : IF x.err \/ x.done THEN x ELSE AddPass(x, Probe(x, Hash[n]), rank, n),
             d, [k \in 1 .. (Levels + 2) |-> k])

Begin(free) == [dir EXCEPT !.free = free]
End(d) == [d EXCEPT !.free = 0, !.err = FALSE, !.done = FALSE]

\* ext4_add_entry, after the caller has looked the name up.
AddDone(d, n) ==
    /\ dir' = End(d)
    /\ names' = IF d.err THEN names ELSE names \cup {n}

AddTo(b, n) ==
    IF Fits(dir.block[b].de, n) # {}
    THEN AddDone([dir EXCEPT !.block[b].de = PutDe(@, Min(Fits(@, n)), n)], n)
    ELSE \E free \in 0 .. Min({Levels + 1, MaxBlocks - Len(dir.block)}), rank \in Ranks :
           AddDone(IF dir.indexed THEN AddIndexed(Begin(free), rank, n)
                   ELSE MakeIndexedDir(Begin(free), rank, n), n)

AddEntry(n) ==
    /\ FindEntry(dir, n) = {}
    /\ AddTo(IF dir.indexed THEN Below(dir, Last(Probe(dir, Hash[n]))) ELSE 1, n)
    /\ UNCHANGED scan

\* ext4_delete_entry of the entry ext4_find_entry returned.
DeleteAt(n, b) ==
    dir' = [dir EXCEPT !.block[b].de =
              DeleteDe(@, CHOOSE i \in 1 .. Len(@) : @[i].name = n)]

DeleteEntry(n) ==
    /\ \E b \in FindEntry(dir, n) : DeleteAt(n, b)
    /\ names' = names \ {n}
    /\ scan' = [scan EXCEPT !.must = @ \ {n}, !.seen = @ \ {n}]

-----------------------------------------------------------------------------
(* Listing.                                                                *)

From(h, m, n) == Hash[n] > h \/ (Hash[n] = h /\ Minor[n] >= m)

Batch(s, i, j, h, m) ==
    {n \in UNION {NamesIn(s[k].blk) : k \in i .. j} : From(h, m, n)}

\* "." and ".." are listed first, and count.
Dots(h, m) == h < 2 \/ (h = 2 /\ m = 0)

\* Mutant of StopsAt: a key that continues a hash is no reason to go on.
StopsAtAny(s, i, j, h, m) == j = Len(s) \/ Dots(h, m) \/ Batch(s, i, j, h, m) # {}

\* ext4_htree_fill_tree: leaf j is the last one read.
StopsAt(s, i, j, h, m) ==
    \/ j = Len(s)
    \/ (Dots(h, m) \/ Batch(s, i, j, h, m) # {}) /\ s[j + 1].hash % 2 = 0

Filled(s, i, j, h, m) ==
    [batch |-> Batch(s, i, j, h, m), next |-> IF j = Len(s) THEN EOF ELSE s[j + 1].hash]

FillFrom(s, i, h, m) == Filled(s, i, Min({j \in i .. Len(s) : StopsAt(s, i, j, h, m)}), h, m)

FillTree(h, m) ==
    IF dir.indexed THEN FillFrom(Leaves(dir), Start(dir, Leaves(dir), h), h, m)
    ELSE [batch |-> {n \in NamesIn(1) : From(h, m, n)}, next |-> EOF]

\* ext4_dx_readdir (outside src/): the names with the smallest hash of the
\* batch are given to the user, and the position moves on.
First(S) == {n \in S : \A o \in S : From(Hash[n], Minor[n], o)}

Given(S, rest, next) ==
    scan' = [scan EXCEPT
        !.hash  = IF rest # {} THEN Hash[CHOOSE n \in First(rest) : TRUE] ELSE next,
        !.minor = IF rest # {} THEN Minor[CHOOSE n \in First(rest) : TRUE] ELSE 0,
        !.twice = @ \/ S \cap scan.seen # {},
        !.seen  = @ \cup (S \cap scan.must)]

Give(f) ==
    IF f.batch = {} THEN Given({}, {}, f.next)
    ELSE Given(First(f.batch), f.batch \ First(f.batch), f.next)

ReadDir ==
    /\ scan.hash < EOF
    /\ Give(FillTree(scan.hash, scan.minor))
    /\ UNCHANGED <<dir, names>>

\* A listing from the beginning.  must are the names there since then, seen
\* those of them that have been listed.
NewScan(must) ==
    [hash |-> 0, minor |-> 0, must |-> must, seen |-> {}, twice |-> FALSE]

OpenDir ==
    /\ scan.hash = EOF
    /\ scan' = NewScan(names)
    /\ UNCHANGED <<dir, names>>

Init ==
    /\ dir = [indexed |-> FALSE, levels |-> 0,
              block |-> << Leaf(<< De(DotDot, BlockSize) >>) >>,
              free |-> 0, err |-> FALSE, done |-> FALSE]
    /\ names = {}
    /\ scan = [NewScan({}) EXCEPT !.hash = EOF]

Next ==
    \/ \E n \in Names : AddEntry(n) \/ DeleteEntry(n)
    \/ ReadDir
    \/ OpenDir

Spec == Init /\ [][Next]_vars

-----------------------------------------------------------------------------
(* Properties.                                                             *)

Blocks == 1 .. Len(dir.block)
IsLeaf(b) == dir.block[b].ent = <<>>

TypeOK ==
    /\ dir.free = 0 /\ ~dir.err /\ ~dir.done
    /\ dir.levels \in 0 .. (Levels - 1) /\ Len(dir.block) <= MaxBlocks
    /\ names \subseteq Names
    /\ scan.hash \in 0 .. EOF /\ scan.must \subseteq names

\* The entries of a leaf fill its block exactly and each has room for its name:
\* what add_dirent_to_buf takes for granted of the entry do_split gives it.
EntriesFit ==
    \A b \in Blocks : IsLeaf(b) =>
        /\ Sum(dir.block[b].de) = BlockSize
        /\ \A i \in 1 .. Len(dir.block[b].de) :
             dir.block[b].de[i].rec >= SizeOf(dir.block[b].de[i].name)
        /\ \A i \in 2 .. Len(dir.block[b].de) : dir.block[b].de[i].name # NoName

\* The index is a tree over all blocks of the directory, its nodes are within
\* their limits, and the keys of the leaves are in order, with the entries of
\* each leaf between its key and the next: no split of a leaf or a node, and no
\* split that fails half way, breaks it.
IndexValid ==
    dir.indexed =>
      LET s == Leaves(dir)
          nodes == {b \in Blocks : ~IsLeaf(b)}
      IN  /\ {s[i].blk : i \in 1 .. Len(s)} = {b \in Blocks : IsLeaf(b)}
          /\ Cardinality({s[i].blk : i \in 1 .. Len(s)}) = Len(s)
          /\ dir.levels < Levels /\ \A b \in nodes : Len(dir.block[b].ent) <= Limit(b)
          /\ \A i \in 1 .. Len(s) : \A n \in NamesIn(s[i].blk) :
               /\ s[i].hash - (s[i].hash % 2) <= Hash[n]
               /\ i < Len(s) => Hash[n] <= s[i + 1].hash
          /\ \A i \in 2 .. Len(s) : s[i - 1].hash <= s[i].hash

\* A lookup finds exactly the names that have been added and not deleted, in
\* one block: whatever blocks a hash has been spread over.
LookupExact ==
    \A n \in Names : Cardinality(FindEntry(dir, n)) = (IF n \in names THEN 1 ELSE 0)

\* A name that is in the directory from the start of a listing to its end is
\* listed exactly once, whatever is added, deleted and split in the meantime.
ListedOnce ==
    /\ ~scan.twice
    /\ scan.hash = EOF => scan.must \subseteq scan.seen
==============================================================================
