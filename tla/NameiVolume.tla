----------------------------- MODULE NameiVolume -----------------------------
(***************************************************************************)
(* What a volume is like when no error is recorded: each inode, and the    *)
(* directories, which are a tree whose link counts count subdirectories.   *)
(* That a directory is below the root is said without following "..",      *)
(* which would need induction: every set of directories in use that has    *)
(* the ".." of each of its members has the root. Then, what the calls of   *)
(* Namei that succeed make of a volume.                                    *)
(***************************************************************************)
EXTENDS Namei

Fs == [kind : [Inos -> {"free", "file", "dir"}],
       nlink : [Inos -> Nat],
       entry : [Places -> Inos \cup {NoIno}],
       dotdot : [Inos -> Inos \cup {NoIno}],
       dx : SUBSET Inos, orphan : SUBSET Inos, linkable : SUBSET Inos]

\* The places that lead to an inode.
LinksOf(s, i) == {p \in Places : s.entry[p] = i}

\* A free inode has left nothing behind, and nobody holds it.
FreeInode(s, O, i) ==
    /\ s.nlink[i] = 0 /\ LinksOf(s, i) = {} /\ s.dotdot[i] = NoIno
    /\ i \notin s.dx /\ i \notin s.orphan /\ i \notin s.linkable /\ i \notin O

\* A file has as many links as its count says.
FileInode(s, i) ==
    s.nlink[i] = Cardinality(LinksOf(s, i)) /\ i \notin s.dx /\ s.dotdot[i] = NoIno

\* A directory has one link at most, and none when its count is zero.
DirInode(s, i) ==
    /\ s.nlink[i] = 0 => LinksOf(s, i) = {}
    /\ \A p, q \in LinksOf(s, i) : p = q
    /\ i \notin s.linkable

\* An inode in use is on the orphan list when it has no links, and held then.
ListedInode(s, O, i) ==
    /\ i \in s.orphan <=> s.kind[i] # "free" /\ s.nlink[i] = 0
    /\ i \in s.orphan => i \in O
    /\ i \in s.linkable => s.nlink[i] = 0

GoodInode(s, O, i) ==
    /\ s.kind[i] = "free" => FreeInode(s, O, i)
    /\ s.kind[i] = "file" => FileInode(s, i)
    /\ s.kind[i] = "dir" => DirInode(s, i)
    /\ ListedInode(s, O, i)

\* No directory has an entry for itself.
NoSelf(s) == \A d \in Inos, n \in Names : s.entry[<<d, n>>] # d

\* The volume s when the inodes in O are held, by processes or by the call.
Good(s, O) ==
    /\ s \in Fs /\ O \subseteq Inos
    /\ \A i \in Inos : GoodInode(s, O, i)
    /\ NoSelf(s)

InUse(s, k) == s.kind[k] = "dir" /\ s.nlink[k] > 0

\* The names under which a directory has subdirectories.
SubdirsOf(s, d) == {n \in Names : IsDir(s, s.entry[<<d, n>>])}

\* Only directories in use have entries, and each but the root is one, in "..".
Placed(s, k) ==
    /\ \A n \in Names : s.entry[<<k, n>>] # NoIno => InUse(s, k)
    /\ InUse(s, k) => s.dotdot[k] \in Inos
    /\ InUse(s, k) /\ k # Root => \E n \in Names : s.entry[<<s.dotdot[k], n>>] = k

\* A count n for c subdirectories.
Fits(n, c, indexed) == n <= LinkMax /\ (n = 2 + c \/ (n = 1 /\ indexed /\ DirNlink))

Counted(s, k) ==
    /\ s.nlink[k] <= LinkMax
    /\ InUse(s, k) => Fits(s.nlink[k], Cardinality(SubdirsOf(s, k)), k \in s.dx)

Closed(s, S) == S \subseteq Inos /\ \A k \in S : s.dotdot[k] \in S

Rooted(s) ==
    \A S : Closed(s, S) /\ S # {} /\ (\A k \in S : InUse(s, k)) => Root \in S

RootOK(s) == InUse(s, Root) /\ s.dotdot[Root] = Root /\ \A p \in Places : s.entry[p] # Root

Tree(s) == RootOK(s) /\ Rooted(s) /\ \A k \in Inos : Placed(s, k) /\ Counted(s, k)

Sound(s, O) == Good(s, O) /\ Tree(s)

\* What ext4_inc_count and ext4_dec_count make of the count of a directory.
Inc(n, indexed) == IF indexed /\ (n + 1 > LinkMax \/ n + 1 = 2) THEN 1 ELSE n + 1

Dec(n) == IF n > 2 THEN n - 1 ELSE n

\* The file i, new or not, gets a link, at (d, n).
Named(s, u, d, n, i) ==
    /\ u \in Fs /\ u.entry = [s.entry EXCEPT ![<<d, n>>] = i] /\ u.dotdot = s.dotdot /\ s.dx \subseteq u.dx
    /\ u.kind[i] = "file" /\ u.nlink[i] = s.nlink[i] + 1
    /\ \A k \in Inos \ {i} : u.kind[k] = s.kind[k] /\ u.nlink[k] = s.nlink[k]

\* The new directory i is at (d, n), and d has one more.
Grown(s, u, d, n, i) ==
    /\ u \in Fs /\ u.entry = [s.entry EXCEPT ![<<d, n>>] = i] /\ u.dotdot = [s.dotdot EXCEPT ![i] = d]
    /\ s.dx \subseteq u.dx /\ u.kind = [s.kind EXCEPT ![i] = "dir"]
    /\ u.nlink[i] = 2 /\ u.nlink[d] = Inc(s.nlink[d], d \in u.dx)
    /\ \A k \in Inos \ {i, d} : u.nlink[k] = s.nlink[k]

\* The volume without the entry at (d, n), the link of i it was, and, when i is a
\* directory, its share in d's count.
Unnamed(s, u, d, n, i) ==
    /\ u \in Fs
    /\ u.kind = s.kind /\ u.entry = [s.entry EXCEPT ![<<d, n>>] = NoIno] /\ u.dotdot = s.dotdot /\ u.dx = s.dx
    /\ u.nlink[i] = IF s.kind[i] = "dir" THEN 0 ELSE s.nlink[i] - 1
    /\ u.nlink[d] = IF s.kind[i] = "dir" THEN Dec(s.nlink[d]) ELSE s.nlink[d]
    /\ \A k \in Inos \ {i, d} : u.nlink[k] = s.nlink[k]

\* What stands where before the call.
MoveFrom(s, d, n, e, m, i, j) ==
    /\ d \in Inos /\ e \in Inos /\ n \in Names /\ m \in Names
    /\ s.kind[d] = "dir" /\ s.nlink[d] > 0 /\ s.kind[e] = "dir" /\ s.nlink[e] > 0
    /\ s.entry[<<d, n>>] = i /\ s.entry[<<e, m>>] = j /\ i \in Inos /\ i # j /\ i # e /\ j # d

\* ".." after it.
DotDot(s, d, e, i, j, v, k) ==
    IF d = e \/ s.kind[k] # "dir" THEN s.dotdot[k]
    ELSE IF k = i THEN e ELSE IF k = j /\ v = j THEN d ELSE s.dotdot[k]

\* The link count after it: j, unless it is v, has lost a link, a directory all of
\* them, and the two directories are in use.
MovedCount(s, u, d, e, j, v, k) ==
    IF k = j /\ v # j THEN u.nlink[k] = IF s.kind[k] = "dir" THEN 0 ELSE s.nlink[k] - 1
    ELSE IF k = v /\ k # j THEN u.nlink[k] = 1
    ELSE IF k \in {d, e} THEN u.nlink[k] > 0 ELSE u.nlink[k] = s.nlink[k]

MovedInode(s, u, d, e, i, j, v, k) ==
    /\ u.kind[k] = IF k = v /\ k # j THEN "file" ELSE s.kind[k]
    /\ u.dotdot[k] = DotDot(s, d, e, i, j, v, k)
    /\ k \in u.orphan <=> k \in s.orphan \/ (k = j /\ v # j /\ u.nlink[k] = 0)
    /\ MovedCount(s, u, d, e, j, v, k)

MovedEntry(s, u, d, n, e, m, i, v) == u.entry = [s.entry EXCEPT ![<<e, m>>] = i, ![<<d, n>>] = v]

\* After it: v, which is nothing, j or a new whiteout, has i's place.
Moved(s, u, d, n, e, m, i, j, v) ==
    /\ u \in Fs
    /\ v \in {NoIno, j} \/ (v \in Inos /\ s.kind[v] = "free")
    /\ MovedEntry(s, u, d, n, e, m, i, v)
    /\ s.dx \subseteq u.dx /\ u.dx \subseteq s.dx \cup {e} /\ u.linkable = s.linkable
    /\ \A k \in Inos : MovedInode(s, u, d, e, i, j, v, k)

\* The counts of the two directories after ext4_rename of a directory, or not one.
RenameCounts(s, u, d, e, isDir, j) ==
    \A k \in {d, e} :
        LET left == IF isDir /\ k = d THEN Dec(s.nlink[k]) ELSE s.nlink[k] IN
        u.nlink[k] = IF isDir /\ j = NoIno /\ k = e THEN Inc(left, k \in u.dx) ELSE left

\* The counts of the two directories after ext4_cross_rename, by what is a directory.
CrossCounted(s, u, d, e, iDir, jDir) ==
    \A k \in {d, e} :
        u.nlink[k] = IF d = e \/ (iDir <=> jDir) THEN s.nlink[k]
                     ELSE IF iDir <=> k = d THEN Dec(s.nlink[k]) ELSE Inc(s.nlink[k], k \in s.dx)

=============================================================================
