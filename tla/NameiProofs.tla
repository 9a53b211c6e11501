----------------------------- MODULE NameiProofs -----------------------------
(***************************************************************************)
(* For any inode numbers, names and link limit: until an error is recorded *)
(* link counts are exact, the directories are a tree, no lookup meets a    *)
(* deleted inode, the orphan list is exactly the inodes without links, all *)
(* of them open, and a call that fails undoes itself.                      *)
(***************************************************************************)
EXTENDS NameiLinks, NameiTree

\* A volume with an error recorded may be anything, until e2fsck has run.
IInv == error \in BOOLEAN /\ (~error => Sound(fs, open))

-----------------------------------------------------------------------------
(* Naming an inode *)

\* ext4_create, ext4_mknod and ext4_symlink.
LEMMA CreateGood ==
    ASSUME NEW s, NEW O, Good(s, O), NEW d \in Inos, NEW n \in Names, NEW i \in Inos, NEW x \in BOOLEAN,
           s.kind[i] = "free", s.kind[d] = "dir", s.entry[<<d, n>>] = NoIno
    PROVE  LET u == AddEntry(NewInode(s, i), d, n, i, x) IN Good(u, O) /\ Named(s, u, d, n, i)
<1> DEFINE u == AddEntry(NewInode(s, i), d, n, i, x)
           p == <<d, n>>
<1>1. s \in Fs /\ p \in Places /\ NoIno \notin Inos /\ d # i
  BY NameiAssumption, Zenon DEF Good, Places
<1>2. /\ u.kind = [s.kind EXCEPT ![i] = "file"] /\ u.nlink = [s.nlink EXCEPT ![i] = 1]
      /\ u.entry = [s.entry EXCEPT ![p] = i] /\ u.dotdot = s.dotdot
      /\ u.dx = (IF x THEN s.dx \cup {d} ELSE s.dx)
      /\ u.orphan = s.orphan /\ u.linkable = s.linkable
      /\ u \in Fs
  BY <1>1, ZenonT(60) DEF AddEntry, SetEnt, NewInode, Fs
<1> HIDE DEF u
<1>3. ASSUME NEW k \in Inos PROVE GoodInode(u, O, k)
  <2>1. GoodInode(s, O, k) /\ s.kind[k] \in {"free", "file", "dir"}
    BY <1>1, Zenon DEF Good, Fs
  <2>2. k # i => LinksOf(u, k) = LinksOf(s, k)
    BY <1>1, <1>2, LinksChange
  <2>3. k = i => Cardinality(LinksOf(u, k)) = Cardinality(LinksOf(s, k)) + 1
    BY <1>1, <1>2, LinksChange
  <2>4. k = i => Cardinality(LinksOf(s, k)) = 0
    BY <2>1, FS_EmptySet, Zenon DEF GoodInode, FreeInode
  <2>5. CASE k = i
    BY <1>1, <1>2, <2>1, <2>3, <2>4, <2>5, SMTT(30) DEF GoodInode, FreeInode, FileInode, ListedInode, Fs
  <2>6. CASE k # i
    BY <1>1, <1>2, <2>1, <2>2, <2>6 DEF GoodInode, FreeInode, FileInode, DirInode, ListedInode, Fs
  <2> QED BY <2>5, <2>6, Zenon
<1>4. NoSelf(u)
  <2>1. EntryPut(s, u, d, n, i)
    BY <1>1, <1>2, Zenon DEF Good, EntryPut
  <2> QED BY <2>1, NoSelfEntry, Zenon
<1>5. Good(u, O)
  BY <1>2, <1>3, <1>4, Zenon DEF Good
<1>6. s.nlink[i] = 0
  BY Zenon DEF Good, GoodInode, FreeInode
<1>7. Named(s, u, d, n, i)
  BY <1>1, <1>2, <1>6 DEF Named, Fs
<1> QED BY <1>5, <1>7, Zenon DEF u

\* ext4_link, a tmpfile's first name included.
LEMMA LinkGood ==
    ASSUME NEW s, NEW O, Good(s, O), NEW d \in Inos, NEW n \in Names, NEW i \in Inos, NEW x \in BOOLEAN,
           s.entry[<<d, n>>] = NoIno, s.kind[d] = "dir", s.kind[i] = "file"
    PROVE  LET u == LinkAdded(AddEntry(IncCount(s, i), d, n, i, x), i) IN Good(u, O) /\ Named(s, u, d, n, i)
<1> DEFINE t == AddEntry(IncCount(s, i), d, n, i, x)
           u == LinkAdded(t, i)
           p == <<d, n>>
<1>1. s \in Fs /\ p \in Places /\ NoIno \notin Inos /\ i # d /\ GoodInode(s, O, i) /\ s.nlink[i] \in Nat
  BY NameiAssumption, Zenon DEF Good, Places, Fs
<1>2. IncCount(s, i) = [s EXCEPT !.nlink[i] = s.nlink[i] + 1]
  BY <1>1, Zenon DEF IncCount, GoodInode, FileInode
<1>3. /\ t.kind = s.kind /\ t.nlink = [s.nlink EXCEPT ![i] = s.nlink[i] + 1]
      /\ t.entry = [s.entry EXCEPT ![p] = i] /\ t.dotdot = s.dotdot
      /\ t.dx = (IF x THEN s.dx \cup {d} ELSE s.dx)
      /\ t.orphan = s.orphan /\ t.linkable = s.linkable
      /\ t \in Fs
  <2> DEFINE c == s.nlink[i] + 1
  <2>1. c \in Nat /\ t = AddEntry([s EXCEPT !.nlink[i] = c], d, n, i, x)
    BY <1>1, <1>2
  <2> HIDE DEF c, t
  <2>2. /\ t.kind = s.kind /\ t.nlink = [s.nlink EXCEPT ![i] = c]
        /\ t.entry = [s.entry EXCEPT ![p] = i] /\ t.dotdot = s.dotdot
        /\ t.dx = (IF x THEN s.dx \cup {d} ELSE s.dx)
        /\ t.orphan = s.orphan /\ t.linkable = s.linkable
        /\ t \in Fs
    BY <1>1, <2>1, Zenon DEF AddEntry, SetEnt, Fs
  <2> QED BY <2>2, Zenon DEF c
<1> HIDE DEF t
<1>4. t.nlink[i] = s.nlink[i] + 1
  BY <1>1, <1>3, Zenon DEF Fs
<1>5. /\ u.kind = t.kind /\ u.nlink = t.nlink /\ u.entry = t.entry /\ u.dotdot = t.dotdot
      /\ u.dx = t.dx /\ u.linkable = t.linkable \ {i}
      /\ u.orphan = (IF s.nlink[i] = 0 THEN t.orphan \ {i} ELSE t.orphan)
      /\ u \in Fs
  <2>1. CASE s.nlink[i] = 0
    BY <1>3, <1>4, <2>1 DEF LinkAdded, OrphanDel, Fs
  <2>2. CASE s.nlink[i] # 0
    <3>1. u = [t EXCEPT !.linkable = t.linkable \ {i}]
      <4>1. ~(t.nlink[i] = 1)
        BY <1>1, <1>4, <2>2
      <4> QED BY <4>1, Zenon DEF LinkAdded
    <3> HIDE DEF u
    <3> QED BY <1>3, <2>2, <3>1, Zenon DEF Fs
  <2> QED BY <2>1, <2>2, Zenon
<1> HIDE DEF u
<1>6. ASSUME NEW k \in Inos PROVE GoodInode(u, O, k)
  <2>1. GoodInode(s, O, k) /\ u.kind[k] = s.kind[k] /\ s.nlink[k] \in Nat
        /\ u.nlink[k] = (IF k = i THEN s.nlink[k] + 1 ELSE s.nlink[k])
    BY <1>1, <1>3, <1>5, SMTT(30) DEF Good, Fs
  <2>2. CASE k # i
    <3>1. LinksOf(u, k) = LinksOf(s, k)
      BY <1>1, <1>3, <1>5, <2>2, LinksChange, SMTT(30)
    <3> QED BY <1>1, <1>3, <1>5, <2>1, <2>2, <3>1, SMTT(30) DEF GoodInode, FreeInode, FileInode, DirInode, ListedInode
  <2>3. CASE k = i
    <3>1. Cardinality(LinksOf(u, k)) = Cardinality(LinksOf(s, k)) + 1
      BY <1>1, <1>3, <1>5, <2>3, LinksChange
    <3> QED BY <1>1, <1>3, <1>5, <2>1, <2>3, <3>1, SMTT(30) DEF GoodInode, FileInode, ListedInode
  <2> QED BY <2>2, <2>3, Zenon
<1>7. NoSelf(u)
  <2>1. EntryPut(s, u, d, n, i)
    BY <1>1, <1>3, <1>5, Zenon DEF Good, EntryPut
  <2> QED BY <2>1, NoSelfEntry, Zenon
<1>8. Good(u, O)
  BY <1>5, <1>6, <1>7, Zenon DEF Good
<1>9. Named(s, u, d, n, i)
  BY <1>1, <1>3, <1>5 DEF Named, Fs
<1> QED BY <1>8, <1>9, Zenon DEF t, u

-----------------------------------------------------------------------------
(* Calls that fail *)

\* A new inode i, in what state ever, that the failing call has no links for.
Fresh(s, t, i) ==
    /\ t \in Fs /\ t.nlink = s.nlink /\ t.entry = s.entry
    /\ t.dx = s.dx /\ t.orphan = s.orphan /\ t.linkable = s.linkable
    /\ \A k \in Inos \ {i} : t.kind[k] = s.kind[k] /\ t.dotdot[k] = s.dotdot[k]

\* A new inode that is given up is freed without a trace.
LEMMA FreshFreed ==
    ASSUME NEW s, NEW O, Good(s, O), NEW i \in Inos, s.kind[i] = "free", NEW t, Fresh(s, t, i)
    PROVE  Iput(OrphanAdd(t, i), {i}, O) = s
<1> DEFINE r == OrphanAdd(t, i)
           dead == {k \in {i} : k # NoIno /\ r.nlink[k] = 0} \ O
           u == Iput(r, {i}, O)
<1>1. /\ s \in Fs /\ t \in Fs /\ s.nlink[i] = 0 /\ s.dotdot[i] = NoIno /\ i \notin O /\ i # NoIno
      /\ i \notin s.dx /\ i \notin s.orphan /\ i \notin s.linkable
  BY NameiAssumption, Zenon DEF Good, GoodInode, FreeInode, Fresh
<1>2. /\ r \in Fs /\ r.kind = t.kind /\ r.nlink = t.nlink /\ r.entry = t.entry /\ r.dotdot = t.dotdot
      /\ r.dx = t.dx /\ r.linkable = t.linkable /\ r.orphan = t.orphan \cup {i}
  BY <1>1, Zenon DEF OrphanAdd, Fs
<1> HIDE DEF r
<1>3. dead = {i}
  BY <1>1, <1>2, Zenon DEF Fresh
<1>4. /\ u.kind = [k \in Inos |-> IF k \in dead THEN "free" ELSE r.kind[k]]
      /\ u.dotdot = [k \in Inos |-> IF k \in dead THEN NoIno ELSE r.dotdot[k]]
      /\ u.dx = r.dx \ dead /\ u.orphan = r.orphan \ dead /\ u.linkable = r.linkable \ dead
      /\ u.nlink = r.nlink /\ u.entry = r.entry
      /\ u \in Fs
  BY <1>2, ZenonT(60) DEF Iput, Fs
<1> HIDE DEF dead, u
<1>5. u.kind = s.kind
  BY <1>1, <1>2, <1>3, <1>4, SMTT(30) DEF Fresh, Fs
<1>6. u.dotdot = s.dotdot
  BY <1>1, <1>2, <1>3, <1>4, SMTT(30) DEF Fresh, Fs
<1>7. u.dx = s.dx /\ u.orphan = s.orphan /\ u.linkable = s.linkable /\ u.nlink = s.nlink /\ u.entry = s.entry
  BY <1>1, <1>2, <1>3, <1>4, SMTT(30) DEF Fresh
<1>8. u = s
  BY <1>1, <1>4, <1>5, <1>6, <1>7, SMTT(30) DEF Fs
<1> QED BY <1>8, Zenon DEF u, r

\* ext4_add_nondir and ext4_mkdir without a block or room for the entry.
LEMMA NewUndone ==
    ASSUME Good(fs, open), NEW i \in Inos, fs.kind[i] = "free", NEW d \in Inos
    PROVE  DropNew(NewInode(fs, i), i) = fs /\ DropNew(InitNewDir(NewInode(fs, i), d, i), i) = fs
<1> DEFINE f == ClearNlink(NewInode(fs, i), i)
           g == ClearNlink(InitNewDir(NewInode(fs, i), d, i), i)
<1>1. fs \in Fs /\ fs.nlink[i] = 0
  BY Zenon DEF Good, GoodInode, FreeInode
<1>2. fs.nlink = [fs.nlink EXCEPT ![i] = 0]
  BY <1>1, Zenon DEF Fs
<1>3. /\ f \in Fs /\ f.entry = fs.entry /\ f.dx = fs.dx /\ f.orphan = fs.orphan /\ f.linkable = fs.linkable
      /\ f.nlink = [fs.nlink EXCEPT ![i] = 0] /\ f.kind = [fs.kind EXCEPT ![i] = "file"] /\ f.dotdot = fs.dotdot
  BY <1>1, Zenon DEF ClearNlink, NewInode, Fs
<1>4. /\ g \in Fs /\ g.entry = fs.entry /\ g.dx = fs.dx /\ g.orphan = fs.orphan /\ g.linkable = fs.linkable
      /\ g.nlink = [fs.nlink EXCEPT ![i] = 0] /\ g.kind = [fs.kind EXCEPT ![i] = "dir"]
      /\ g.dotdot = [fs.dotdot EXCEPT ![i] = d]
  BY <1>1, Zenon DEF ClearNlink, NewInode, InitNewDir, Fs
<1> HIDE DEF f, g
<1>5. Fresh(fs, f, i) /\ Fresh(fs, g, i)
  BY <1>1, <1>2, <1>3, <1>4 DEF Fresh, Fs
<1>6. Iput(OrphanAdd(f, i), {i}, open) = fs /\ Iput(OrphanAdd(g, i), {i}, open) = fs
  BY <1>5, FreshFreed, Zenon
<1> QED BY <1>6, Zenon DEF DropNew, f, g

\* end_rename, with the whiteout in the old entry's place or not yet there.
LEMMA WhiteoutUndone ==
    ASSUME Good(fs, open), NEW d \in Inos, NEW n \in Names, NEW i \in Inos, fs.entry[<<d, n>>] = i,
           NEW w \in Inos, fs.kind[w] = "free"
    PROVE  /\ EndRename(NewInode(fs, w), d, n, i, w, FALSE) = fs
           /\ EndRename(SetEnt(NewInode(fs, w), d, n, w), d, n, i, w, FALSE) = fs
<1> DEFINE f == DropNlink(SetEnt(NewInode(fs, w), d, n, i), w)
           g == DropNlink(SetEnt(SetEnt(NewInode(fs, w), d, n, w), d, n, i), w)
<1>1. fs \in Fs /\ fs.nlink[w] = 0 /\ w # NoIno /\ <<d, n>> \in Places
  BY NameiAssumption, Zenon DEF Good, GoodInode, FreeInode, Places
<1>2. fs.nlink = [fs.nlink EXCEPT ![w] = 0] /\ fs.entry = [fs.entry EXCEPT ![<<d, n>>] = i]
  BY <1>1, Zenon DEF Fs
<1>3. /\ f \in Fs /\ f.entry = [fs.entry EXCEPT ![<<d, n>>] = i]
      /\ f.dx = fs.dx /\ f.orphan = fs.orphan /\ f.linkable = fs.linkable
      /\ f.nlink = [fs.nlink EXCEPT ![w] = 0] /\ f.kind = [fs.kind EXCEPT ![w] = "file"] /\ f.dotdot = fs.dotdot
  BY <1>1 DEF DropNlink, SetEnt, NewInode, Fs
<1>4. SetEnt(SetEnt(NewInode(fs, w), d, n, w), d, n, i) = SetEnt(NewInode(fs, w), d, n, i)
  BY <1>1, ZenonT(60) DEF SetEnt, NewInode, Fs
<1>5. g = f
  BY <1>4, Zenon
<1> HIDE DEF f, g
<1>6. Fresh(fs, f, w)
  BY <1>1, <1>2, <1>3 DEF Fresh, Fs
<1>7. Iput(OrphanAdd(f, w), {w}, open) = fs
  BY <1>6, FreshFreed, Zenon
<1>8. /\ EndRename(NewInode(fs, w), d, n, i, w, FALSE) = Iput(OrphanAdd(f, w), {w}, open)
      /\ EndRename(SetEnt(NewInode(fs, w), d, n, w), d, n, i, w, FALSE) = Iput(OrphanAdd(g, w), {w}, open)
  BY <1>1, Zenon DEF EndRename, f, g
<1> QED BY <1>5, <1>7, <1>8, Zenon

\* __ext4_link without room for the entry.
LEMMA LinkUndone ==
    ASSUME Good(fs, open), NEW i \in Inos, fs.kind[i] = "file"
    PROVE  DropNlink(IncCount(fs, i), i) = fs
<1> DEFINE c == fs.nlink[i] + 1
           u == [fs EXCEPT !.nlink[i] = c]
<1>1. fs \in Fs /\ GoodInode(fs, open, i) /\ fs.nlink[i] \in Nat
  BY Zenon DEF Good, Fs
<1>2. IncCount(fs, i) = u /\ c \in Nat /\ c - 1 = fs.nlink[i]
  BY <1>1 DEF IncCount, GoodInode, FileInode
<1> HIDE DEF c
<1>3. u \in Fs /\ u.nlink[i] = c
  BY <1>1, <1>2, Zenon DEF Fs
<1>4. DropNlink(u, i) = [u EXCEPT !.nlink[i] = fs.nlink[i]]
  BY <1>2, <1>3, Zenon DEF DropNlink
<1>5. [u EXCEPT !.nlink[i] = fs.nlink[i]] = fs
  BY <1>1, <1>2, Zenon DEF Fs
<1> QED BY <1>2, <1>4, <1>5, Zenon

-----------------------------------------------------------------------------
(* The steps *)

\* What every step has to do.
StepOK == IInv' /\ (failed' /\ ~error' => fs' = fs)

\* A call that ends without an error recorded has succeeded or changed nothing.
LEMMA ReturnOK ==
    ASSUME IInv, NEW s, NEW fault, Return(s, fault),
           ~error /\ Sound(fs, open) /\ fault = "none" => Sound(s, open),
           ~error /\ Sound(fs, open) /\ fault \in NoSpace \cup {"refused"} => s = fs
    PROVE  StepOK
<1>1. /\ ~error /\ fs' = s /\ failed' = (fault \notin {"none", "delete"})
      /\ error' = (fault \notin NoSpace \cup {"none", "refused"})
      /\ open' = IF error' THEN {} ELSE open
  BY Zenon DEF Return, ReturnWith
<1>2. Sound(fs, open) /\ error' \in BOOLEAN
  BY <1>1, Zenon DEF IInv
<1>3. CASE fault = "none"
  <2>1. Sound(s, open) /\ ~error' /\ ~failed'
    BY <1>1, <1>2, <1>3, Zenon
  <2> QED BY <1>1, <1>2, <2>1, Zenon DEF StepOK, IInv
<1>4. CASE fault \in NoSpace \cup {"refused"}
  <2>1. s = fs /\ ~error'
    BY <1>1, <1>2, <1>4, Zenon
  <2> QED BY <1>1, <1>2, <2>1, Zenon DEF StepOK, IInv
<1>5. CASE fault \notin NoSpace \cup {"none", "refused"}
  <2>1. error'
    BY <1>1, <1>5, ZenonT(60)
  <2> QED BY <1>2, <2>1, Zenon DEF StepOK, IInv
<1> QED BY <1>3, <1>4, <1>5, Zenon

\* ext4_create, ext4_mknod and ext4_symlink, however they end.
LEMMA CreateOK ==
    ASSUME IInv, NEW d \in Inos, NEW n \in Names, NEW i \in Inos, NEW x \in BOOLEAN, NEW f,
           (Create(d, n, i, f, x) /\ f # "block") \/ Symlink(d, n, i, f, x),
           f \in {"none", "new", "block", "add", "inode"}
    PROVE  StepOK
<1>1. fs.kind[i] = "free" /\ fs.kind[d] = "dir" /\ fs.nlink[d] > 0 /\ fs.entry[<<d, n>>] = NoIno
  BY Zenon DEF Create, Symlink, CanAdd, CanUse, IsDir
<1> DEFINE s == IF f = "new" THEN fs
                ELSE IF f = "block" THEN DropNew(NewInode(fs, i), i)
                ELSE AddNondir(NewInode(fs, i), d, n, i, f, x)
<1>2. Return(s, f)
  <2>1. CASE Create(d, n, i, f, x) /\ f # "block"
    BY <2>1, Zenon DEF Create
  <2>2. CASE Symlink(d, n, i, f, x)
    BY <2>2, Zenon DEF Symlink
  <2> QED BY <2>1, <2>2, Zenon
<1>3. ~error /\ Sound(fs, open) /\ f = "none" => Sound(s, open)
  <2> SUFFICES ASSUME Sound(fs, open), f = "none" PROVE Sound(s, open)
    BY Zenon
  <2>1. Good(fs, open) /\ InUse(fs, d) /\ fs.nlink[i] < LinkMax
    BY <1>1, NameiAssumption DEF Sound, Good, GoodInode, FreeInode, InUse
  <2>2. Good(s, open) /\ Named(fs, s, d, n, i)
    BY <1>1, <2>1, CreateGood, Zenon DEF AddNondir
  <2> HIDE DEF s
  <2>3. Tree(s)
    BY <1>1, <2>1, <2>2, NamedTree, Zenon
  <2> QED BY <2>2, <2>3, Zenon DEF Sound
<1>4. ~error /\ Sound(fs, open) /\ f \in NoSpace \cup {"refused"} => s = fs
  <2>1. Sound(fs, open) => DropNew(NewInode(fs, i), i) = fs
    BY <1>1, NewUndone, Zenon DEF Sound
  <2> QED BY <2>1, Zenon DEF NoSpace, AddNondir
<1> HIDE DEF s
<1> QED BY <1>2, <1>3, <1>4, ReturnOK, Zenon

\* ext4_mkdir
LEMMA MkdirOK ==
    ASSUME IInv, NEW d \in Inos, NEW n \in Names, NEW i \in Inos, NEW x \in BOOLEAN, Mkdir(d, n, i, x)
    PROVE  StepOK
<1>1. fs.kind[i] = "free" /\ fs.kind[d] = "dir" /\ fs.nlink[d] > 0 /\ fs.entry[<<d, n>>] = NoIno
      /\ ~DirLinkMax(fs, d)
  BY Zenon DEF Mkdir, CanAdd, CanUse, IsDir
<1> DEFINE stages == MkdirStages(d, n, i, x)
<1>2. PICK f \in {"new", "block", "inode", "add", "dir", "none"} : Return(stages[f], f)
  BY ZenonT(60) DEF Mkdir, EndAt, MkdirStages
<1>3. /\ stages["new"] = fs /\ stages["block"] = DropNew(NewInode(fs, i), i)
      /\ stages["add"] = DropNew(InitNewDir(NewInode(fs, i), d, i), i)
      /\ stages["none"] = IncCount(AddEntry(InitNewDir(NewInode(fs, i), d, i), d, n, i, x), d)
  BY Zenon DEF MkdirStages
<1> HIDE DEF stages
<1>4. ~error /\ Sound(fs, open) /\ f = "none" => Sound(stages[f], open)
  <2> SUFFICES ASSUME Sound(fs, open) PROVE Sound(stages["none"], open)
    BY Zenon
  <2>1. Good(fs, open) /\ InUse(fs, d)
    BY <1>1, Zenon DEF Sound, InUse
  <2>2. Good(stages["none"], open) /\ Grown(fs, stages["none"], d, n, i)
    BY <1>1, <1>3, <2>1, MkdirGood, ZenonT(60)
  <2>3. Tree(stages["none"])
    BY <1>1, <2>1, <2>2, GrownTree, Zenon
  <2> QED BY <2>2, <2>3, Zenon DEF Sound
<1>5. ~error /\ Sound(fs, open) /\ f \in NoSpace \cup {"refused"} => stages[f] = fs
  BY <1>1, <1>2, <1>3, NewUndone, Zenon DEF NoSpace, Sound
<1> QED BY <1>2, <1>4, <1>5, ReturnOK, Zenon

\* A call that is refused before it does anything.
LEMMA RefusedOK ==
    ASSUME IInv, NEW f \in {"new", "refused"}, Return(fs, f)
    PROVE  StepOK
  BY ReturnOK, Zenon

\* ext4_link
LEMMA LinkOK ==
    ASSUME IInv, NEW d \in Inos, NEW n \in Names, NEW i \in Inos, NEW x \in BOOLEAN,
           NEW f \in {"none", "add", "inode"}, Link(d, n, i, f, x)
    PROVE  StepOK
<1>1. fs.kind[i] = "file" /\ fs.kind[d] = "dir" /\ fs.nlink[d] > 0 /\ fs.entry[<<d, n>>] = NoIno
  BY Zenon DEF Link, CanAdd, CanUse, IsDir
<1>2. CASE fs.nlink[i] >= LinkMax
  BY <1>2, RefusedOK, Zenon DEF Link
<1>3. CASE ~(fs.nlink[i] >= LinkMax)
  <2> DEFINE s == IF f = "add" THEN DropNlink(IncCount(fs, i), i)
                  ELSE LinkAdded(AddEntry(IncCount(fs, i), d, n, i, x), i)
  <2>1. Return(s, f)
    BY <1>3, Zenon DEF Link
  <2>2. ~error /\ Sound(fs, open) /\ f = "none" => Sound(s, open)
    <3> SUFFICES ASSUME Sound(fs, open), f = "none" PROVE Sound(s, open)
      BY Zenon
    <3>1. Good(fs, open) /\ InUse(fs, d) /\ fs.nlink[i] < LinkMax
      BY <1>1, <1>3, NameiAssumption DEF Sound, Good, Fs, InUse
    <3>2. Good(s, open) /\ Named(fs, s, d, n, i)
      BY <1>1, <3>1, LinkGood, Zenon
    <3> HIDE DEF s
    <3>3. Tree(s)
      BY <1>1, <3>1, <3>2, NamedTree, Zenon
    <3> QED BY <3>2, <3>3, Zenon DEF Sound
  <2>3. ~error /\ Sound(fs, open) /\ f \in NoSpace \cup {"refused"} => s = fs
    BY <1>1, LinkUndone, Zenon DEF NoSpace, Sound
  <2> HIDE DEF s
  <2> QED BY <2>1, <2>2, <2>3, ReturnOK, Zenon
<1> QED BY <1>2, <1>3, Zenon

\* What a removal leaves, when it was of a file or an empty directory.
LEMMA RemoveSound ==
    ASSUME NEW s, NEW O, Sound(s, O), NEW d \in Inos, NEW n \in Names, NEW i \in Inos, NEW r,
           s.entry[<<d, n>>] = i, s.kind[i] = "dir" => EmptyDir(s, i), Good(r, O), RemoveResult(s, r, O, d, n, i)
    PROVE  Sound(r, O)
<1>1. PICK u : r = Iput(u, {i}, O) /\ Unnamed(s, u, d, n, i) /\ Good(u, O \cup {i})
  BY Zenon DEF RemoveResult
<1>2. Tree(u)
  BY <1>1, UnnamedTree, Zenon
<1>3. Sound(u, O \cup {i})
  BY <1>1, <1>2, Zenon DEF Sound
<1> QED BY <1>1, <1>3, IputTree, Zenon DEF Sound

\* ext4_rmdir
LEMMA RmdirOK ==
    ASSUME IInv, NEW d \in Inos, NEW n \in Names, Rmdir(d, n)
    PROVE  StepOK
<1> DEFINE i == fs.entry[<<d, n>>]
           stages == RmdirStages(d, n, i)
<1>1. fs.kind[d] = "dir" /\ fs.nlink[d] > 0 /\ i # NoIno /\ fs.kind[i] = "dir"
  BY Zenon DEF Rmdir, CanUse, IsDir
<1>2. CASE ~EmptyDir(fs, i)
  BY <1>2, RefusedOK, Zenon DEF Rmdir
<1>3. CASE EmptyDir(fs, i)
  <2>1. PICK f \in {"write", "inode", "dir", "none"} : Return(stages[f], f)
    BY <1>3, Zenon DEF Rmdir, EndAt, RmdirStages
  <2>2. stages["none"] = Iput(DecCount(OrphanAdd(ClearNlink(DeleteEntry(fs, d, n), i), i), d), {i}, open)
    BY Zenon DEF RmdirStages
  <2>3. Sound(fs, open) => i \in Inos
    BY <1>1, Zenon DEF Sound, Good, Fs, Places
  <2> HIDE DEF stages
  <2>4. ~error /\ Sound(fs, open) /\ f = "none" => Sound(stages[f], open)
    <3> SUFFICES ASSUME Sound(fs, open) PROVE Sound(stages["none"], open)
      BY Zenon
    <3>1. Good(stages["none"], open) /\ RemoveResult(fs, stages["none"], open, d, n, i)
      BY <1>1, <2>2, <2>3, RmdirGood, Zenon DEF Sound
    <3> QED BY <1>3, <2>3, <3>1, RemoveSound, Zenon
  <2>5. f \notin NoSpace \cup {"refused"}
    BY <2>1, Zenon DEF NoSpace
  <2> QED BY <2>1, <2>4, <2>5, ReturnOK, Zenon
<1> QED BY <1>2, <1>3, Zenon

\* ext4_unlink
LEMMA UnlinkOK ==
    ASSUME IInv, NEW d \in Inos, NEW n \in Names, Unlink(d, n)
    PROVE  StepOK
<1> DEFINE i == fs.entry[<<d, n>>]
           t == DropNlink(DeleteEntry(fs, d, n), i)
           u == IF t.nlink[i] = 0 THEN OrphanAdd(t, i) ELSE t
           stages == UnlinkStages(d, n, i)
<1>1. i # NoIno /\ fs.kind[i] # "dir"
  BY Zenon DEF Unlink, IsDir
<1>2. PICK f \in {"write", "dir", "inode", "none"} : Return(stages[f], f)
  BY ZenonT(60) DEF Unlink, EndAt, UnlinkStages
<1>3. fs.nlink[i] # 0 => stages["none"] = Iput(u, {i}, open)
  BY Zenon DEF UnlinkStages
<1>4. Sound(fs, open) => i \in Inos
  BY <1>1, Zenon DEF Sound, Good, Fs, Places
<1>5. Sound(fs, open) => /\ Good(Iput(u, {i}, open), open) /\ fs.nlink[i] # 0
                        /\ RemoveResult(fs, Iput(u, {i}, open), open, d, n, i)
  BY <1>1, <1>4, UnlinkGood, Zenon DEF Sound
<1> HIDE DEF stages, u
<1>6. ~error /\ Sound(fs, open) /\ f = "none" => Sound(stages[f], open)
  BY <1>1, <1>3, <1>4, <1>5, RemoveSound, Zenon
<1>7. f \notin NoSpace \cup {"refused"}
  BY <1>2, Zenon DEF NoSpace
<1> QED BY <1>2, <1>6, <1>7, ReturnOK, Zenon

\* The VFS's check for a directory moved into itself.
LEMMA AboveItself == ASSUME NEW d \in Inos PROVE d \in Above(fs, d)
  BY Zenon DEF Above

\* It says more than that: d is in a set, with what is above d, that is without i.
LEMMA OutOfAbove ==
    ASSUME NEW d \in Inos, NEW i \in Inos, i \notin Above(fs, d)
    PROVE  NotAbove(fs, i, d)
<1>1. PICK S \in SUBSET Inos : d \in S /\ (\A k \in S : fs.dotdot[k] \in S) /\ i \notin S
  BY Zenon DEF Above
<1> QED BY <1>1, Zenon DEF NotAbove, Closed

\* What a rename that the VFS lets through starts from.
LEMMA CanMoveFrom ==
    ASSUME Good(fs, open), NEW d \in Inos, NEW n \in Names, NEW e \in Inos, NEW m \in Names, NEW i, NEW j,
           i = fs.entry[<<d, n>>], j = fs.entry[<<e, m>>], CanMove(d, n, e), i # j, j # d
    PROVE  MoveFrom(fs, d, n, e, m, i, j)
<1>1. i # e
  BY AboveItself, Zenon DEF CanMove
<1>2. i \in Inos
  BY Zenon DEF CanMove, Good, Fs, Places
<1> QED BY <1>1, <1>2, Zenon DEF CanMove, CanUse, IsDir, MoveFrom

\* ext4_rename, when it succeeds.
LEMMA RenameSound ==
    ASSUME Sound(fs, open), NEW d \in Inos, NEW n, NEW e \in Inos, NEW m, NEW i \in Inos, NEW j,
           NEW w \in FreeInos \cup {NoIno}, NEW x \in BOOLEAN, MoveFrom(fs, d, n, e, m, i, j), CanMove(d, n, e),
           j # NoIno => IsDir(fs, j) = IsDir(fs, i), ~RenameRefused(d, e, i, j)
    PROVE  Sound(RenameStages(d, n, e, m, i, j, w, x).none, open)
<1> DEFINE r == RenameStages(d, n, e, m, i, j, w, x).none
<1>1. Good(r, open) /\ RenameResult(fs, r, open, d, n, e, m, i, j, w)
  BY RenameGood, Zenon DEF Sound
<1> HIDE DEF r
<1>2. PICK u : /\ r = Iput(u, {j}, open)
               /\ Moved(fs, u, d, n, e, m, i, j, w) /\ RenameCounts(fs, u, d, e, IsDir(fs, i), j)
               /\ Good(u, open \cup {k \in Inos : k = j /\ w # j})
  BY <1>1, Zenon DEF RenameResult
<1>3. w = NoIno \/ fs.kind[w] = "free"
  BY Zenon DEF FreeInos
<1>4. NotAbove(fs, i, e)
  BY OutOfAbove, Zenon DEF CanMove, MoveFrom
<1>5. IsDir(fs, i) => IF j # NoIno THEN EmptyDir(fs, j) ELSE d = e \/ ~DirLinkMax(fs, e)
  BY Zenon DEF RenameRefused
<1>6. j # NoIno => (IsDir(fs, j) <=> IsDir(fs, i))
  BY Zenon
<1>7. Tree(u)
  BY <1>2, <1>3, <1>4, <1>5, <1>6, RenameTree, Zenon
<1>8. Sound(u, open \cup {k \in Inos : k = j /\ w # j})
  BY <1>2, <1>7, Zenon DEF Sound
<1>9. Tree(r)
  BY <1>2, <1>8, IputTree, Zenon
<1> QED BY <1>1, <1>9, Zenon DEF Sound, r

\* ext4_rename, with the whiteout taken back when it fails.
LEMMA RenameOK ==
    ASSUME IInv, NEW d \in Inos, NEW n \in Names, NEW e \in Inos, NEW m \in Names,
           NEW w \in FreeInos \cup {NoIno}, Rename(d, n, e, m, w)
    PROVE  StepOK
<1> DEFINE i == fs.entry[<<d, n>>]
           j == fs.entry[<<e, m>>]
           R(x) == RenameStages(d, n, e, m, i, j, w, x)
           started == IF w = NoIno THEN fs ELSE NewInode(fs, w)
           whited == IF w = NoIno THEN started ELSE SetEnt(started, d, n, w)
<1>1. /\ CanMove(d, n, e) /\ i # j /\ (j # NoIno => IsDir(fs, j) = IsDir(fs, i) /\ j \notin Above(fs, d))
      /\ NoIno \notin Inos
  BY NameiAssumption, ZenonT(60) DEF Rename
<1>2. j # d
  BY <1>1, AboveItself, Zenon
<1>3. Sound(fs, open) => MoveFrom(fs, d, n, e, m, i, j) /\ i \in Inos
  BY <1>1, <1>2, CanMoveFrom, SMTT(60) DEF MoveFrom, Sound
<1>4. Sound(fs, open) => EndRename(started, d, n, i, w, FALSE) = fs /\ EndRename(whited, d, n, i, w, FALSE) = fs
  <2>1. CASE w = NoIno
    BY <2>1, ZenonT(60) DEF EndRename
  <2>2. CASE w # NoIno
    BY <1>3, <2>2, WhiteoutUndone, ZenonT(60) DEF FreeInos, Sound
  <2> QED BY <2>1, <2>2, Zenon
<1>5. CASE RenameRefused(d, e, i, j)
  <2> DEFINE s == EndRename(R(FALSE).refused, d, n, i, w, FALSE)
  <2>1. Return(s, "refused")
    BY <1>5, ZenonT(60) DEF Rename
  <2>2. R(FALSE).refused = started
    BY ZenonT(60) DEF RenameStages
  <2>3. ~error /\ Sound(fs, open) => s = fs
    BY <1>4, <2>2, ZenonT(60)
  <2> HIDE DEF s
  <2> QED BY <2>1, <2>3, ReturnOK, Zenon
<1>6. CASE ~RenameRefused(d, e, i, j)
  <2>1. PICK x \in BOOLEAN :
           EndAt([f \in DOMAIN R(x) |-> EndRename(R(x)[f], d, n, i, w, f = "none")], RenameFaults(d, e, i, j, w))
    BY <1>6, ZenonT(60) DEF Rename, Indexed
  <2>2. PICK f \in RenameFaults(d, e, i, j, w) :
           Return([g \in DOMAIN R(x) |-> EndRename(R(x)[g], d, n, i, w, g = "none")][f], f)
    BY <2>1, ZenonT(60) DEF EndAt
  <2>3. DOMAIN R(x) = {"refused", "prepare", "whiteout", "add", "write", "inode", "finish", "newdir", "dir",
                       "target", "delete", "none"}
    BY ZenonT(60) DEF RenameStages
  <2>4. f \in {"none", "inode", "dir", "add", "write", "target", "delete", "prepare", "whiteout", "finish", "newdir"}
    BY Zenon DEF RenameFaults
  <2>5. Return(EndRename(R(x)[f], d, n, i, w, f = "none"), f)
    BY <2>2, <2>3, <2>4, ZenonT(60)
  <2>6. R(x)["add"] = whited /\ R(x)["none"] = R(x).none
    BY ZenonT(60) DEF RenameStages, SetWhiteout
  <2>7. ~error /\ Sound(fs, open) /\ f = "none" => Sound(EndRename(R(x)[f], d, n, i, w, f = "none"), open)
    <3>1. Sound(fs, open) => Sound(R(x).none, open)
      BY <1>1, <1>3, <1>6, RenameSound, ZenonT(60)
    <3>2. f = "none" => EndRename(R(x)[f], d, n, i, w, f = "none") = R(x).none
      BY <2>6, ZenonT(60) DEF EndRename
    <3> QED BY <3>1, <3>2, ZenonT(60)
  <2>8. ~error /\ Sound(fs, open) /\ f \in NoSpace \cup {"refused"}
           => EndRename(R(x)[f], d, n, i, w, f = "none") = fs
    <3>1. f \in NoSpace \cup {"refused"} => f = "add" /\ (f = "none") = FALSE
      BY <2>4, Zenon DEF NoSpace
    <3> QED BY <1>4, <2>6, <3>1, ZenonT(60)
  <2> QED BY <2>5, <2>7, <2>8, ReturnOK, ZenonT(60)
<1> QED BY <1>5, <1>6, Zenon

\* ext4_cross_rename
LEMMA CrossRenameOK ==
    ASSUME IInv, NEW d \in Inos, NEW n \in Names, NEW e \in Inos, NEW m \in Names, CrossRename(d, n, e, m)
    PROVE  StepOK
<1> DEFINE i == fs.entry[<<d, n>>]
           j == fs.entry[<<e, m>>]
           stages == CrossStages(d, n, e, m, i, j)
<1>1. CanMove(d, n, e) /\ CanMove(e, m, d) /\ i # j
  BY Zenon DEF CrossRename
<1>2. j # d /\ j # NoIno
  BY <1>1, AboveItself, Zenon DEF CanMove
<1>3. Sound(fs, open) => MoveFrom(fs, d, n, e, m, i, j) /\ j \in Inos
  <2>1. Sound(fs, open) => j \in Inos
    BY <1>2, Zenon DEF Sound, Good, Fs, Places
  <2> QED BY <1>1, <1>2, <2>1, CanMoveFrom, Zenon DEF Sound
<1>4. CASE CrossRefused(d, e, i, j)
  BY <1>4, RefusedOK, Zenon DEF CrossRename
<1>5. CASE ~CrossRefused(d, e, i, j)
  <2>1. PICK f \in {"write", "second", "inode", "finish", "newdir", "none"} : Return(stages[f], f)
    BY <1>5, ZenonT(60) DEF CrossRename, EndAt, CrossStages
  <2>2. stages["none"] = CrossStages(d, n, e, m, i, j).none
    BY Zenon
  <2>3. ~error /\ Sound(fs, open) /\ f = "none" => Sound(stages[f], open)
    <3> SUFFICES ASSUME Sound(fs, open) PROVE Sound(stages["none"], open)
      BY Zenon
    <3>1. /\ Good(stages["none"], open) /\ Moved(fs, stages["none"], d, n, e, m, i, j, j)
          /\ CrossCounted(fs, stages["none"], d, e, IsDir(fs, i), IsDir(fs, j))
      BY <1>3, <2>2, CrossGood, ZenonT(60) DEF Sound
    <3>2. NotAbove(fs, i, e) /\ NotAbove(fs, j, d)
      BY <1>1, <1>3, OutOfAbove, Zenon DEF CanMove, MoveFrom
    <3>3. d = e \/ (IsDir(fs, i) <=> IsDir(fs, j)) \/ ~DirLinkMax(fs, IF IsDir(fs, i) THEN e ELSE d)
      BY <1>5, Zenon DEF CrossRefused, IsDir
    <3> HIDE DEF stages, i, j
    <3>4. Tree(stages["none"])
      BY <1>3, <3>1, <3>2, <3>3, CrossTree, Zenon
    <3> QED BY <3>1, <3>4, Zenon DEF Sound
  <2>4. f \notin NoSpace \cup {"refused"}
    BY <2>1, Zenon DEF NoSpace
  <2> HIDE DEF stages
  <2> QED BY <2>1, <2>3, <2>4, ReturnOK, Zenon
<1> QED BY <1>4, <1>5, Zenon

\* Other inodes are held: no free one, and all that are on the orphan list.
LEMMA HeldGood ==
    ASSUME NEW s, NEW O, Good(s, O), NEW P, P \subseteq Inos, s.orphan \subseteq P,
           \A k \in P : s.kind[k] # "free" \/ k \in O
    PROVE  Good(s, P)
<1>1. ASSUME NEW k \in Inos PROVE GoodInode(s, P, k)
  <2>1. GoodInode(s, O, k)
    BY Zenon DEF Good
  <2> QED BY <2>1, ZenonT(60) DEF GoodInode, FreeInode, ListedInode
<1> QED BY <1>1, Zenon DEF Good

\* ext4_tmpfile
LEMMA TmpfileOK ==
    ASSUME IInv, NEW i \in Inos, NEW f \in {"none", "new", "inode"}, Tmpfile(i, f)
    PROVE  StepOK
<1> DEFINE s == [OrphanAdd(DropNlink(NewInode(fs, i), i), i) EXCEPT !.linkable = @ \cup {i}]
<1>1. CASE f # "none"
  <2>1. Return(fs, f)
    BY <1>1, Zenon DEF Tmpfile
  <2>2. ~error /\ Sound(fs, open) /\ f = "none" => Sound(fs, open)
    BY Zenon
  <2> QED BY <2>1, <2>2, ReturnOK, Zenon
<1>2. CASE f = "none"
  <2>1. ReturnWith(s, f, open \cup {i}) /\ fs.kind[i] = "free"
    BY <1>2, Zenon DEF Tmpfile
  <2>2. ~error /\ fs' = s /\ ~failed' /\ error' = FALSE /\ open' = open \cup {i}
    BY <1>2, <2>1, Zenon DEF ReturnWith
  <2>3. Sound(s, open \cup {i})
    <3>1. Good(s, open \cup {i})
      BY <2>1, <2>2, TmpfileGood, Zenon DEF IInv, Sound
    <3>2. Tree(s)
      BY <2>1, <2>2, TmpfileTree, Zenon DEF IInv
    <3> QED BY <3>1, <3>2, Zenon DEF Sound
  <2> HIDE DEF s
  <2> QED BY <2>2, <2>3, Zenon DEF StepOK, IInv
<1> QED BY <1>1, <1>2, Zenon

\* An open of a name that is there.
LEMMA OpenOK ==
    ASSUME IInv, NEW d \in Inos, NEW n \in Names, Open(d, n)
    PROVE  StepOK
<1> DEFINE k == fs.entry[<<d, n>>]
<1>1. ~error /\ k # NoIno /\ fs.kind[k] # "free"
      /\ open' = open \cup {k} /\ fs' = fs /\ error' = error /\ failed' = FALSE
  BY Zenon DEF Open, Lookup
<1>2. Good(fs, open) /\ Tree(fs)
  BY <1>1, Zenon DEF IInv, Sound
<1>3. k \in Inos /\ open \subseteq Inos
  BY <1>1, <1>2, Zenon DEF Good, Fs, Places
<1>4. fs.orphan \subseteq open
  BY <1>2, Zenon DEF Good, GoodInode, ListedInode, Fs
<1> HIDE DEF k
<1>5. Good(fs, open \cup {k})
  BY <1>1, <1>2, <1>3, <1>4, HeldGood
<1> QED BY <1>1, <1>2, <1>5, Zenon DEF StepOK, IInv, Sound

\* The last close of a removed file frees it.
LEMMA CloseOK ==
    ASSUME IInv, NEW i \in Inos, Close(i)
    PROVE  StepOK
<1>1. /\ ~error /\ i \in open /\ open' = open \ {i} /\ fs' = Iput(fs, {i}, {}) /\ failed' = FALSE
      /\ error' = error
  BY Zenon DEF Close
<1>2. Good(fs, (open \ {i}) \cup {i}) /\ open \ {i} \subseteq Inos
  <2>1. Good(fs, open) /\ (open \ {i}) \cup {i} = open
    BY <1>1, Zenon DEF IInv, Sound
  <2> QED BY <2>1, Zenon DEF Good
<1>3. Good(Iput(fs, {i}, open \ {i}), open \ {i})
  BY <1>2, IputGood, Zenon
<1>4. {k \in {i} : k # NoIno /\ fs.nlink[k] = 0} \ (open \ {i}) = {k \in {i} : k # NoIno /\ fs.nlink[k] = 0} \ {}
  BY Zenon
<1>5. Iput(fs, {i}, open \ {i}) = Iput(fs, {i}, {})
  BY <1>4, Zenon DEF Iput
<1>6. Tree(Iput(fs, {i}, {}))
  BY <1>1, IputTree, Zenon DEF IInv
<1> QED BY <1>1, <1>3, <1>5, <1>6, Zenon DEF StepOK, IInv, Sound

\* A crash and ext4_orphan_cleanup of the next mount.
LEMMA CrashOK ==
    ASSUME IInv, Crash
    PROVE  StepOK
<1> DEFINE s == Iput(fs, fs.orphan, {})
           u == [s EXCEPT !.linkable = {}]
<1>1. ~error /\ open' = {} /\ fs' = u /\ failed' = FALSE /\ error' = error
  BY Zenon DEF Crash
<1>2. Good(fs, open) /\ fs \in Fs
  BY <1>1, Zenon DEF IInv, Sound, Good
<1>3. fs.orphan \subseteq Inos /\ \A k \in fs.orphan : k \in open
  BY <1>2, Zenon DEF Good, GoodInode, ListedInode, Fs
<1>4. Good(fs, fs.orphan)
  BY <1>2, <1>3, HeldGood, Zenon
<1>5. Good(fs, {} \cup fs.orphan) /\ {} \subseteq Inos
  <2>1. {} \cup fs.orphan = fs.orphan
    BY Zenon
  <2> QED BY <1>4, <2>1, Zenon
<1>6. Good(s, {})
  BY <1>3, <1>5, IputGood
<1> HIDE DEF s
<1>7. s \in Fs
  BY <1>6, Zenon DEF Good
<1>8. /\ u \in Fs /\ u.kind = s.kind /\ u.nlink = s.nlink /\ u.entry = s.entry /\ u.dotdot = s.dotdot
      /\ u.dx = s.dx /\ u.orphan = s.orphan /\ u.linkable = {}
  BY <1>7, Zenon DEF Fs
<1> HIDE DEF u
<1>9. ASSUME NEW k \in Inos PROVE GoodInode(u, {}, k)
  <2>1. GoodInode(s, {}, k) /\ LinksOf(u, k) = LinksOf(s, k)
    BY <1>6, <1>8, Zenon DEF Good, LinksOf
  <2> QED BY <1>8, <2>1, Zenon DEF GoodInode, FreeInode, FileInode, DirInode, ListedInode
<1>10. Good(u, {})
  BY <1>6, <1>8, <1>9, Zenon DEF Good, NoSelf
<1>11. Tree(u)
  <2>1. Tree(s)
    BY <1>1, IputTree, Zenon DEF IInv, s
  <2>2. Sound(s, {})
    BY <1>6, <2>1, Zenon DEF Sound
  <2>3. Quiet(s, u)
    BY <1>8, <2>1, Zenon DEF Quiet, InUse, Tree, Counted
  <2> QED BY <2>2, <2>3, QuietTree, Zenon
<1> QED BY <1>1, <1>10, <1>11, Zenon DEF StepOK, IInv, Sound

\* The empty volume mke2fs leaves is sound.
LEMMA InitOK == Init => IInv
<1> SUFFICES ASSUME Init PROVE Sound(fs, open) /\ error = FALSE
  BY Zenon DEF IInv
<1>1. /\ fs \in Fs /\ open = {} /\ error = FALSE
      /\ fs.kind = [i \in Inos |-> IF i = Root THEN "dir" ELSE "free"]
      /\ fs.nlink = [i \in Inos |-> IF i = Root THEN 2 ELSE 0]
      /\ fs.entry = [p \in Places |-> NoIno]
      /\ fs.dotdot = [i \in Inos |-> IF i = Root THEN Root ELSE NoIno]
      /\ fs.dx = {} /\ fs.orphan = {} /\ fs.linkable = {}
  BY NameiAssumption, Zenon DEF Init, Fs
<1>2. ASSUME NEW k \in Inos PROVE GoodInode(fs, open, k)
  <2>1. LinksOf(fs, k) = {}
    BY <1>1, NameiAssumption, SMTT(30) DEF LinksOf
  <2> QED BY <1>1, <2>1, SMTT(30) DEF GoodInode, FreeInode, FileInode, DirInode, ListedInode
<1>3. NoSelf(fs)
  BY <1>1, NameiAssumption, SMTT(30) DEF NoSelf, Places
<1>4. RootOK(fs)
  BY <1>1, NameiAssumption DEF RootOK, InUse
<1>5. Rooted(fs)
  BY <1>1 DEF Rooted, Closed, InUse
<1>6. ASSUME NEW k \in Inos PROVE Placed(fs, k) /\ Counted(fs, k)
  <2>1. SubdirsOf(fs, k) = {}
    BY <1>1, Zenon DEF SubdirsOf, IsDir, Places
  <2>2. Cardinality(SubdirsOf(fs, k)) = 0
    BY <2>1, FS_EmptySet, Zenon
  <2> QED BY <1>1, <2>2, NameiAssumption DEF Placed, Counted, InUse, Fits, Places
<1> QED BY <1>1, <1>2, <1>3, <1>4, <1>5, <1>6, Zenon DEF Sound, Good, Tree

\* Every call, in whatever way it ends, leaves a volume that is good or has an
\* error recorded, and one that fails without an error leaves the volume it found.
LEMMA StepsOK ==
    ASSUME IInv, Next
    PROVE  StepOK
<1>1. ASSUME NEW d \in Inos, NEW n \in Names, NEW i \in FreeInos, NEW x \in Indexed(d),
             \/ \E f \in {"none", "new", "add", "inode"} : Create(d, n, i, f, x)
             \/ \E f \in {"none", "new", "block", "add", "inode"} : Symlink(d, n, i, f, x)
             \/ Mkdir(d, n, i, x)
      PROVE  StepOK
  <2>1. i \in Inos /\ x \in BOOLEAN
    BY Zenon DEF FreeInos, Indexed
  <2>2. CASE \E f \in {"none", "new", "add", "inode"} : Create(d, n, i, f, x)
    <3>1. PICK f \in {"none", "new", "add", "inode"} : Create(d, n, i, f, x)
      BY <2>2, Zenon
    <3> QED BY <2>1, <3>1, CreateOK, Zenon
  <2>3. CASE \E f \in {"none", "new", "block", "add", "inode"} : Symlink(d, n, i, f, x)
    <3>1. PICK f \in {"none", "new", "block", "add", "inode"} : Symlink(d, n, i, f, x)
      BY <2>3, Zenon
    <3> QED BY <2>1, <3>1, CreateOK, Zenon
  <2>4. CASE Mkdir(d, n, i, x)
    BY <2>1, <2>4, MkdirOK, Zenon
  <2> QED BY <1>1, <2>2, <2>3, <2>4, Zenon
<1>2. ASSUME NEW d \in Inos, NEW n \in Names, MkdirRefused(d, n) \/ \E e \in Inos : RenameNoWhiteout(d, n, e)
      PROVE  StepOK
  BY <1>2, RefusedOK, Zenon DEF MkdirRefused, RenameNoWhiteout
<1>3. ASSUME NEW d \in Inos, NEW n \in Names, NEW i \in Inos, NEW x \in Indexed(d),
             NEW f \in {"none", "add", "inode"}, Link(d, n, i, f, x)
      PROVE  StepOK
  <2>1. x \in BOOLEAN
    BY Zenon DEF Indexed
  <2> QED BY <1>3, <2>1, LinkOK, Zenon
<1>4. ASSUME NEW d \in Inos, NEW n \in Names, Rmdir(d, n) \/ Unlink(d, n) \/ Open(d, n)
      PROVE  StepOK
  BY <1>4, RmdirOK, UnlinkOK, OpenOK, Zenon
<1>5. ASSUME NEW d \in Inos, NEW n \in Names, NEW e \in Inos, NEW m \in Names,
             \/ \E w \in FreeInos \cup {NoIno} : Rename(d, n, e, m, w)
             \/ CrossRename(d, n, e, m)
      PROVE  StepOK
  BY <1>5, RenameOK, CrossRenameOK, Zenon
<1>6. ASSUME NEW i \in FreeInos, NEW f \in {"none", "new", "inode"}, Tmpfile(i, f) PROVE StepOK
  BY <1>6, TmpfileOK, Zenon DEF FreeInos
<1>7. ASSUME NEW i \in Inos, Close(i) PROVE StepOK
  BY <1>7, CloseOK, Zenon
<1>8. CASE Crash
  BY <1>8, CrashOK, Zenon
<1> QED BY <1>1, <1>2, <1>3, <1>4, <1>5, <1>6, <1>7, <1>8, SMTT(30) DEF Next

-----------------------------------------------------------------------------
(* The theorems *)

\* The invariant: a volume without a recorded error is sound.
LEMMA IInvHolds == Spec => []IInv
<1>1. IInv /\ [Next]_vars => IInv'
  <2> SUFFICES ASSUME IInv, [Next]_vars PROVE IInv'
    BY Zenon
  <2>1. CASE Next
    BY <2>1, StepsOK, Zenon DEF StepOK
  <2>2. CASE UNCHANGED vars
    BY <2>2, Zenon DEF IInv, vars
  <2> QED BY <2>1, <2>2, Zenon
<1> QED BY <1>1, InitOK, PTL DEF Spec

\* However calls, failures at any place in them and crashes follow each other,
\* until an error is recorded no lookup in a directory in use meets a deleted inode
\* or the directory itself: ext4_lookup calls EXT4_ERROR_INODE on neither account.
THEOREM LookupsCleanHolds == Spec => []LookupsClean
<1>1. IInv => LookupsClean
  <2> SUFFICES ASSUME IInv, ~error, NEW d \in Inos, NEW n \in Names PROVE Lookup(d, n) = "ok"
    BY Zenon DEF LookupsClean
  <2> DEFINE i == fs.entry[<<d, n>>]
  <2>1. Good(fs, open)
    BY Zenon DEF IInv, Sound
  <2>2. CASE i = NoIno
    BY <2>2, Zenon DEF Lookup
  <2>3. CASE i # NoIno
    <3>1. i \in Inos /\ i # d /\ <<d, n>> \in LinksOf(fs, i) /\ GoodInode(fs, open, i) /\ fs.nlink[i] \in Nat
          /\ fs.kind[i] \in {"free", "file", "dir"}
      BY <2>1, <2>3, Zenon DEF Good, NoSelf, Fs, LinksOf, Places
    <3>2. IsFiniteSet(LinksOf(fs, i))
      BY PlacesFinite, FS_Subset, Zenon DEF LinksOf
    <3>3. Cardinality(LinksOf(fs, i)) # 0
      BY <3>1, <3>2, FS_EmptySet, Zenon
    <3>4. fs.kind[i] # "free" /\ fs.nlink[i] # 0
      BY <3>1, <3>3, Zenon DEF GoodInode, FreeInode, FileInode, DirInode
    <3> QED BY <2>3, <3>1, <3>4, Zenon DEF Lookup
  <2> QED BY <2>2, <2>3, Zenon
<1> QED BY <1>1, IInvHolds, PTL

\* The orphan list, which the next mount's ext4_orphan_cleanup goes through, is at
\* all times exactly the inodes in use without links, and each of them is open.
THEOREM OrphansExactHolds == Spec => []OrphansExact
<1>1. IInv => OrphansExact
  <2> SUFFICES ASSUME IInv, ~error
               PROVE  /\ fs.orphan = {i \in Inos : fs.kind[i] # "free" /\ fs.nlink[i] = 0}
                      /\ fs.orphan \subseteq open
    BY Zenon DEF OrphansExact
  <2>1. fs.orphan \subseteq Inos /\ \A i \in Inos : ListedInode(fs, open, i)
    BY Zenon DEF IInv, Sound, Good, GoodInode, Fs
  <2> QED BY <2>1, Zenon DEF ListedInode
<1> QED BY <1>1, IInvHolds, PTL

\* A call that returns an error without one being recorded (no inode, no block, no
\* room, too many links, a directory that is not empty) has undone all it did.
THEOREM FailedKeepsHolds == Spec => FailedKeeps
<1>1. IInv /\ [Next]_vars => [failed' /\ ~error' => fs' = fs]_vars
  BY StepsOK, Zenon DEF StepOK
<1> QED BY <1>1, IInvHolds, PTL DEF Spec, FailedKeeps

\* Link counts are exact at all times: a file has as many entries as its count
\* says, a directory in use two and one for each subdirectory, or one from when an
\* indexed directory had too many.
THEOREM LinkCountsHold == Spec => []LinkCounts
<1>1. IInv => LinkCounts
  <2> SUFFICES ASSUME IInv, ~error, NEW i \in Inos
               PROVE  /\ fs.nlink[i] <= LinkMax
                      /\ fs.kind[i] = "file" => fs.nlink[i] = Cardinality(Links(i))
                      /\ CanUse(i) => \/ fs.nlink[i] = 2 + Cardinality(Subdirs(i))
                                      \/ fs.nlink[i] = 1 /\ i \in fs.dx /\ DirNlink
    BY Zenon DEF LinkCounts
  <2>1. GoodInode(fs, open, i) /\ Counted(fs, i)
    BY Zenon DEF IInv, Sound, Good, Tree
  <2>2. Links(i) = LinksOf(fs, i) /\ Subdirs(i) = SubdirsOf(fs, i)
    BY Zenon DEF Links, LinksOf, Subdirs, SubdirsOf
  <2> QED BY <2>1, <2>2, Zenon DEF GoodInode, FileInode, Counted, Fits, CanUse, IsDir, InUse
<1> QED BY <1>1, IInvHolds, PTL

\* Whatever is renamed, exchanged, removed or made, the directories are a tree at
\* all times: each in use is the entry of the directory its ".." leads to, and of
\* no other, and from each ".." leads to the root in the end.
THEOREM DirectoryTreeHolds == Spec => []DirectoryTree
<1>1. IInv => DirectoryTree
  <2> SUFFICES ASSUME IInv, ~error, NEW d \in Inos, IsDir(fs, d)
               PROVE  IF fs.nlink[d] = 0 THEN EmptyDir(fs, d) /\ Links(d) = {}
                      ELSE IF d = Root THEN Links(d) = {}
                      ELSE /\ \E n \in Names : Links(d) = {<<GetParent(d), n>>}
                           /\ Root \in Above(fs, d)
    BY Zenon DEF DirectoryTree
  <2>1. /\ Sound(fs, open) /\ fs.kind[d] = "dir" /\ fs.nlink[d] \in Nat /\ Root \in Inos /\ NoIno \notin Inos
        /\ DirInode(fs, d) /\ RootOK(fs) /\ Rooted(fs) /\ Placed(fs, d)
    BY NameiAssumption, Zenon DEF IInv, IsDir, Sound, Good, GoodInode, Fs, Tree
  <2>2. Links(d) = LinksOf(fs, d)
    BY Zenon DEF Links, LinksOf
  <2>3. CASE fs.nlink[d] = 0
    BY <2>1, <2>2, <2>3 DEF DirInode, Placed, InUse, EmptyDir
  <2>4. CASE fs.nlink[d] # 0 /\ d = Root
    BY <2>1, <2>2, <2>4, Zenon DEF RootOK, LinksOf
  <2>5. CASE fs.nlink[d] # 0 /\ d # Root
    <3>1. InUse(fs, d)
      BY <2>1, <2>5 DEF InUse
    <3>2. PICK n \in Names : fs.dotdot[d] \in Inos /\ fs.entry[<<fs.dotdot[d], n>>] = d
      BY <2>1, <2>5, <3>1, Zenon DEF Placed
    <3>3. <<fs.dotdot[d], n>> \in LinksOf(fs, d)
      BY <3>2, Zenon DEF LinksOf, Places
    <3>4. Links(d) = {<<GetParent(d), n>>}
      BY <2>1, <2>2, <3>3, Zenon DEF DirInode, GetParent
    <3>5. ASSUME NEW S \in SUBSET Inos, d \in S, \A k \in S : fs.dotdot[k] \in S PROVE Root \in S
      <4> DEFINE T == {k \in S : InUse(fs, k)}
      <4>1. T # {} /\ \A k \in T : InUse(fs, k)
        BY <3>1, <3>5, Zenon
      <4>2. \A k \in T : fs.dotdot[k] \in T
        BY <2>1, <3>5, ParentInUse, Zenon
      <4>3. Closed(fs, T)
        BY <4>2, Zenon DEF Closed
      <4> HIDE DEF T
      <4>4. Root \in T
        BY <2>1, <4>1, <4>3, Zenon DEF Rooted
      <4> QED BY <4>4, Zenon DEF T
    <3>6. Root \in Above(fs, d)
      BY <2>1, <3>5, Zenon DEF Above
    <3> QED BY <2>5, <3>4, <3>6, Zenon
  <2> QED BY <2>3, <2>4, <2>5, Zenon
<1> QED BY <1>1, IInvHolds, PTL

=============================================================================
