-------------------------------- MODULE Namei --------------------------------
(***************************************************************************)
(* The namespace operations of namei.c: create, mknod, symlink, tmpfile,   *)
(* mkdir, rmdir, unlink, link, rename, exchange, with link counts, ".."    *)
(* entries, the orphan list and every place where a call may fail.  Each   *)
(* runs under the locks the VFS takes on the inodes it names and in one    *)
(* transaction, hence one step.  A crash keeps a prefix of the steps; every*)
(* prefix is a behaviour too, so Crash need not forget any.                *)
(***************************************************************************)
EXTENDS Integers, FiniteSets

CONSTANTS Inos,        \* inode numbers
          Root, NoIno, \* the root's; an entry, or argument, that is not there
          Names,       \* names other than "." and ".."
          LinkMax,     \* EXT4_LINK_MAX
          DirNlink     \* whether the volume has the dir_nlink feature

ASSUME NameiAssumption ==
    /\ IsFiniteSet(Inos) /\ IsFiniteSet(Names) /\ Root \in Inos /\ NoIno \notin Inos
    /\ LinkMax \in Nat /\ LinkMax > 2 /\ DirNlink \in BOOLEAN

Places == Inos \X Names

VARIABLES fs,      \* the volume: see TypeOK
          open,    \* inodes some process holds open
          failed,  \* whether the last call returned an error
          error    \* an error has been recorded: unmounted until e2fsck has run

vars == <<fs, open, failed, error>>

-----------------------------------------------------------------------------
(* What the operations are made of *)

IsDir(s, i) == i # NoIno /\ s.kind[i] = "dir"
EmptyDir(s, d) == \A n \in Names : s.entry[<<d, n>>] = NoIno

\* EXT4_DIR_LINK_MAX
DirLinkMax(s, d) == s.nlink[d] >= LinkMax /\ ~(DirNlink /\ d \in s.dx)

\* Mutant of IncCount: a count kept at 1 grows again.
IncCountAgain(s, i) ==
    LET n == s.nlink[i] + 1 IN
    [s EXCEPT !.nlink[i] = IF i \in s.dx /\ n > LinkMax THEN 1 ELSE n]

IncCount(s, i) ==
    LET n == s.nlink[i] + 1 IN
    [s EXCEPT !.nlink[i] = IF i \in s.dx /\ (n > LinkMax \/ n = 2) THEN 1 ELSE n]

DropNlink(s, i) == [s EXCEPT !.nlink[i] = @ - 1]
ClearNlink(s, i) == [s EXCEPT !.nlink[i] = 0]

\* Mutant of DecCount: the inode loses every link.
DecCountAll(s, i) == IF s.kind[i] # "dir" \/ s.nlink[i] > 2 THEN ClearNlink(s, i) ELSE s

DecCount(s, i) == IF s.kind[i] # "dir" \/ s.nlink[i] > 2 THEN DropNlink(s, i) ELSE s

OrphanAdd(s, i) == [s EXCEPT !.orphan = @ \cup {i}]
OrphanDel(s, i) == [s EXCEPT !.orphan = @ \ {i}]

SetEnt(s, d, n, i) == [s EXCEPT !.entry[<<d, n>>] = i]
DeleteEntry(s, d, n) == SetEnt(s, d, n, NoIno)

\* ext4_add_entry; the directory may become an indexed one, if it has entries.
AddEntry(s, d, n, i, indexed) ==
    [SetEnt(s, d, n, i) EXCEPT !.dx = IF indexed THEN @ \cup {d} ELSE @]
Indexed(d) == IF d \in fs.dx \/ EmptyDir(fs, d) THEN {FALSE} ELSE BOOLEAN

NewInode(s, i) == [s EXCEPT !.kind[i] = "file", !.nlink[i] = 1]
InitNewDir(s, d, i) ==
    [s EXCEPT !.kind[i] = "dir", !.nlink[i] = 2, !.dotdot[i] = d]

\* The inodes in S lose the last reference the call, or a process, held: those
\* without links are freed, unless they are still in "held".
Iput(s, S, held) ==
    LET dead == {i \in S : i # NoIno /\ s.nlink[i] = 0} \ held IN
    [s EXCEPT !.kind = [i \in Inos |-> IF i \in dead THEN "free" ELSE @[i]],
              !.dotdot = [i \in Inos |-> IF i \in dead THEN NoIno ELSE @[i]],
              !.dx = @ \ dead, !.orphan = @ \ dead, !.linkable = @ \ dead]

-----------------------------------------------------------------------------
(* A call.  "fault" names the step of it that fails, or is "none".  When no *)
(* block or inode is to be had the call undoes what it did; a failure to    *)
(* write an inode or a directory block is recorded as an error.             *)

NoSpace == {"new", "block", "add"}

ReturnWith(s, fault, held) ==
    /\ ~error /\ fs' = s
    /\ failed' = (fault \notin {"none", "delete"})
    /\ error' = (fault \notin NoSpace \cup {"none", "refused"})
    /\ open' = IF error' THEN {} ELSE held
Return(s, fault) == ReturnWith(s, fault, open)

\* The call ends at one of its stages, a record with a field for each fault.
EndAt(stages, faults) == \E fault \in faults : Return(stages[fault], fault)

\* What the VFS asks of a directory it calls into: it has not been removed.
CanUse(d) == IsDir(fs, d) /\ fs.nlink[d] > 0
CanAdd(d, n) == CanUse(d) /\ fs.entry[<<d, n>>] = NoIno

FreeInos == {i \in Inos : fs.kind[i] = "free"}

\* A new inode given up: no links, on the orphan list, freed by iput.
DropNew(s, i) == Iput(OrphanAdd(ClearNlink(s, i), i), {i}, open)

AddNondir(s, d, n, i, fault, indexed) ==
    IF fault = "add" THEN DropNew(s, i) ELSE AddEntry(s, d, n, i, indexed)

\* ext4_create and ext4_mknod
Create(d, n, i, fault, indexed) ==
    /\ CanAdd(d, n) /\ fs.kind[i] = "free"
    /\ Return(IF fault = "new" THEN fs ELSE AddNondir(NewInode(fs, i), d, n, i, fault, indexed), fault)

\* ext4_symlink, which may need a block for its target.
Symlink(d, n, i, fault, indexed) ==
    /\ CanAdd(d, n) /\ fs.kind[i] = "free"
    /\ Return(IF fault = "new" THEN fs
              ELSE IF fault = "block" THEN DropNew(NewInode(fs, i), i)
              ELSE AddNondir(NewInode(fs, i), d, n, i, fault, indexed), fault)

\* ext4_tmpfile: d_tmpfile drops the link, the file stays open.  When it cannot
\* be put on the orphan list the last reference frees it.
Tmpfile(i, fault) ==
    /\ fs.kind[i] = "free"
    /\ LET s == DropNlink(NewInode(fs, i), i) IN
       IF fault = "none"
       THEN ReturnWith([OrphanAdd(s, i) EXCEPT !.linkable = @ \cup {i}], fault, open \cup {i})
       ELSE Return(fs, fault)

\* ext4_mkdir: the stages a fault stops it at.
MkdirStages(d, n, i, indexed) ==
    LET made == InitNewDir(NewInode(fs, i), d, i)
        added == AddEntry(made, d, n, i, indexed)
        counted == IncCount(added, d) IN
    [new |-> fs, block |-> DropNew(NewInode(fs, i), i), inode |-> DropNew(made, i),
     add |-> DropNew(made, i), dir |-> DropNew(counted, i), none |-> counted]

Mkdir(d, n, i, indexed) ==
    /\ CanAdd(d, n) /\ fs.kind[i] = "free" /\ ~DirLinkMax(fs, d)
    /\ \E stages \in {MkdirStages(d, n, i, indexed)} : EndAt(stages, DOMAIN stages)

MkdirRefused(d, n) ==
    CanAdd(d, n) /\ DirLinkMax(fs, d) /\ Return(fs, "refused")

-----------------------------------------------------------------------------
(* Removal *)

RmdirStages(d, n, i) ==
    LET s == OrphanAdd(ClearNlink(DeleteEntry(fs, d, n), i), i) IN
    [write |-> fs, inode |-> s, dir |-> DecCount(s, d), none |-> Iput(DecCount(s, d), {i}, open)]

Rmdir(d, n) ==
    LET i == fs.entry[<<d, n>>] IN
    /\ CanUse(d) /\ IsDir(fs, i)
    /\ IF EmptyDir(fs, i) THEN \E stages \in {RmdirStages(d, n, i)} : EndAt(stages, DOMAIN stages)
       ELSE Return(fs, "refused")

UnlinkStages(d, n, i) ==
    LET deleted == DeleteEntry(fs, d, n)
        dropped == IF fs.nlink[i] = 0 THEN deleted ELSE DropNlink(deleted, i)
        s == IF dropped.nlink[i] = 0 THEN OrphanAdd(dropped, i) ELSE dropped IN
    [write |-> fs, dir |-> deleted, inode |-> s, none |-> Iput(s, {i}, open)]

Unlink(d, n) ==
    LET i == fs.entry[<<d, n>>] IN
    /\ CanUse(d) /\ i # NoIno /\ ~IsDir(fs, i)
    /\ \E stages \in {UnlinkStages(d, n, i)} : EndAt(stages, DOMAIN stages)

-----------------------------------------------------------------------------
(* Linking *)

\* Mutant of LinkAdded: a tmpfile that gets a name stays on the orphan list.
LinkAddedOrphan(s, i) == [s EXCEPT !.linkable = @ \ {i}]

\* The end of __ext4_link, and vfs_link's: a file is linkable without links once.
LinkAdded(s, i) ==
    [IF s.nlink[i] = 1 THEN OrphanDel(s, i) ELSE s EXCEPT !.linkable = @ \ {i}]

\* ext4_link; the VFS passes a file it found by name or that is open.
Link(d, n, i, fault, indexed) ==
    /\ CanAdd(d, n) /\ fs.kind[i] = "file"
    /\ IF fs.nlink[i] > 0 THEN i \in open \/ \E p \in Places : fs.entry[p] = i ELSE i \in fs.linkable
    /\ IF fs.nlink[i] >= LinkMax THEN Return(fs, "refused")
       ELSE LET s == IncCount(fs, i) IN
            Return(IF fault = "add" THEN DropNlink(s, i)
                   ELSE LinkAdded(AddEntry(s, d, n, i, indexed), i), fault)

-----------------------------------------------------------------------------
(* Renaming *)

\* d and the directories above it: the least set that has d and, for each of its
\* members, "..".
Above(s, d) ==
    {i \in Inos : \A S \in SUBSET Inos : d \in S /\ (\A k \in S : s.dotdot[k] \in S) => i \in S}

\* What the VFS lets through: existing source, no directory into itself.
CanMove(d, n, e) ==
    LET i == fs.entry[<<d, n>>] IN
    CanUse(d) /\ CanUse(e) /\ i # NoIno /\ i \notin Above(fs, e)

\* Mutant of DirFinish: ".." is left as it is.
DirFinishNever(s, d, e, i) == s

\* ext4_rename_dir_finish, which has something to do if i was prepared: ".." of a
\* directory that goes from d to e.
DirFinish(s, d, e, i) == IF IsDir(s, i) /\ d # e THEN [s EXCEPT !.dotdot[i] = e] ELSE s

\* The steps of ext4_rename of i = (d, n) to (e, m), where j is or nothing; w is the
\* whiteout to be left in its place or nothing.
SetWhiteout(s, d, n, w) == IF w = NoIno THEN s ELSE SetEnt(s, d, n, w)

SetNew(s, e, m, i, j, indexed) ==
    IF j = NoIno THEN AddEntry(s, e, m, i, indexed) ELSE SetEnt(s, e, m, i)

DeleteOld(s, d, n, w) == IF w = NoIno THEN DeleteEntry(s, d, n) ELSE s

DropTarget(s, j) == IF j = NoIno THEN s ELSE DecCount(s, j)

CountDirs(s, d, e, j) == IF j # NoIno THEN ClearNlink(DecCount(s, d), j) ELSE IncCount(DecCount(s, d), e)

ListNew(s, j) == IF j # NoIno /\ s.nlink[j] = 0 THEN OrphanAdd(s, j) ELSE s

\* The stages of the call, by the fault that ends it; that the old entry cannot be
\* deleted ends nothing.
RenameStages(d, n, e, m, i, j, w, indexed) ==
    LET started == IF w = NoIno THEN fs ELSE NewInode(fs, w)
        whited == SetWhiteout(started, d, n, w)
        added == SetNew(whited, e, m, i, j, indexed)
        finished == DirFinish(DropTarget(DeleteOld(added, d, n, w), j), d, e, i)
        counted == IF IsDir(fs, i) THEN CountDirs(finished, d, e, j) ELSE finished
        done == ListNew(counted, j) IN
    [refused |-> started, prepare |-> started, whiteout |-> whited, add |-> whited, write |-> whited, inode |-> added,
     finish |-> finished, newdir |-> counted, dir |-> counted, target |-> counted,
     delete |-> SetEnt(done, d, n, i), none |-> Iput(done, {j}, open)]

\* The faults the call can meet.
RenameFaults(d, e, i, j, w) ==
    {"none", "inode", "dir"}
    \cup (IF j = NoIno THEN {"add"} ELSE {"write", "target"})
    \cup (IF w = NoIno THEN {"delete"} ELSE {"prepare", "whiteout"})
    \cup (IF IsDir(fs, i) THEN (IF d # e THEN {"prepare", "finish"} ELSE {}) \cup (IF j = NoIno THEN {"newdir"} ELSE {})
          ELSE {})

RenameRefused(d, e, i, j) ==
    IsDir(fs, i) /\ IF j # NoIno THEN ~EmptyDir(fs, j) ELSE d # e /\ DirLinkMax(fs, e)

\* Mutant of EndRename: the old entry keeps leading to the whiteout.
EndRenameForgets(s, d, n, i, w, ok) ==
    IF w = NoIno \/ ok THEN s ELSE Iput(OrphanAdd(DropNlink(s, w), w), {w}, open)

\* The label end_rename: a failed call takes the whiteout back.
EndRename(s, d, n, i, w, ok) ==
    IF w = NoIno \/ ok THEN s
    ELSE Iput(OrphanAdd(DropNlink(SetEnt(s, d, n, i), w), w), {w}, open)

\* The VFS has seen to it that a directory replaces a directory, a file a file.
Rename(d, n, e, m, w) ==
    LET i == fs.entry[<<d, n>>]
        j == fs.entry[<<e, m>>] IN
    /\ CanMove(d, n, e) /\ i # j
    /\ j # NoIno => IsDir(fs, j) = IsDir(fs, i) /\ j \notin Above(fs, d)
    /\ IF RenameRefused(d, e, i, j)
       THEN Return(EndRename(RenameStages(d, n, e, m, i, j, w, FALSE).refused, d, n, i, w, FALSE), "refused")
       ELSE \E indexed \in Indexed(e) : \E stages \in {RenameStages(d, n, e, m, i, j, w, indexed)} :
                EndAt([f \in DOMAIN stages |-> EndRename(stages[f], d, n, i, w, f = "none")],
                      RenameFaults(d, e, i, j, w))

\* No inode for the whiteout.
RenameNoWhiteout(d, n, e) ==
    CanMove(d, n, e) /\ Return(fs, "new")

\* ext4_update_dir_count, for both directories.
CrossCounts(s, d, e, i, j) ==
    IF d = e \/ IsDir(s, i) = IsDir(s, j) THEN s
    ELSE IF IsDir(s, i) THEN IncCount(DecCount(s, d), e) ELSE DecCount(IncCount(s, d), e)

\* ext4_cross_rename exchanges i = (d, n) and j = (e, m).
CrossStages(d, n, e, m, i, j) ==
    LET first == SetEnt(fs, e, m, i)
        both == SetEnt(first, d, n, j)
        oldDone == DirFinish(both, d, e, i)
        newDone == DirFinish(oldDone, e, d, j) IN
    [write |-> fs, second |-> first, inode |-> both, finish |-> oldDone, newdir |-> newDone,
     none |-> CrossCounts(newDone, d, e, i, j)]

CrossRefused(d, e, i, j) ==
    d # e /\ IsDir(fs, i) # IsDir(fs, j) /\ DirLinkMax(fs, IF IsDir(fs, i) THEN e ELSE d)

CrossRename(d, n, e, m) ==
    LET i == fs.entry[<<d, n>>]
        j == fs.entry[<<e, m>>] IN
    /\ CanMove(d, n, e) /\ CanMove(e, m, d) /\ i # j
    /\ IF CrossRefused(d, e, i, j) THEN Return(fs, "refused")
       ELSE \E stages \in {CrossStages(d, n, e, m, i, j)} : EndAt(stages, DOMAIN stages)

-----------------------------------------------------------------------------
(* Processes and mounts *)

\* ext4_lookup: what a name leads to; "corrupted" is -EFSCORRUPTED.
Lookup(d, n) ==
    LET i == fs.entry[<<d, n>>] IN
    IF i # NoIno /\ (i = d \/ fs.kind[i] = "free" \/ fs.nlink[i] = 0) THEN "corrupted" ELSE "ok"

\* ext4_get_parent
GetParent(d) == fs.dotdot[d]

Open(d, n) ==
    /\ ~error /\ CanUse(d) /\ Lookup(d, n) = "ok" /\ fs.entry[<<d, n>>] # NoIno
    /\ open' = open \cup {fs.entry[<<d, n>>]}
    /\ failed' = FALSE /\ UNCHANGED <<fs, error>>

Close(i) ==
    /\ ~error /\ i \in open
    /\ open' = open \ {i}
    /\ fs' = Iput(fs, {i}, {})
    /\ failed' = FALSE /\ UNCHANGED error

\* A crash and the next mount, whose orphan cleanup frees the list's inodes.
Crash ==
    /\ ~error /\ open # {}
    /\ open' = {}
    /\ fs' = [Iput(fs, fs.orphan, {}) EXCEPT !.linkable = {}]
    /\ failed' = FALSE /\ UNCHANGED error

Init ==
    /\ fs = [kind |-> [i \in Inos |-> IF i = Root THEN "dir" ELSE "free"],
             nlink |-> [i \in Inos |-> IF i = Root THEN 2 ELSE 0],
             entry |-> [p \in Places |-> NoIno],
             dotdot |-> [i \in Inos |-> IF i = Root THEN Root ELSE NoIno],
             dx |-> {}, orphan |-> {}, linkable |-> {}]
    /\ open = {} /\ failed = FALSE /\ error = FALSE

Next ==
    \/ \E d \in Inos, n \in Names :
          \/ \E i \in FreeInos, x \in Indexed(d) :
                \/ \E f \in {"none", "new", "add", "inode"} : Create(d, n, i, f, x)
                \/ \E f \in {"none", "new", "block", "add", "inode"} : Symlink(d, n, i, f, x)
                \/ Mkdir(d, n, i, x)
          \/ MkdirRefused(d, n)
          \/ \E i \in Inos, x \in Indexed(d), f \in {"none", "add", "inode"} : Link(d, n, i, f, x)
          \/ Rmdir(d, n) \/ Unlink(d, n)
          \/ \E e \in Inos, m \in Names :
                \/ \E w \in FreeInos \cup {NoIno} : Rename(d, n, e, m, w)
                \/ CrossRename(d, n, e, m)
          \/ \E e \in Inos : RenameNoWhiteout(d, n, e)
          \/ Open(d, n)
    \/ \E i \in FreeInos, f \in {"none", "new", "inode"} : Tmpfile(i, f)
    \/ \E i \in Inos : Close(i)
    \/ Crash

Spec == Init /\ [][Next]_vars

-----------------------------------------------------------------------------
(* Properties *)

TypeOK ==
    /\ fs.kind \in [Inos -> {"free", "file", "dir"}]
    /\ fs.nlink \in [Inos -> 0 .. LinkMax]
    /\ fs.entry \in [Places -> Inos \cup {NoIno}]
    /\ fs.dotdot \in [Inos -> Inos \cup {NoIno}]
    /\ fs.dx \subseteq Inos /\ fs.orphan \subseteq Inos /\ fs.linkable \subseteq Inos
    /\ open \subseteq Inos /\ failed \in BOOLEAN /\ error \in BOOLEAN

Subdirs(d) == {n \in Names : IsDir(fs, fs.entry[<<d, n>>])}
Links(i) == {p \in Places : fs.entry[p] = i}

\* i_nlink of a file in use is the number of its entries; that of a directory is
\* 2 and one for each subdirectory, or 1 from when an indexed directory had more
\* than EXT4_LINK_MAX of them (ext4_inc_count and ext4_dec_count in every call);
\* no count passes that limit.
LinkCounts ==
    ~error => \A i \in Inos :
        /\ fs.nlink[i] <= LinkMax
        /\ fs.kind[i] = "file" => fs.nlink[i] = Cardinality(Links(i))
        /\ CanUse(i) => \/ fs.nlink[i] = 2 + Cardinality(Subdirs(i))
                        \/ fs.nlink[i] = 1 /\ i \in fs.dx /\ DirNlink

\* The directories are a tree: each in use, but the root, has one entry, in the
\* directory its ".." names (what ext4_rename_dir_prepare and ext4_get_parent go
\* by), and the root is above it; a removed one has no entries.
DirectoryTree ==
    ~error => \A d \in Inos : IsDir(fs, d) =>
        IF fs.nlink[d] = 0 THEN EmptyDir(fs, d) /\ Links(d) = {}
        ELSE IF d = Root THEN Links(d) = {}
        ELSE /\ \E n \in Names : Links(d) = {<<GetParent(d), n>>}
             /\ Root \in Above(fs, d)

\* No lookup meets a deleted inode or the directory itself (ext4_lookup's calls of
\* EXT4_ERROR_INODE).
LookupsClean == ~error => \A d \in Inos, n \in Names : CanUse(d) => Lookup(d, n) = "ok"

\* The orphan list is what a mount after a crash has to free: the inodes without
\* links, each of which a process still holds open.
OrphansExact ==
    ~error => fs.orphan = {i \in Inos : fs.kind[i] # "free" /\ fs.nlink[i] = 0} /\ fs.orphan \subseteq open

\* A call that returns an error without one being recorded leaves the namespace,
\* link counts and inodes in use as they were: what it had done, a whiteout in the
\* old entry's place included, it undid.
FailedKeeps == [][failed' /\ ~error' => fs' = fs]_vars
=============================================================================
