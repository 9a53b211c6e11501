------------------------------ MODULE DentryOps ------------------------------
(***************************************************************************)
(* evfs_dentry_add, _read, _delete and _update (evfs.c) on a directory of  *)
(* one block, with the inode locks and references they take, link counts,  *)
(* the tracker, and the dentry cache that path lookups go through.  The    *)
(* block is a row of slots of one size; slot 1 is "." and slot 2 "..".     *)
(***************************************************************************)
EXTENDS Integers, FiniteSets

CONSTANTS Threads,     \* tasks inside an eVFS ioctl
          Dir, File,   \* inode numbers of the directory and of its file "a"
          Pinned,      \* inode numbers evfs_inode_alloc made: one link, no entry
          Names,       \* names other than "." and ".."
          Slots,       \* slots of the directory block
          Ops,         \* the operations called: add, delete, update, read
          Targets,     \* inode numbers callers pass as child or new inode
          Indexes,     \* indexes callers pass to evfs_dentry_update
          MayAbort,    \* whether the journal may abort
          MaxNlink     \* bound on i_nlink, for evfs_dentry_update

Inos == {Dir, File} \cup Pinned
NoName == "-"       \* the name of a free slot, of a call without one

ASSUME DentryAssumption ==
    /\ Inos \subseteq Nat \ {0} /\ Dir # File /\ {Dir, File} \cap Pinned = {}
    /\ "a" \in Names /\ Names \cap {".", "..", NoName} = {}
    /\ Slots \in Nat /\ Slots > 2
    /\ Ops \subseteq {"add", "delete", "update", "read"}
    /\ Targets \subseteq Inos /\ Indexes \subseteq Nat
    /\ MayAbort \in BOOLEAN /\ MaxNlink \in Nat

NoIno == 0          \* de->inode of a deleted entry; a negative dentry
BadIno == -1        \* old_ino_num when no entry has the index
FreeSlot == [name |-> NoName, ino |-> NoIno]

VARIABLES block,     \* the slots of the directory
          nlink,     \* i_nlink
          live,      \* inodes allocated on disk
          orphan,    \* the orphan list
          tracked,   \* the inode tracker
          dcache,    \* per name: the inodes its cached dentries lead to
          refs,      \* tasks holding a reference on each inode
          owner,     \* task holding each inode's lock: a set of at most one
          aborted,   \* the journal has been aborted
          pc,        \* per task: where it is in its call
          call       \* per task: the arguments and locals of its call

fs == <<block, nlink, live, orphan, tracked, dcache>>
vars == <<fs, refs, owner, aborted, pc, call>>

Request(o, d, n, i, x) == [op |-> o, dir |-> d, name |-> n, ino |-> i, index |-> x, old |-> NoIno]
NoCall == Request("none", Dir, NoName, NoIno, 0)

Labels == {"idle", "dir", "add", "addlock", "link", "delete", "deletelock", "untrack", "unlink",
           "update", "newlock", "inc", "oldlock", "dec", "set", "stop", "child", "release", "leave"}

Goto(t, l) == pc' = [pc EXCEPT ![t] = l]

-----------------------------------------------------------------------------
(* The directory block *)

\* The first of a set of slots; 0 when there is none.
First(S) == IF \E k \in S : \A j \in S : k <= j THEN CHOOSE k \in S : \A j \in S : k <= j ELSE 0

\* The first slot with that name, as search_dir finds it.
Find(name) == First({k \in 1 .. Slots : block[k].ino # NoIno /\ block[k].name = name})

\* The slot ext4_find_dest_de picks, the first free one.
FindDest == First({k \in 1 .. Slots : block[k].ino = NoIno})

\* ext4_find_dest_de compares names on its way to that slot and no further.
Exists(name) ==
    \E k \in 1 .. Slots :
        /\ block[k].ino # NoIno /\ block[k].name = name
        /\ \A j \in 1 .. k : block[j].ino # NoIno

\* The slot of the entry with an index, deleted ones skipped; 0 when past the end.
Nth(index) ==
    LET used(k) == {j \in 1 .. k : block[j].ino # NoIno} IN
    First({k \in 1 .. Slots : block[k].ino # NoIno /\ Cardinality(used(k)) = index + 1})

Entries(i) == {k \in 1 .. Slots : block[k].ino = i}

-----------------------------------------------------------------------------
(* Inodes in core *)

Cached(i) == \E n \in Names : i \in dcache[n]

\* What ext4_iget accepts: an inode with links, or one still in core.
CanGet(i) == i \in live /\ (nlink[i] > 0 \/ refs[i] # {} \/ Cached(i))

Get(t, i) == refs' = [refs EXCEPT ![i] = @ \cup {t}]

\* iput of the inodes in S by task t, the link counts and the cache as the step
\* leaves them: what has no link and no reference is evicted and freed.
Put(t, S) ==
    LET dead == {i \in S : nlink'[i] = 0 /\ refs[i] \subseteq {t}
                           /\ (\A n \in Names : i \notin dcache'[n]) /\ ~aborted} IN
    /\ refs' = [i \in Inos |-> IF i \in S THEN refs[i] \ {t} ELSE refs[i]]
    /\ live' = live \ dead
    /\ orphan' = orphan \ dead

Lock(t, i) == owner[i] = {} /\ owner' = [owner EXCEPT ![i] = {t}]
Unlock(i) == owner' = [owner EXCEPT ![i] = {}]

Init ==
    /\ block = [k \in 1 .. Slots |->
                  IF k = 1 THEN [name |-> ".", ino |-> Dir]
                  ELSE IF k = 2 THEN [name |-> "..", ino |-> Dir]
                  ELSE IF k = 3 THEN [name |-> "a", ino |-> File] ELSE FreeSlot]
    /\ nlink = [i \in Inos |-> IF i = Dir THEN 2 ELSE 1]
    /\ live = Inos /\ orphan = {} /\ tracked = Pinned
    /\ dcache = [n \in Names |-> {}]
    /\ refs = [i \in Inos |-> {}] /\ owner = [i \in Inos |-> {}]
    /\ aborted = FALSE
    /\ pc = [t \in Threads |-> "idle"] /\ call = [t \in Threads |-> NoCall]

-----------------------------------------------------------------------------
(* What the operations share *)

\* The arguments a call may bring: on the directory, or on the file, which is refused.
Adds == {Request("add", d, n, i, 0) : d \in {Dir, File}, n \in Names, i \in Targets}
Deletes == {Request("delete", d, n, NoIno, 0) : d \in {Dir, File}, n \in Names}
Updates == {Request("update", d, NoName, i, x) : d \in {Dir, File}, i \in Targets, x \in Indexes}
Reads == {Request("read", d, NoName, NoIno, 0) : d \in {Dir, File}}

\* The arguments, and ext4_iget of the directory.
Begin(t) ==
    /\ pc[t] = "idle"
    /\ \E c \in Adds \cup Deletes \cup Updates \cup Reads :
         /\ c.op \in Ops /\ CanGet(c.dir)
         /\ c.op = "update" => nlink[c.ino] < MaxNlink
         /\ call' = [call EXCEPT ![t] = c]
         /\ Get(t, c.dir)
    /\ Goto(t, "dir")
    /\ UNCHANGED <<fs, owner, aborted>>

\* inode_lock on the directory and the S_ISDIR check.  evfs_dentry_read takes the
\* lock shared, reads and lets go.
LockDir(t) ==
    LET d == call[t].dir IN
    /\ pc[t] = "dir"
    /\ IF call[t].op = "read"
       THEN owner[d] = {} /\ Goto(t, "leave") /\ UNCHANGED owner
       ELSE /\ Lock(t, d)
            /\ Goto(t, IF d # Dir THEN "release" ELSE call[t].op)
    /\ UNCHANGED <<fs, refs, aborted, call>>

\* Unlock and put the directory.
Release(t) ==
    /\ pc[t] = "release"
    /\ Unlock(call[t].dir)
    /\ Goto(t, "leave")
    /\ UNCHANGED <<fs, refs, aborted, call>>

\* The last iput, and the return.
Leave(t) ==
    /\ pc[t] = "leave"
    /\ UNCHANGED <<nlink, dcache>>
    /\ Put(t, {call[t].dir})
    /\ Goto(t, "idle")
    /\ call' = [call EXCEPT ![t] = NoCall]
    /\ UNCHANGED <<block, tracked, owner, aborted>>

\* release_cino: unlock and put the child.
ReleaseChild(t) ==
    /\ pc[t] = "child"
    /\ Unlock(call[t].ino)
    /\ UNCHANGED <<nlink, dcache>>
    /\ Put(t, {call[t].ino})
    /\ Goto(t, IF call[t].op = "add" THEN "release" ELSE "leave")
    /\ UNCHANGED <<block, tracked, aborted, call>>

-----------------------------------------------------------------------------
(* evfs_dentry_add *)

\* d_find_any_alias, which finds nothing for a directory no path led to yet, and
\* ext4_iget of the child.
AddGet(t) ==
    /\ pc[t] = "add"
    /\ \/ Goto(t, "release") /\ UNCHANGED refs
       \/ CanGet(call[t].ino) /\ Get(t, call[t].ino) /\ Goto(t, "addlock")
    /\ UNCHANGED <<fs, owner, aborted, call>>

AddLock(t) ==
    /\ pc[t] = "addlock"
    /\ Lock(t, call[t].ino)
    /\ Goto(t, "link")
    /\ UNCHANGED <<fs, refs, aborted, call>>

\* Mutant of AddLink: the entry goes in without ext4_inc_count.
AddLinkUncounted(t) ==
    /\ pc[t] = "link"
    /\ ~aborted /\ FindDest # 0
    /\ block' = [block EXCEPT ![FindDest] = [name |-> call[t].name, ino |-> call[t].ino]]
    /\ Goto(t, "child")
    /\ UNCHANGED <<nlink, live, orphan, tracked, dcache, refs, owner, aborted, call>>

\* d_alloc, dquot_initialize, and __ext4_link in a handle of its own: on any error
\* nothing is changed.
AddLink(t) ==
    LET i == call[t].ino IN
    /\ pc[t] = "link"
    /\ \/ UNCHANGED <<block, nlink, orphan>>
       \/ /\ ~aborted /\ ~Exists(call[t].name) /\ FindDest # 0
          /\ block' = [block EXCEPT ![FindDest] = [name |-> call[t].name, ino |-> i]]
          /\ nlink' = [nlink EXCEPT ![i] = @ + 1]
          /\ orphan' = IF nlink[i] = 0 THEN orphan \ {i} ELSE orphan
    /\ Goto(t, "child")
    /\ UNCHANGED <<live, tracked, dcache, refs, owner, aborted, call>>

-----------------------------------------------------------------------------
(* evfs_dentry_delete *)

\* Without an alias the directory is released; without the entry, or its inode,
\* release_pde puts the directory and leaves it locked.
DeleteFind(t) ==
    LET k == Find(call[t].name)
        found == k # 0 /\ CanGet(block[k].ino)
    IN
    /\ pc[t] = "delete"
    /\ \/ Goto(t, "release") /\ UNCHANGED <<refs, call>>
       \/ IF ~found
          THEN Goto(t, "leave") /\ UNCHANGED <<refs, call>>
          ELSE /\ Get(t, block[k].ino)
               /\ call' = [call EXCEPT ![t].ino = block[k].ino]
               /\ Goto(t, "deletelock")
    /\ UNCHANGED <<fs, owner, aborted>>

DeleteLock(t) ==
    /\ pc[t] = "deletelock"
    /\ Lock(t, call[t].ino)
    /\ Goto(t, "untrack")
    /\ UNCHANGED <<fs, refs, aborted, call>>

\* __evfs_inode_untrack_nolock, then d_alloc and d_add, which hands the reference
\* to the dentry cache.  d_alloc may fail.
DeleteUntrack(t) ==
    /\ pc[t] = "untrack"
    /\ tracked' = tracked \ {call[t].ino}
    /\ \/ Goto(t, "child") /\ UNCHANGED dcache
       \/ Goto(t, "unlink") /\ dcache' = [dcache EXCEPT ![call[t].name] = @ \cup {call[t].ino}]
    /\ UNCHANGED <<block, nlink, live, orphan, refs, owner, aborted, call>>

\* Taking the entry in slot k out, as __ext4_unlink does.
RemoveEntry(k) ==
    LET i == block[k].ino IN
    /\ block' = [block EXCEPT ![k] = FreeSlot]
    /\ nlink' = [nlink EXCEPT ![i] = IF @ = 0 THEN 0 ELSE @ - 1]

\* dquot_initialize, which may fail, and __ext4_unlink.
DeleteUnlink(t) ==
    LET i == call[t].ino
        k == Find(call[t].name)
    IN
    /\ pc[t] = "unlink"
    /\ \/ UNCHANGED <<block, nlink, orphan>>
       \/ /\ ~aborted /\ k # 0
          /\ block[k].ino = i
          /\ RemoveEntry(k)
          /\ orphan' = IF nlink'[i] = 0 THEN orphan \cup {i} ELSE orphan
    /\ Goto(t, "child")
    /\ UNCHANGED <<live, tracked, dcache, refs, owner, aborted, call>>

-----------------------------------------------------------------------------
(* evfs_dentry_update *)

\* ext4_journal_start, the search for the index, and ext4_iget of the new inode.
\* old_ino_num is unsigned, so an index that is not found is not noticed.
UpdateFind(t) ==
    LET k == Nth(call[t].index) IN
    /\ pc[t] = "update"
    /\ IF aborted
       THEN Goto(t, "release") /\ UNCHANGED <<refs, call>>
       ELSE IF ~CanGet(call[t].ino)
       THEN Goto(t, "stop") /\ UNCHANGED <<refs, call>>
       ELSE /\ Get(t, call[t].ino)
            /\ call' = [call EXCEPT ![t].old = IF k = 0 THEN BadIno ELSE block[k].ino]
            /\ Goto(t, "newlock")
    /\ UNCHANGED <<fs, owner, aborted>>

UpdateLockNew(t) ==
    /\ pc[t] = "newlock"
    /\ Lock(t, call[t].ino)
    /\ Goto(t, "inc")
    /\ UNCHANGED <<fs, refs, aborted, call>>

\* Mutant of UpdateInc: the new inode is not counted.
UpdateIncForgotten(t) ==
    /\ pc[t] = "inc"
    /\ call[t].old # BadIno
    /\ Unlock(call[t].ino) /\ Goto(t, "oldlock") /\ Get(t, call[t].old)
    /\ UNCHANGED <<fs, aborted, call>>

\* The new inode's count goes up.  When that cannot be journalled the inode stays
\* locked; when the old inode cannot be had the count stays up.
UpdateInc(t) ==
    /\ pc[t] = "inc"
    /\ nlink' = [nlink EXCEPT ![call[t].ino] = @ + 1]
    /\ IF aborted THEN Goto(t, "stop") /\ UNCHANGED <<owner, refs>>
       ELSE /\ Unlock(call[t].ino)
            /\ IF call[t].old = BadIno \/ ~CanGet(call[t].old)
               THEN Goto(t, "stop") /\ UNCHANGED refs
               ELSE Goto(t, "oldlock") /\ Get(t, call[t].old)
    /\ UNCHANGED <<block, live, orphan, tracked, dcache, aborted, call>>

UpdateLockOld(t) ==
    /\ pc[t] = "oldlock"
    /\ Lock(t, call[t].old)
    /\ Goto(t, "dec")
    /\ UNCHANGED <<fs, refs, aborted, call>>

\* Mutant of UpdateDec: ext4_orphan_add is left out.
UpdateDecNoOrphan(t) ==
    /\ pc[t] = "dec"
    /\ nlink' = [nlink EXCEPT ![call[t].old] = @ - 1]
    /\ Unlock(call[t].old) /\ Goto(t, "set")
    /\ UNCHANGED <<block, live, orphan, tracked, dcache, refs, aborted, call>>

\* The old inode's count goes down; without links it is untracked and orphaned.
UpdateDec(t) ==
    LET i == call[t].old IN
    /\ pc[t] = "dec"
    /\ nlink' = [nlink EXCEPT ![i] = @ - 1]
    /\ IF aborted THEN Goto(t, "stop") /\ UNCHANGED <<owner, tracked, orphan>>
       ELSE /\ Unlock(i) /\ Goto(t, "set")
            /\ tracked' = IF nlink[i] = 1 THEN tracked \ {i} ELSE tracked
            /\ orphan' = IF nlink[i] = 1 THEN orphan \cup {i} ELSE orphan
    /\ UNCHANGED <<block, live, dcache, refs, aborted, call>>

\* The entry gets its new inode number.
UpdateSet(t) ==
    /\ pc[t] = "set"
    /\ block' = [block EXCEPT ![Nth(call[t].index)].ino = call[t].ino]
    /\ Goto(t, "stop")
    /\ UNCHANGED <<nlink, live, orphan, tracked, dcache, refs, owner, aborted, call>>

\* ext4_journal_stop and the two iputs; the directory is put later.
UpdateStop(t) ==
    /\ pc[t] = "stop"
    /\ UNCHANGED <<nlink, dcache>>
    /\ Put(t, {i \in {call[t].ino, call[t].old} \ {call[t].dir} : i > 0 /\ t \in refs[i]})
    /\ Goto(t, "release")
    /\ UNCHANGED <<block, tracked, owner, aborted, call>>

-----------------------------------------------------------------------------
(* Path lookups, unlink(2), memory pressure and the journal *)

\* ext4_lookup, under the shared directory lock, fills the dentry cache.
ext4_lookup(n) ==
    /\ owner[Dir] = {} /\ dcache[n] = {}
    /\ dcache' = [dcache EXCEPT ![n] = {IF Find(n) = 0 THEN NoIno ELSE block[Find(n)].ino}]
    /\ UNCHANGED <<block, nlink, live, orphan, tracked, refs, owner, aborted, pc, call>>

\* ext4_unlink through a cached dentry, and the d_delete that follows it.
ext4_unlink(n, i) ==
    LET k == Find(n) IN
    /\ i \in dcache[n] \ {NoIno} /\ owner[Dir] = {} /\ owner[i] = {} /\ ~aborted
    /\ k # 0
    /\ block[k].ino = i
    /\ RemoveEntry(k)
    /\ dcache' = [dcache EXCEPT ![n] = (@ \ {i}) \cup {NoIno}]
    /\ LET dead == nlink'[i] = 0 /\ refs[i] = {} /\ \A m \in Names : i \notin dcache'[m] IN
       /\ live' = IF dead THEN live \ {i} ELSE live
       /\ orphan' = IF dead THEN orphan \ {i}
                    ELSE IF nlink'[i] = 0 THEN orphan \cup {i} ELSE orphan
    /\ UNCHANGED <<tracked, refs, owner, aborted, pc, call>>

\* The dentry cache drops a dentry.
Shrink(n, i) ==
    /\ i \in dcache[n]
    /\ dcache' = [dcache EXCEPT ![n] = @ \ {i}]
    /\ LET dead == {j \in {i} \cap live : nlink[j] = 0 /\ refs[j] = {} /\ ~aborted
                                           /\ \A m \in Names : j \notin dcache'[m]} IN
       live' = live \ dead /\ orphan' = orphan \ dead
    /\ UNCHANGED <<block, nlink, tracked, refs, owner, aborted, pc, call>>

Abort ==
    /\ MayAbort /\ ~aborted
    /\ aborted' = TRUE
    /\ UNCHANGED <<fs, refs, owner, pc, call>>

Step(t) ==
    \/ LockDir(t) \/ Release(t) \/ Leave(t) \/ ReleaseChild(t)
    \/ AddGet(t) \/ AddLock(t) \/ AddLink(t)
    \/ DeleteFind(t) \/ DeleteLock(t) \/ DeleteUntrack(t) \/ DeleteUnlink(t)
    \/ UpdateFind(t) \/ UpdateLockNew(t) \/ UpdateInc(t) \/ UpdateLockOld(t) \/ UpdateDec(t)
    \/ UpdateSet(t) \/ UpdateStop(t)

Next ==
    \/ \E t \in Threads : Begin(t) \/ Step(t)
    \/ \E n \in Names : ext4_lookup(n) \/ \E i \in Inos \cup {NoIno} : ext4_unlink(n, i) \/ Shrink(n, i)
    \/ Abort

Spec == Init /\ [][Next]_vars

-----------------------------------------------------------------------------

\* Every variable has its type.
TypeOK ==
    /\ block \in [1 .. Slots -> [name : Names \cup {".", "..", NoName}, ino : Inos \cup {NoIno}]]
    /\ nlink \in [Inos -> Nat] /\ live \in SUBSET Inos /\ orphan \in SUBSET Inos
    /\ tracked \in SUBSET Inos /\ dcache \in [Names -> SUBSET (Inos \cup {NoIno})]
    /\ refs \in [Inos -> SUBSET Threads] /\ owner \in [Inos -> SUBSET Threads]
    /\ aborted \in BOOLEAN /\ pc \in [Threads -> Labels]

\* evfs_dentry_update has taken a link from i and not yet changed its entry.
Between(i) == {t \in Threads : pc[t] = "set" /\ call[t].old = i}

\* Every entry is covered by a link of the inode it names, but for the one that
\* evfs_dentry_update is about to change: no count reaches zero too early,
\* whichever calls run together and whatever index or name they are given.
LinksCoverEntries ==
    ~aborted => \A i \in Inos : nlink[i] + Cardinality(Between(i)) >= Cardinality(Entries(i))

\* No entry names a freed inode.
EntriesAreLive == \A k \in 1 .. Slots : block[k].ino = NoIno \/ block[k].ino \in live

\* An inode without links is on the orphan list, where the recovery after a crash
\* finds it, and something in memory holds it whose end will free it.
NoLinklessInode ==
    ~aborted => \A i \in live : nlink[i] = 0 => i \in orphan /\ (refs[i] # {} \/ Cached(i))

\* Once no call runs, the count is the number of entries and, for an inode
\* evfs_inode_alloc made and that was not freed, at most the one link it began with.
NlinkExact ==
    (\A t \in Threads : pc[t] = "idle") /\ ~aborted
        => \A i \in Inos : nlink[i] = Cardinality(Entries(i)) + (IF i \in Pinned THEN 1 ELSE 0)

\* No two entries of a directory have the same name.
UniqueNames ==
    \A j, k \in 1 .. Slots :
        block[j].ino # NoIno /\ block[k].ino # NoIno /\ block[j].name = block[k].name => j = k

\* A lock is held only by a task inside a call.
LocksAreReleased == \A i \in Inos : \A t \in owner[i] : pc[t] # "idle"

\* The orphan list holds only inodes without links.
OrphansHaveNoLinks == \A i \in orphan : nlink[i] = 0

\* When no call runs, a name the dentry cache holds leads where the directory
\* leads.
CacheAgrees ==
    (\A t \in Threads : pc[t] = "idle")
        => \A n \in Names : dcache[n] \subseteq {IF Find(n) = 0 THEN NoIno ELSE block[Find(n)].ino}

=============================================================================
