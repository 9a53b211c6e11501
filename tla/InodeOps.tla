------------------------------ MODULE InodeOps ------------------------------
(***************************************************************************)
(* evfs_inode_alloc and evfs_inode_free (evfs.c) next to the ordinary life *)
(* of an inode: creation, links and unlinks by ext4, the last iput that    *)
(* frees an unlinked inode, journal commits, aborts and crashes.  One      *)
(* block group.  The tracker is the atomic set InodeTracker implements;    *)
(* directories are reduced to how many entries name each inode.            *)
(***************************************************************************)
EXTENDS Integers, FiniteSets

CONSTANTS Threads,        \* tasks inside an eVFS ioctl
          NumInodes,      \* inodes per group, numbered from 1
          Untrackable,    \* inode numbers evfs_bit_wrapper rejects
          QuotaMayFail,   \* whether dquot_alloc_inode may answer -EDQUOT
          MaxLinks        \* bound on the entries that name an inode

Inos == 1 .. NumInodes

ASSUME InodeAssumption ==
    /\ NumInodes \in Nat \ {0}
    /\ Untrackable \subseteq Inos
    /\ QuotaMayFail \in BOOLEAN
    /\ MaxLinks \in Nat

VARIABLES ibitmap,   \* the inode bitmap: numbers whose bit is set
          ifree,     \* free inodes: group descriptor, and s_freeinodes_counter
          unused,    \* bg_itable_unused: length of the table's unused tail
          tracked,   \* the inode tracker
          nlink,     \* i_nlink of each inode
          links,     \* directory entries that name each inode
          orphan,    \* the orphan list
          fresh,     \* inodes in core with I_NEW, which iget waits for
          refs,      \* tasks that hold a reference on each inode
          owner,     \* who holds each inode's i_rwsem: a set of at most one
          dirty,     \* which of "bitmap" and "desc" the transaction holds
          disk,      \* what the journal has committed
          aborted,   \* the journal has been aborted
          pc, arg, ret,
          pinned,    \* ghost: inodes whose count holds evfs_inode_alloc's one
          maker      \* ghost: who allocated each inode, "evfs" or "ext4"

mem == <<ibitmap, ifree, unused, tracked, nlink, links, orphan, fresh, dirty>>
ghosts == <<pinned, maker>>
env == <<disk, aborted>>
vars == <<mem, refs, owner, env, pc, arg, ret, ghosts>>

Labels == {"idle", "bit", "track", "quota", "group", "dirty", "drop", "stop", "iput",
           "lock", "free", "unlock"}
InHandle == {"bit", "track", "quota", "group", "dirty", "drop", "stop"}
Results == {"none", "OK", "EEXIST", "EINVAL", "EIO", "EDQUOT", "EROFS", "EBUSY", "ENOENT"}

Goto(t, l) == pc' = [pc EXCEPT ![t] = l]
Answer(t, r) == ret' = [ret EXCEPT ![t] = r]

\* The call returns its answer; nothing of it is left in the task.
Return(t) ==
    /\ pc' = [pc EXCEPT ![t] = "idle"]
    /\ arg' = [arg EXCEPT ![t] = 1]
    /\ ret' = [ret EXCEPT ![t] = "none"]

\* The committed image, and what one commit makes of it: the bitmap and the
\* descriptor only if a handle added them, the inodes and the orphan list always.
Image ==
    [ibitmap |-> IF "bitmap" \in dirty THEN ibitmap ELSE disk.ibitmap,
     ifree   |-> IF "desc" \in dirty THEN ifree ELSE disk.ifree,
     unused  |-> IF "desc" \in dirty THEN unused ELSE disk.unused,
     nlink   |-> nlink, links |-> links, orphan |-> orphan]

-----------------------------------------------------------------------------

Init ==
    /\ ibitmap = {} /\ ifree = NumInodes /\ unused = NumInodes
    /\ tracked = {}
    /\ nlink = [i \in Inos |-> 0]
    /\ links = [i \in Inos |-> 0]
    /\ orphan = {} /\ fresh = {} /\ dirty = {}
    /\ disk = [ibitmap |-> {}, ifree |-> NumInodes, unused |-> NumInodes,
               nlink |-> nlink, links |-> links, orphan |-> {}]
    /\ aborted = FALSE
    /\ refs = [i \in Inos |-> {}]
    /\ owner = [i \in Inos |-> {}]
    /\ pc = [t \in Threads |-> "idle"]
    /\ arg = [t \in Threads |-> 1]
    /\ ret = [t \in Threads |-> "none"]
    /\ pinned = {}
    /\ maker = [i \in Inos |-> "none"]

\* The last reference to an inode without links goes: ext4_evict_inode has
\* ext4_free_inode clear its bit and count it free, unless the journal is gone.
Evict(i) ==
    IF aborted
    THEN UNCHANGED <<ibitmap, ifree, orphan, dirty, maker>>
    ELSE /\ ibitmap' = ibitmap \ {i}
         /\ ifree' = ifree + 1
         /\ orphan' = orphan \ {i}
         /\ dirty' = {"bitmap", "desc"}
         /\ maker' = [maker EXCEPT ![i] = "none"]

-----------------------------------------------------------------------------
(* evfs_inode_alloc *)

\* Up to the write accesses: any failure returns with nothing changed.
AllocBegin(t) ==
    /\ pc[t] = "idle"
    /\ \/ /\ ~aborted
          /\ \E i \in Inos : arg' = [arg EXCEPT ![t] = i]
          /\ Goto(t, "bit") /\ Answer(t, "OK")
       \/ aborted /\ Return(t)
    /\ UNCHANGED <<mem, refs, owner, env, ghosts>>

AllocBit(t) ==
    /\ pc[t] = "bit"
    /\ IF arg[t] \in ibitmap
       THEN Goto(t, "stop") /\ Answer(t, "EEXIST") /\ UNCHANGED ibitmap
       ELSE Goto(t, "track") /\ ibitmap' = ibitmap \cup {arg[t]} /\ UNCHANGED ret
    /\ UNCHANGED <<ifree, unused, tracked, nlink, links, orphan, fresh, dirty,
                   refs, owner, env, arg, ghosts>>

\* Mutant of AllocTrack: set_nlink(ino, 0) leaves the inode to its first entry.
AllocTrackUnlinked(t) ==
    LET i == arg[t] IN
    /\ pc[t] = "track"
    /\ i \notin tracked /\ refs[i] = {}
    /\ Goto(t, "quota")
    /\ tracked' = tracked \cup {i}
    /\ fresh' = fresh \cup {i}
    /\ refs' = [refs EXCEPT ![i] = {t}]
    /\ pinned' = pinned \cup {i}
    /\ maker' = [maker EXCEPT ![i] = "evfs"]
    /\ UNCHANGED <<nlink, ibitmap, ifree, unused, links, orphan, dirty, owner, env, arg, ret>>

\* __evfs_inode_track, then the inode gets its one link and goes into the inode
\* cache.  The two error paths leave the bit set, the second the tracker too.
AllocTrack(t) ==
    LET i == arg[t] IN
    /\ pc[t] = "track"
    /\ IF i \in Untrackable \/ i \in tracked
       THEN /\ Goto(t, "stop")
            /\ Answer(t, IF i \in tracked THEN "EEXIST" ELSE "EINVAL")
            /\ UNCHANGED <<tracked, nlink, fresh, refs, ghosts>>
       ELSE /\ tracked' = tracked \cup {i}
            /\ IF refs[i] # {}
               THEN Goto(t, "stop") /\ Answer(t, "EIO") /\ UNCHANGED <<nlink, fresh, refs, ghosts>>
               ELSE /\ Goto(t, "quota")
                    /\ nlink' = [nlink EXCEPT ![i] = 1]
                    /\ fresh' = fresh \cup {i}
                    /\ refs' = [refs EXCEPT ![i] = {t}]
                    /\ pinned' = pinned \cup {i}
                    /\ maker' = [maker EXCEPT ![i] = "evfs"]
                    /\ UNCHANGED ret
    /\ UNCHANGED <<ibitmap, ifree, unused, links, orphan, dirty, owner, env, arg>>

\* dquot_alloc_inode and ext4_mark_inode_dirty.
AllocQuota(t) ==
    /\ pc[t] = "quota"
    /\ \/ QuotaMayFail /\ Goto(t, "drop") /\ Answer(t, "EDQUOT")
       \/ aborted /\ Goto(t, "drop") /\ Answer(t, "EROFS")
       \/ ~aborted /\ Goto(t, "group") /\ UNCHANGED ret
    /\ UNCHANGED <<mem, refs, owner, env, arg, ghosts>>

\* Mutant of AllocGroup: the group descriptor is left alone.
AllocGroupForgotten(t) ==
    /\ pc[t] = "group"
    /\ Goto(t, "dirty")
    /\ UNCHANGED <<mem, refs, owner, env, arg, ret, ghosts>>

\* Under the group lock again: the free count and the unused tail of the table.
AllocGroup(t) ==
    LET offset == arg[t] - 1
        inUse  == NumInodes - unused
    IN
    /\ pc[t] = "group"
    /\ ifree' = ifree - 1
    /\ unused' = IF offset > inUse THEN NumInodes - offset - 1 ELSE unused
    /\ Goto(t, "dirty")
    /\ UNCHANGED <<ibitmap, tracked, nlink, links, orphan, fresh, dirty,
                   refs, owner, env, arg, ret, ghosts>>

\* Mutant of AllocDirty: the inode bitmap is not added to the handle.
AllocDirtyDescOnly(t) ==
    /\ pc[t] = "dirty"
    /\ Goto(t, "stop")
    /\ dirty' = dirty \cup {"desc"}
    /\ fresh' = fresh \ {arg[t]}
    /\ UNCHANGED <<ibitmap, ifree, unused, tracked, nlink, links, orphan,
                   refs, owner, env, arg, ret, ghosts>>

\* The three ext4_handle_dirty_metadata calls, then unlock_new_inode.
AllocDirty(t) ==
    /\ pc[t] = "dirty"
    /\ IF aborted
       THEN Goto(t, "drop") /\ Answer(t, "EROFS") /\ UNCHANGED <<dirty, fresh>>
       ELSE /\ Goto(t, "stop")
            /\ dirty' = {"bitmap", "desc"}
            /\ fresh' = fresh \ {arg[t]}
            /\ UNCHANGED ret
    /\ UNCHANGED <<ibitmap, ifree, unused, tracked, nlink, links, orphan,
                   refs, owner, env, arg, ghosts>>

\* fail_free_drop and fail_drop.
AllocDrop(t) ==
    /\ pc[t] = "drop"
    /\ nlink' = [nlink EXCEPT ![arg[t]] = 0]
    /\ fresh' = fresh \ {arg[t]}
    /\ pinned' = pinned \ {arg[t]}
    /\ Goto(t, "stop")
    /\ UNCHANGED <<ibitmap, ifree, unused, tracked, links, orphan, dirty,
                   refs, owner, env, arg, ret, maker>>

\* ext4_journal_stop.  An inode that never reached the inode cache just goes.
AllocStop(t) ==
    /\ pc[t] = "stop"
    /\ IF t \in refs[arg[t]]
       THEN Goto(t, "iput") /\ Answer(t, IF aborted THEN "EROFS" ELSE ret[t]) /\ UNCHANGED arg
       ELSE Return(t)
    /\ UNCHANGED <<mem, refs, owner, env, ghosts>>

\* Mutant of Iput: the last reference to an inode without links frees nothing.
IputKeeps(t) ==
    LET i == arg[t] IN
    /\ pc[t] = "iput"
    /\ refs' = [refs EXCEPT ![i] = @ \ {t}]
    /\ Return(t)
    /\ UNCHANGED <<mem, owner, env, ghosts>>

\* iput, for both calls.
Iput(t) ==
    LET i == arg[t] IN
    /\ pc[t] = "iput"
    /\ refs' = [refs EXCEPT ![i] = @ \ {t}]
    /\ IF nlink[i] = 0 /\ refs[i] = {t}
       THEN Evict(i)
       ELSE UNCHANGED <<ibitmap, ifree, orphan, dirty, maker>>
    /\ Return(t)
    /\ UNCHANGED <<unused, tracked, nlink, links, fresh, owner, env, pinned>>

-----------------------------------------------------------------------------
(* evfs_inode_free *)

\* ext4_iget waits for an inode that is being made, and refuses one without
\* links unless it is still in core.
FreeBegin(t) ==
    /\ pc[t] = "idle"
    /\ \E i \in Inos \ fresh :
         IF nlink[i] = 0 /\ refs[i] = {}
         THEN Return(t) /\ UNCHANGED refs
         ELSE /\ arg' = [arg EXCEPT ![t] = i]
              /\ refs' = [refs EXCEPT ![i] = @ \cup {t}]
              /\ Goto(t, "lock") /\ Answer(t, "OK")
    /\ UNCHANGED <<mem, owner, env, ghosts>>

FreeLock(t) ==
    /\ pc[t] = "lock"
    /\ owner[arg[t]] = {}
    /\ owner' = [owner EXCEPT ![arg[t]] = {t}]
    /\ IF aborted THEN Goto(t, "unlock") /\ Answer(t, "EROFS")
                  ELSE Goto(t, "free") /\ UNCHANGED ret
    /\ UNCHANGED <<mem, refs, env, arg, ghosts>>

\* Mutant of Free: any inode with at most one link is freed.
FreeUntracked(t) ==
    LET i == arg[t] IN
    /\ pc[t] = "free"
    /\ IF nlink[i] > 1
       THEN Answer(t, "EBUSY") /\ UNCHANGED <<tracked, nlink, orphan, pinned>>
       ELSE /\ tracked' = tracked \ {i}
            /\ nlink' = [nlink EXCEPT ![i] = @ - 1]
            /\ orphan' = orphan \cup {i}
            /\ pinned' = pinned \ {i}
            /\ UNCHANGED ret
    /\ Goto(t, "unlock")
    /\ UNCHANGED <<ibitmap, ifree, unused, links, fresh, dirty, refs, owner, env, arg, maker>>

\* Mutant of Free: the inode stays in the tracker.
FreeKeepsTrack(t) ==
    LET i == arg[t] IN
    /\ pc[t] = "free"
    /\ IF nlink[i] > 1 \/ i \notin tracked
       THEN Answer(t, "EBUSY") /\ UNCHANGED <<nlink, orphan, pinned>>
       ELSE /\ nlink' = [nlink EXCEPT ![i] = @ - 1]
            /\ orphan' = orphan \cup {i}
            /\ pinned' = pinned \ {i}
            /\ UNCHANGED ret
    /\ Goto(t, "unlock")
    /\ UNCHANGED <<tracked, ibitmap, ifree, unused, links, fresh, dirty, refs, owner, env, arg, maker>>

\* Mutant of Free: an inode that has entries besides its own link is freed.
FreeLinked(t) ==
    LET i == arg[t] IN
    /\ pc[t] = "free"
    /\ IF i \notin tracked
       THEN Answer(t, "ENOENT") /\ UNCHANGED <<tracked, nlink, orphan, pinned>>
       ELSE /\ tracked' = tracked \ {i}
            /\ nlink' = [nlink EXCEPT ![i] = 0]
            /\ orphan' = orphan \cup {i}
            /\ pinned' = pinned \ {i}
            /\ UNCHANGED ret
    /\ Goto(t, "unlock")
    /\ UNCHANGED <<ibitmap, ifree, unused, links, fresh, dirty, refs, owner, env, arg, maker>>

\* The checks and the unlink, inside a handle that nothing can interrupt: the
\* inode is locked and the tracker answers atomically.
Free(t) ==
    LET i == arg[t] IN
    /\ pc[t] = "free"
    /\ IF nlink[i] > 1 \/ i \notin tracked
       THEN /\ Answer(t, IF nlink[i] > 1 THEN "EBUSY" ELSE "ENOENT")
            /\ UNCHANGED <<tracked, nlink, orphan, pinned>>
       ELSE /\ tracked' = tracked \ {i}
            /\ nlink' = [nlink EXCEPT ![i] = @ - 1]
            /\ orphan' = orphan \cup {i}
            /\ pinned' = pinned \ {i}
            /\ UNCHANGED ret
    /\ Goto(t, "unlock")
    /\ UNCHANGED <<ibitmap, ifree, unused, links, fresh, dirty, refs, owner, env, arg, maker>>

FreeUnlock(t) ==
    /\ pc[t] = "unlock"
    /\ owner' = [owner EXCEPT ![arg[t]] = {}]
    /\ Goto(t, "iput")
    /\ UNCHANGED <<mem, refs, env, arg, ret, ghosts>>

-----------------------------------------------------------------------------
(* The rest of ext4, each a whole operation under its own locks and handle *)

\* ext4_create: __ext4_new_inode takes a free number, and an entry names it.
ext4_create(i) ==
    /\ ~aborted /\ i \notin ibitmap /\ refs[i] = {}
    /\ ibitmap' = ibitmap \cup {i}
    /\ ifree' = ifree - 1
    /\ unused' = IF i > NumInodes - unused THEN NumInodes - i ELSE unused
    /\ nlink' = [nlink EXCEPT ![i] = 1]
    /\ links' = [links EXCEPT ![i] = 1]
    /\ dirty' = {"bitmap", "desc"}
    /\ maker' = [maker EXCEPT ![i] = "ext4"]
    /\ UNCHANGED <<tracked, orphan, fresh, refs, owner, env, pc, arg, ret, pinned>>

\* __ext4_link on an inode somebody has in hand: also what evfs_dentry_add does.
\* The first link of an inode without any takes it off the orphan list.
__ext4_link(i) ==
    /\ ~aborted /\ owner[i] = {} /\ i \notin fresh
    /\ nlink[i] > 0 \/ refs[i] # {}
    /\ links[i] < MaxLinks
    /\ links' = [links EXCEPT ![i] = @ + 1]
    /\ nlink' = [nlink EXCEPT ![i] = @ + 1]
    /\ orphan' = IF nlink[i] = 0 THEN orphan \ {i} ELSE orphan
    /\ UNCHANGED <<ibitmap, ifree, unused, tracked, fresh, dirty, refs, owner, env, pc, arg, ret, ghosts>>

\* __ext4_unlink of one entry; forget says that evfs_dentry_delete is the caller,
\* which untracks the inode first whatever its other links.
__ext4_unlink(i, forget) ==
    /\ ~aborted /\ owner[i] = {} /\ i \notin fresh
    /\ links[i] > 0
    /\ links' = [links EXCEPT ![i] = @ - 1]
    /\ nlink' = [nlink EXCEPT ![i] = IF @ = 0 THEN 0 ELSE @ - 1]
    /\ tracked' = IF forget THEN tracked \ {i} ELSE tracked
    /\ IF nlink[i] > 1
       THEN UNCHANGED <<ibitmap, ifree, orphan, dirty, maker>>
       ELSE IF refs[i] = {}
       THEN Evict(i)
       ELSE orphan' = orphan \cup {i} /\ UNCHANGED <<ibitmap, ifree, dirty, maker>>
    /\ UNCHANGED <<unused, fresh, refs, owner, env, pc, arg, ret, pinned>>

Commit ==
    /\ ~aborted
    /\ \A t \in Threads : pc[t] \notin InHandle
    /\ disk' = Image
    /\ dirty' = {}
    /\ UNCHANGED <<ibitmap, ifree, unused, tracked, nlink, links, orphan, fresh, refs,
                   owner, aborted, pc, arg, ret, ghosts>>

Abort ==
    /\ ~aborted
    /\ aborted' = TRUE
    /\ UNCHANGED <<mem, refs, owner, disk, pc, arg, ret, ghosts>>

\* Power loss and the next mount: the journal is replayed, inodes on the orphan
\* list without links are freed, and the tracker starts empty.
CrashAndMount ==
    LET dead == {i \in disk.orphan : disk.nlink[i] = 0} IN
    /\ ibitmap' = disk.ibitmap \ dead
    /\ ifree' = disk.ifree + Cardinality(dead)
    /\ unused' = disk.unused
    /\ nlink' = disk.nlink /\ links' = disk.links
    /\ orphan' = {} /\ tracked' = {} /\ fresh' = {} /\ dirty' = {}
    /\ disk' = [disk EXCEPT !.ibitmap = ibitmap', !.ifree = ifree', !.orphan = {}]
    /\ aborted' = FALSE
    /\ refs' = [i \in Inos |-> {}]
    /\ owner' = [i \in Inos |-> {}]
    /\ pc' = [t \in Threads |-> "idle"]
    /\ arg' = [t \in Threads |-> 1]
    /\ ret' = [t \in Threads |-> "none"]
    /\ pinned' = {i \in Inos : nlink'[i] > links'[i]}
    /\ maker' = [i \in Inos |-> IF i \in ibitmap' THEN IF i \in pinned' THEN "evfs" ELSE "ext4" ELSE "none"]

Step(t) ==
    \/ AllocBit(t) \/ AllocTrack(t) \/ AllocQuota(t) \/ AllocGroup(t)
    \/ AllocDirty(t) \/ AllocDrop(t) \/ AllocStop(t) \/ Iput(t)
    \/ FreeLock(t) \/ Free(t) \/ FreeUnlock(t)

Next ==
    \/ \E t \in Threads : AllocBegin(t) \/ FreeBegin(t) \/ Step(t)
    \/ \E i \in Inos : ext4_create(i) \/ __ext4_link(i) \/ \E f \in BOOLEAN : __ext4_unlink(i, f)
    \/ Commit \/ Abort \/ CrashAndMount

Spec == Init /\ [][Next]_vars

-----------------------------------------------------------------------------

\* Every variable has its type.
TypeOK ==
    /\ ibitmap \in SUBSET Inos /\ ifree \in Int /\ unused \in 0 .. NumInodes
    /\ tracked \in SUBSET Inos
    /\ nlink \in [Inos -> 0 .. MaxLinks + 1] /\ links \in [Inos -> 0 .. MaxLinks]
    /\ orphan \in SUBSET Inos /\ fresh \in SUBSET Inos
    /\ dirty \in SUBSET {"bitmap", "desc"}
    /\ refs \in [Inos -> SUBSET Threads] /\ owner \in [Inos -> SUBSET Threads]
    /\ pc \in [Threads -> Labels] /\ arg \in [Threads -> Inos]
    /\ ret \in [Threads -> Results] /\ aborted \in BOOLEAN

\* evfs_inode_free succeeds only on an inode evfs_inode_alloc made, however
\* often its number was freed and taken again in between.
FreesOnlyEvfsInodes ==
    [][\A t \in Threads :
          pc[t] = "free" /\ pc'[t] = "unlock" /\ ret'[t] = "OK" => maker[arg[t]] = "evfs"]_vars

\* A tracked number is an allocated one: no call leaves the tracker claiming an
\* inode that is gone, which a later owner of the number would inherit.
TrackedIsAllocated == ~aborted => tracked \subseteq ibitmap

\* Outside evfs_inode_alloc the group's count of free inodes is the number of
\* clear bits: a call changes both or neither, on its error paths too.
CountExact ==
    (\A t \in Threads : pc[t] \notin InHandle \cup {"iput"}) /\ ~aborted
        => ifree = NumInodes - Cardinality(ibitmap)

\* After a crash and journal replay the count is exact, with no exception.
DiskCountExact == disk.ifree = NumInodes - Cardinality(disk.ibitmap)

\* No bit is leaked: an allocated number without links is still referenced, or
\* is being made.
NoLeakedBit ==
    \A i \in ibitmap :
        nlink[i] > 0 \/ refs[i] # {} \/ aborted \/ \E t \in Threads : pc[t] = "track" /\ arg[t] = i

\* i_nlink is the number of entries plus the one link evfs_inode_alloc gives,
\* until evfs_inode_free takes that one away.
NlinkAccounts ==
    \A i \in Inos : nlink[i] = links[i] + (IF i \in pinned THEN 1 ELSE 0)

\* No directory entry names a freed inode: evfs_inode_free racing with a link of
\* the same inode either sees the link or leaves the inode to it.  It holds on
\* disk as well, where the link count also never falls below the entries.
NoDanglingEntry ==
    \A i \in Inos :
        /\ links[i] > 0 => i \in ibitmap
        /\ disk.links[i] > 0 => i \in disk.ibitmap /\ disk.nlink[i] >= disk.links[i]

\* No allocated inode lies in the part of the inode table the descriptor calls
\* unused.
UnusedTailIsUnused == \A i \in ibitmap :
    (\A t \in Threads : pc[t] \in {"idle", "iput"}) => i <= NumInodes - unused

=============================================================================
