------------------------------ MODULE BlockOps ------------------------------
(***************************************************************************)
(* evfs_block_alloc and evfs_block_free (evfs.c): one block taken from or  *)
(* returned to its group by number.  The block bitmap and the group's free *)
(* count change together under the group lock; the per-cpu counter and the *)
(* superblock's count follow one after the other; the two buffers are then *)
(* added to the task's journal handle.  Commits, journal aborts and        *)
(* crashes come in between.                                                *)
(***************************************************************************)
EXTENDS Integers, FiniteSets

CONSTANTS Threads,           \* tasks inside EXT4_IOC block ioctls
          Groups,            \* block groups
          ClustersPerGroup,  \* clusters of one group
          ClusterRatio,      \* blocks per cluster, 1 without bigalloc
          Uninit             \* groups mkfs left with EXT4_BG_BLOCK_UNINIT

Clusters == 0 .. ClustersPerGroup - 1
Blocks == 0 .. ClusterRatio * ClustersPerGroup - 1

\* The group's own metadata: the clusters a fresh bitmap has in use.
Meta == {0}

ASSUME BlockAssumption ==
    /\ ClustersPerGroup \in Nat \ {0, 1}
    /\ ClusterRatio \in Nat \ {0}
    /\ IsFiniteSet(Threads) /\ IsFiniteSet(Groups)
    /\ Uninit \subseteq Groups
    /\ "desc" \notin Groups

VARIABLES bitmap,    \* bitmap_bh->b_data of each group: the clusters in use
          gfree,     \* bg_free_blocks_count of each group, in clusters
          uninit,    \* groups whose descriptor has EXT4_BG_BLOCK_UNINIT
          percpu,    \* sbi->s_freeclusters_counter
          esfree,    \* es->s_free_blocks_count, in blocks
          dirty,     \* buffers in the running transaction: "desc" and groups
          disk,      \* what the journal has committed
          aborted,   \* the journal has been aborted
          pc, call, ret

vars == <<bitmap, gfree, uninit, percpu, esfree, dirty, disk, aborted, pc, call, ret>>
mem == <<bitmap, gfree, uninit>>

C2B(c) == c * ClusterRatio
NUM_B2C(b) == (b + ClusterRatio - 1) \div ClusterRatio

Cluster(b) == b \div ClusterRatio

\* ext4_free_clusters_after_init
FreeAfterInit == ClustersPerGroup - Cardinality(Meta)

\* ext4_count_free_clusters: the sum of the groups' counts, which are unsigned, as
\* the size of their disjoint union.
FreeUnits(free) == UNION {{g} \X (1 .. free[g]) : g \in Groups}
ext4_count_free_clusters(free) == Cardinality(FreeUnits(free))

Calls == [fn : {"alloc", "free"}, g : Groups, blk : {b \in Blocks : Cluster(b) \notin Meta}]
NoCall == [fn |-> "none"]

\* The places where the task has its handle open.
InHandle == {"group", "percpu", "super", "desc", "bitmap", "stop"}
Labels == {"idle"} \cup InHandle
Results == {"none", "OK", "EEXIST", "EIO", "EROFS"}

Step(t, from, to) == pc[t] = from /\ pc' = [pc EXCEPT ![t] = to]

-----------------------------------------------------------------------------

\* A fresh filesystem as mkfs makes it.
Init ==
    /\ bitmap = [g \in Groups |-> Meta]
    /\ gfree = [g \in Groups |-> FreeAfterInit]
    /\ uninit = Uninit
    /\ percpu = ext4_count_free_clusters(gfree)
    /\ esfree = C2B(percpu)
    /\ dirty = {}
    /\ disk = [bitmap |-> bitmap, gfree |-> gfree, uninit |-> uninit]
    /\ aborted = FALSE
    /\ pc = [t \in Threads |-> "idle"]
    /\ call = [t \in Threads |-> NoCall]
    /\ ret = [t \in Threads |-> "none"]

\* Reading the bitmap and opening the handle may fail before anything changes;
\* so may a get_write_access, which leaves only the handle to be stopped.
Begin(t) ==
    /\ \/ /\ ~aborted
          /\ \E c \in Calls : call' = [call EXCEPT ![t] = c]
          /\ \/ Step(t, "idle", "group") /\ ret' = [ret EXCEPT ![t] = "OK"]
             \/ Step(t, "idle", "stop") /\ ret' = [ret EXCEPT ![t] = "EIO"]
       \/ /\ Step(t, "idle", "idle")
          /\ ret' = [ret EXCEPT ![t] = IF aborted THEN "EROFS" ELSE "EIO"]
          /\ UNCHANGED call
    /\ UNCHANGED <<mem, percpu, esfree, dirty, disk, aborted>>

\* Mutant of AllocGroup: the bit is set without looking at its old value.
AllocGroupBlind(t) ==
    LET g == call[t].g
        c == Cluster(call[t].blk)
    IN
    /\ call[t].fn = "alloc"
    /\ Step(t, "group", "percpu")
    /\ bitmap' = [bitmap EXCEPT ![g] = @ \cup {c}]
    /\ gfree' = [gfree EXCEPT ![g] = NUM_B2C(C2B(@) - 1)]
    /\ uninit' = uninit \ {g}
    /\ UNCHANGED <<ret, percpu, esfree, dirty, disk, aborted, call>>

\* Under ext4_lock_group: the bit, the free count, the UNINIT flag.
AllocGroup(t) ==
    LET g == call[t].g
        c == Cluster(call[t].blk)
        minusOne == NUM_B2C(C2B(gfree[g]) - 1)
    IN
    /\ call[t].fn = "alloc"
    /\ IF c \in bitmap[g]
       THEN /\ Step(t, "group", "stop")
            /\ ret' = [ret EXCEPT ![t] = "EEXIST"]
            /\ UNCHANGED mem
       ELSE /\ Step(t, "group", "percpu")
            /\ bitmap' = [bitmap EXCEPT ![g] = @ \cup {c}]
            /\ gfree' = [gfree EXCEPT ![g] = IF g \in uninit THEN FreeAfterInit ELSE minusOne]
            /\ uninit' = uninit \ {g}
            /\ UNCHANGED ret
    /\ UNCHANGED <<percpu, esfree, dirty, disk, aborted, call>>

\* Mutant of FreeGroup: a block that is already free still counts on the
\* per-cpu counter.
FreeGroupCounts(t) ==
    LET g == call[t].g
        c == Cluster(call[t].blk)
        freed == IF c \in bitmap[g] THEN 1 ELSE 0
    IN
    /\ call[t].fn = "free"
    /\ Step(t, "group", "percpu")
    /\ bitmap' = [bitmap EXCEPT ![g] = @ \ {c}]
    /\ gfree' = [gfree EXCEPT ![g] = NUM_B2C(C2B(@) + freed)]
    /\ UNCHANGED <<uninit, ret, percpu, esfree, dirty, disk, aborted, call>>

FreeGroup(t) ==
    LET g == call[t].g
        c == Cluster(call[t].blk)
    IN
    /\ call[t].fn = "free"
    /\ IF c \notin bitmap[g]
       THEN /\ Step(t, "group", "stop")
            /\ ret' = [ret EXCEPT ![t] = "EEXIST"]
            /\ UNCHANGED mem
       ELSE /\ Step(t, "group", "percpu")
            /\ bitmap' = [bitmap EXCEPT ![g] = @ \ {c}]
            /\ gfree' = [gfree EXCEPT ![g] = NUM_B2C(C2B(@) + 1)]
            /\ UNCHANGED <<uninit, ret>>
    /\ UNCHANGED <<percpu, esfree, dirty, disk, aborted, call>>

Sign(t) == IF call[t].fn = "alloc" THEN -1 ELSE 1

PercpuCounter(t) ==
    /\ Step(t, "percpu", "super")
    /\ percpu' = percpu + Sign(t) * NUM_B2C(1)
    /\ UNCHANGED <<mem, esfree, dirty, disk, aborted, call, ret>>

SuperCount(t) ==
    /\ Step(t, "super", "desc")
    /\ esfree' = esfree + Sign(t)
    /\ UNCHANGED <<mem, percpu, dirty, disk, aborted, call, ret>>

\* ext4_handle_dirty_metadata: the buffer joins the running transaction, or the
\* call fails on an aborted journal and the rest is skipped.
Dirty(t, from, to, buffer) ==
    /\ IF aborted
       THEN Step(t, from, "stop") /\ ret' = [ret EXCEPT ![t] = "EROFS"] /\ UNCHANGED dirty
       ELSE Step(t, from, to) /\ dirty' = dirty \cup {buffer} /\ UNCHANGED ret
    /\ UNCHANGED <<mem, percpu, esfree, disk, aborted, call>>

\* Mutants of the two calls: the buffer is left out of the handle.
DirtyDescSkipped(t) ==
    Step(t, "desc", "bitmap")
    /\ UNCHANGED <<mem, percpu, esfree, dirty, disk, aborted, call, ret>>
DirtyBitmapSkipped(t) ==
    Step(t, "bitmap", "stop")
    /\ UNCHANGED <<mem, percpu, esfree, dirty, disk, aborted, call, ret>>

DirtyDesc(t) == Dirty(t, "desc", "bitmap", "desc")
DirtyBitmap(t) == Dirty(t, "bitmap", "stop", call[t].g)

JournalStop(t) ==
    /\ Step(t, "stop", "idle")
    /\ ret' = [ret EXCEPT ![t] = IF aborted THEN "EROFS" ELSE @]
    /\ call' = [call EXCEPT ![t] = NoCall]
    /\ UNCHANGED <<mem, percpu, esfree, dirty, disk, aborted>>

\* jbd2 commits the running transaction once every handle on it has stopped.
Commit ==
    /\ ~aborted
    /\ dirty # {}
    /\ \A t \in Threads : pc[t] \notin InHandle
    /\ disk' = [bitmap |-> [g \in Groups |-> IF g \in dirty THEN bitmap[g] ELSE disk.bitmap[g]],
                gfree  |-> IF "desc" \in dirty THEN gfree ELSE disk.gfree,
                uninit |-> IF "desc" \in dirty THEN uninit ELSE disk.uninit]
    /\ dirty' = {}
    /\ UNCHANGED <<mem, percpu, esfree, aborted, pc, call, ret>>

\* An I/O error aborts the journal: nothing is committed any more.
Abort ==
    /\ ~aborted
    /\ aborted' = TRUE
    /\ UNCHANGED <<mem, percpu, esfree, dirty, disk, pc, call, ret>>

\* ext4_update_super, from the error worker or the periodic superblock update.
ext4_update_super ==
    /\ esfree' = C2B(percpu)
    /\ UNCHANGED <<mem, percpu, dirty, disk, aborted, pc, call, ret>>

\* Power loss, journal replay and the next mount.  The bitmap of an UNINIT group
\* is made anew; ext4_percpu_param_init counts the free clusters again.
CrashAndMount ==
    /\ bitmap' = [g \in Groups |-> IF g \in disk.uninit THEN Meta ELSE disk.bitmap[g]]
    /\ gfree' = disk.gfree
    /\ uninit' = disk.uninit
    /\ percpu' = ext4_count_free_clusters(disk.gfree)
    /\ esfree' = C2B(percpu')
    /\ dirty' = {}
    /\ aborted' = FALSE
    /\ pc' = [t \in Threads |-> "idle"]
    /\ call' = [t \in Threads |-> NoCall]
    /\ ret' = [t \in Threads |-> "none"]
    /\ UNCHANGED disk

Next ==
    \/ \E t \in Threads :
         \/ Begin(t) \/ AllocGroup(t) \/ FreeGroup(t) \/ PercpuCounter(t)
         \/ SuperCount(t) \/ DirtyDesc(t) \/ DirtyBitmap(t) \/ JournalStop(t)
    \/ Commit \/ Abort \/ ext4_update_super \/ CrashAndMount

Spec == Init /\ [][Next]_vars

-----------------------------------------------------------------------------

\* Every variable has its type.
TypeOK ==
    /\ bitmap \in [Groups -> SUBSET Clusters]
    /\ gfree \in [Groups -> Int]
    /\ uninit \in SUBSET Groups
    /\ percpu \in Int /\ esfree \in Int
    /\ dirty \in SUBSET (Groups \cup {"desc"})
    /\ disk \in [bitmap : [Groups -> SUBSET Clusters], gfree : [Groups -> Int],
                 uninit : SUBSET Groups]
    /\ aborted \in BOOLEAN
    /\ pc \in [Threads -> Labels]
    /\ call \in [Threads -> Calls \cup {NoCall}]
    /\ ret \in [Threads -> Results]

Exact(bm, free) ==
    \A g \in Groups : free[g] = ClustersPerGroup - Cardinality(bm[g])

\* A group's free count in its descriptor is the number of clear bits of its
\* bitmap whenever the group is unlocked.
GroupCountExact == Exact(bitmap, gfree)

\* What a crash leaves on disk after journal replay satisfies the same: the two
\* buffers a call changes are committed together or not at all.
DiskCountExact == Exact(disk.bitmap, disk.gfree)

\* A commit leaves no change behind: every buffer a finished call changed was
\* added to its handle, so disk and memory agree afterwards.
CommitIsComplete ==
    [][disk' # disk => disk' = [bitmap |-> bitmap, gfree |-> gfree, uninit |-> uninit]]_vars

Behind(f) == {t \in Threads : pc[t] = "percpu" /\ call[t].fn = f}

\* The per-cpu counter trails the group counts by exactly the calls that have
\* left the group lock and not yet reached it, whatever errors they meet later.
PercpuTrails ==
    percpu = ext4_count_free_clusters(gfree) + Cardinality(Behind("alloc")) - Cardinality(Behind("free"))

\* With no call in progress the superblock's count of free blocks is the one
\* the per-cpu counter stands for.
SuperCountAgrees ==
    (\A t \in Threads : pc[t] = "idle") => esfree = C2B(percpu)
=============================================================================
