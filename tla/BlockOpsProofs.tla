--------------------------- MODULE BlockOpsProofs ---------------------------
(***************************************************************************)
(* Without bigalloc and once every group is initialised, evfs_block_alloc  *)
(* and evfs_block_free keep each group's free count exact, in memory and   *)
(* on disk after any crash: proved for any tasks, groups and group size.   *)
(***************************************************************************)
EXTENDS BlockOps, FiniteSetTheorems, TLAPS

\* A handle is open only for a call, and no group is UNINIT.
Shape ==
    /\ \A t \in Threads : pc[t] # "idle" => call[t] \in Calls
    /\ uninit = {} /\ disk.uninit = {}

\* A change that is not on disk belongs to a buffer of the running transaction
\* or to a task that will still add the buffer to it.
Pending ==
    ~aborted =>
    /\ \A g \in Groups : bitmap[g] # disk.bitmap[g] =>
          \/ g \in dirty
          \/ \E t \in Threads : pc[t] \in {"percpu", "super", "desc", "bitmap"} /\ call[t].g = g
    /\ gfree # disk.gfree =>
          \/ "desc" \in dirty
          \/ \E t \in Threads : pc[t] \in {"percpu", "super", "desc"}

\* The part of the type invariant the argument needs.
Types ==
    /\ bitmap \in [Groups -> SUBSET Clusters]
    /\ gfree \in [Groups -> Int]
    /\ disk \in [bitmap : [Groups -> SUBSET Clusters], gfree : [Groups -> Int],
                 uninit : SUBSET Groups]
    /\ pc \in [Threads -> Labels]
    /\ call \in [Threads -> Calls \cup {NoCall}]

IInv == Types /\ Shape /\ GroupCountExact /\ DiskCountExact /\ Pending

-----------------------------------------------------------------------------

\* EXT4_C2B and EXT4_NUM_B2C change nothing when a cluster is one block.
LEMMA OneBlockClusters ==
    ASSUME ClusterRatio = 1, NEW x \in Int
    PROVE  C2B(x) = x /\ NUM_B2C(x) = x /\ Cluster(x) = x
  BY DEF C2B, NUM_B2C, Cluster

\* What a task has of its call has its type.
LEMMA CallTypes ==
    ASSUME ClusterRatio = 1, NEW c \in Calls
    PROVE  c.g \in Groups /\ Cluster(c.blk) \in Clusters
<1>1. c.g \in Groups /\ c.blk \in Blocks
  BY Zenon DEF Calls
<1>2. Blocks = Clusters /\ Blocks \subseteq Int
  BY BlockAssumption DEF Blocks, Clusters
<1> QED BY <1>1, <1>2, OneBlockClusters, Zenon

\* Setting a clear bit takes one from the number of clear bits, clearing a set
\* one gives it back.
LEMMA BitCount ==
    ASSUME NEW S \in SUBSET Clusters, NEW c \in Clusters
    PROVE  /\ Cardinality(S) \in Nat
           /\ c \notin S => Cardinality(S \cup {c}) = Cardinality(S) + 1
           /\ c \in S => Cardinality(S \ {c}) = Cardinality(S) - 1
<1>1. IsFiniteSet(Clusters)
  BY FS_Interval, BlockAssumption DEF Clusters
<1>2. IsFiniteSet(S)
  BY <1>1, FS_Subset, Zenon
<1> QED BY <1>2, FS_CardinalityType, FS_AddElement, FS_RemoveElement, Zenon

\* The volume at mount satisfies the invariant.
LEMMA InitInv == ASSUME ClusterRatio = 1, Uninit = {} PROVE Init => IInv
<1> SUFFICES ASSUME Init PROVE IInv
  BY Zenon
<1>1. Meta \in SUBSET Clusters /\ 0 \in Clusters
  BY BlockAssumption DEF Meta, Clusters
<1>2. Cardinality(Meta) \in Nat
  BY <1>1, BitCount, Zenon
<1>3. FreeAfterInit \in Int
  BY <1>2, BlockAssumption DEF FreeAfterInit
<1>4. Types /\ Shape
  BY <1>1, <1>3, Zenon DEF Init, Types, Shape, Labels
<1>5. GroupCountExact /\ DiskCountExact
  BY Zenon DEF Init, GroupCountExact, DiskCountExact, Exact, FreeAfterInit
<1>6. Pending
  BY Zenon DEF Init, Pending
<1> QED BY <1>4, <1>5, <1>6, Zenon DEF IInv

\* A step that leaves the bitmaps, the counts and the disk alone.
LEMMA QuietStep ==
    ASSUME IInv, NEW t \in Threads, UNCHANGED <<mem, disk, aborted>>,
           NEW l \in Labels, pc' = [pc EXCEPT ![t] = l],
           call' \in [Threads -> Calls \cup {NoCall}],
           \A u \in Threads : u # t => call'[u] = call[u],
           l # "idle" => call'[t] \in Calls,
           dirty \subseteq dirty',
           ~aborted /\ pc[t] \in {"percpu", "super", "desc", "bitmap"} =>
              /\ call'[t] = call[t]
              /\ l \in {"percpu", "super", "desc", "bitmap"} \/ call[t].g \in dirty',
           ~aborted /\ pc[t] \in {"percpu", "super", "desc"} =>
              l \in {"percpu", "super", "desc"} \/ "desc" \in dirty'
    PROVE  IInv'
<1>1. Types' /\ Shape'
  BY Zenon DEF IInv, Types, Shape, mem
<1>2. GroupCountExact' /\ DiskCountExact'
  BY Zenon DEF IInv, GroupCountExact, DiskCountExact, Exact, mem
<1>3. Pending'
  <2> SUFFICES ASSUME ~aborted PROVE Pending'
    BY Zenon DEF Pending
  <2>1. \A g \in Groups : bitmap'[g] # disk'.bitmap[g] =>
          \/ g \in dirty'
          \/ \E u \in Threads : pc'[u] \in {"percpu", "super", "desc", "bitmap"} /\ call'[u].g = g
    BY DEF IInv, Types, Pending, mem
  <2>2. gfree' # disk'.gfree =>
          \/ "desc" \in dirty'
          \/ \E u \in Threads : pc'[u] \in {"percpu", "super", "desc"}
    BY DEF IInv, Types, Pending, mem
  <2> QED BY <2>1, <2>2, Zenon DEF Pending
<1> QED BY <1>1, <1>2, <1>3, Zenon DEF IInv

\* A task that changes a bit and the count under the group lock.
LEMMA GroupStep ==
    ASSUME ClusterRatio = 1, IInv, NEW t \in Threads, AllocGroup(t) \/ FreeGroup(t)
    PROVE  IInv'
<1> DEFINE g == call[t].g
           c == Cluster(call[t].blk)
<1>1. /\ pc[t] = "group" /\ call[t] \in Calls /\ g \in Groups /\ c \in Clusters
      /\ UNCHANGED <<call, disk, aborted, dirty>>
  BY CallTypes, Zenon DEF AllocGroup, FreeGroup, Step, IInv, Shape
<1>2. CASE UNCHANGED mem /\ pc' = [pc EXCEPT ![t] = "stop"]
  <2>1. "stop" \in Labels /\ call \in [Threads -> Calls \cup {NoCall}]
    BY Zenon DEF Labels, InHandle, IInv, Types
  <2> QED BY <1>1, <1>2, <2>1, QuietStep, Zenon
<1>3. CASE /\ pc' = [pc EXCEPT ![t] = "percpu"]
           /\ uninit' = {}
           /\ \/ /\ c \notin bitmap[g]
                 /\ bitmap' = [bitmap EXCEPT ![g] = @ \cup {c}]
                 /\ gfree' = [gfree EXCEPT ![g] = @ - 1]
              \/ /\ c \in bitmap[g]
                 /\ bitmap' = [bitmap EXCEPT ![g] = @ \ {c}]
                 /\ gfree' = [gfree EXCEPT ![g] = @ + 1]
  <2>1. Types' /\ Shape'
    BY <1>1, <1>3 DEF IInv, Types, Shape, Labels, InHandle
  <2>2. DiskCountExact'
    BY <1>1, Zenon DEF IInv, DiskCountExact, Exact
  <2>3. GroupCountExact'
    <3>1. ASSUME NEW h \in Groups
          PROVE  gfree'[h] = ClustersPerGroup - Cardinality(bitmap'[h])
      <4>0. bitmap[g] \in SUBSET Clusters
        BY <1>1, Zenon DEF IInv, Types
      <4>1. CASE h # g
        BY <1>1, <1>3, <4>1, Zenon DEF IInv, Types, GroupCountExact, Exact
      <4>2. CASE h = g
        <5>1. gfree[g] = ClustersPerGroup - Cardinality(bitmap[g])
          BY <1>1, Zenon DEF IInv, GroupCountExact, Exact
        <5>2. /\ Cardinality(bitmap[g]) \in Nat
              /\ c \notin bitmap[g] => Cardinality(bitmap[g] \cup {c}) = Cardinality(bitmap[g]) + 1
              /\ c \in bitmap[g] => Cardinality(bitmap[g] \ {c}) = Cardinality(bitmap[g]) - 1
          BY <1>1, <4>0, BitCount, Zenon
        <5> HIDE DEF g, c
        <5>3. /\ gfree \in [Groups -> Int] /\ bitmap \in [Groups -> SUBSET Clusters]
              /\ ClustersPerGroup \in Nat
          BY BlockAssumption, Zenon DEF IInv, Types
        <5>4. CASE c \notin bitmap[g]
          <6>1. bitmap'[g] = bitmap[g] \cup {c} /\ gfree'[g] = gfree[g] - 1
            BY <1>1, <1>3, <5>3, <5>4, Zenon
          <6> QED BY <4>2, <5>1, <5>2, <5>3, <5>4, <6>1
        <5>5. CASE c \in bitmap[g]
          <6>1. bitmap'[g] = bitmap[g] \ {c} /\ gfree'[g] = gfree[g] + 1
            BY <1>1, <1>3, <5>3, <5>5, Zenon
          <6> QED BY <4>2, <5>1, <5>2, <5>3, <5>5, <6>1
        <5> QED BY <5>4, <5>5, Zenon
      <4> QED BY <4>1, <4>2, Zenon
    <3> QED BY <3>1, Zenon DEF GroupCountExact, Exact
  <2>4. Pending'
    <3> SUFFICES ASSUME ~aborted PROVE Pending'
      BY <1>1, Zenon DEF Pending
    <3>1. \A h \in Groups : bitmap'[h] # disk'.bitmap[h] =>
            \/ h \in dirty'
            \/ \E u \in Threads : pc'[u] \in {"percpu", "super", "desc", "bitmap"} /\ call'[u].g = h
      BY <1>1, <1>3 DEF IInv, Types, Pending
    <3>2. \E u \in Threads : pc'[u] \in {"percpu", "super", "desc"}
      BY <1>1, <1>3, Zenon DEF IInv, Types
    <3> QED BY <3>1, <3>2, Zenon DEF Pending
  <2> QED BY <2>1, <2>2, <2>3, <2>4, Zenon DEF IInv
<1>4. uninit = {} /\ gfree[g] \in Int
  BY <1>1, Zenon DEF IInv, Shape, Types
<1>5. /\ NUM_B2C(C2B(gfree[g]) - 1) = gfree[g] - 1
      /\ NUM_B2C(C2B(gfree[g]) + 1) = gfree[g] + 1
  <2>1. C2B(gfree[g]) = gfree[g]
    BY <1>4, OneBlockClusters, Zenon
  <2>2. gfree[g] - 1 \in Int /\ gfree[g] + 1 \in Int
    BY <1>4
  <2> QED BY <2>1, <2>2, OneBlockClusters, Zenon
<1>6. CASE AllocGroup(t)
  BY <1>2, <1>3, <1>4, <1>5, <1>6, Zenon DEF AllocGroup, Step, mem
<1>7. CASE FreeGroup(t)
  BY <1>2, <1>3, <1>4, <1>5, <1>7, Zenon DEF FreeGroup, Step, mem
<1> QED BY <1>6, <1>7, Zenon

\* A commit finds every change in the running transaction, so it brings the
\* disk to the state of memory.
LEMMA CommitCopies ==
    ASSUME IInv, Commit
    PROVE  disk' = [bitmap |-> bitmap, gfree |-> gfree, uninit |-> uninit]
<1>1. \A t \in Threads : pc[t] \notin {"percpu", "super", "desc", "bitmap"}
  BY Zenon DEF Commit, InHandle
<1>2. \A g \in Groups : (IF g \in dirty THEN bitmap[g] ELSE disk.bitmap[g]) = bitmap[g]
  BY <1>1, Zenon DEF Commit, IInv, Pending
<1>3. [g \in Groups |-> IF g \in dirty THEN bitmap[g] ELSE disk.bitmap[g]] = bitmap
  BY <1>2, Zenon DEF IInv, Types
<1>4. (IF "desc" \in dirty THEN gfree ELSE disk.gfree) = gfree
  BY <1>1, Zenon DEF Commit, IInv, Pending
<1>5. (IF "desc" \in dirty THEN uninit ELSE disk.uninit) = uninit
  BY Zenon DEF IInv, Shape
<1> QED BY <1>3, <1>4, <1>5, Zenon DEF Commit

\* Every step keeps the invariant, a task's, a commit's and a crash's.
LEMMA NextInv == ASSUME ClusterRatio = 1 PROVE IInv /\ [Next]_vars => IInv'
<1> SUFFICES ASSUME IInv, [Next]_vars PROVE IInv'
  BY Zenon
<1>1. ASSUME NEW t \in Threads, Begin(t) PROVE IInv'
  <2>1. UNCHANGED <<mem, disk, aborted, dirty>> /\ pc[t] = "idle"
    BY <1>1, Zenon DEF Begin, Step
  <2>2. /\ call' \in [Threads -> Calls \cup {NoCall}]
        /\ \A u \in Threads : u # t => call'[u] = call[u]
    BY <1>1, Zenon DEF Begin, IInv, Types
  <2>3. PICK l \in {"idle", "group", "stop"} :
          pc' = [pc EXCEPT ![t] = l] /\ (l # "idle" => call'[t] \in Calls)
    BY <1>1, Zenon DEF Begin, Step, IInv, Types
  <2>4. l \in Labels
    BY Zenon DEF Labels, InHandle
  <2> QED BY <2>1, <2>2, <2>3, <2>4, QuietStep, Zenon
<1>2. ASSUME NEW t \in Threads, AllocGroup(t) \/ FreeGroup(t) PROVE IInv'
  BY <1>2, GroupStep, Zenon
<1>3. ASSUME NEW t \in Threads, PercpuCounter(t) \/ SuperCount(t) PROVE IInv'
  <2>1. UNCHANGED <<mem, disk, aborted, dirty, call>>
    BY <1>3, Zenon DEF PercpuCounter, SuperCount
  <2>2. PICK l \in {"super", "desc"} : pc' = [pc EXCEPT ![t] = l]
    BY <1>3, Zenon DEF PercpuCounter, SuperCount, Step
  <2>3. /\ pc[t] # "idle" /\ call[t] \in Calls
        /\ call \in [Threads -> Calls \cup {NoCall}] /\ l \in Labels
    BY <1>3, Zenon DEF PercpuCounter, SuperCount, Step, IInv, Shape, Types, Labels, InHandle
  <2> QED BY <2>1, <2>2, <2>3, QuietStep, Zenon
<1>4. ASSUME NEW t \in Threads, DirtyDesc(t) \/ DirtyBitmap(t) PROVE IInv'
  <2>1. UNCHANGED <<mem, disk, aborted, call>> /\ dirty \subseteq dirty'
    BY <1>4, Zenon DEF DirtyDesc, DirtyBitmap, Dirty
  <2>2. PICK l \in {"bitmap", "stop"} :
          /\ pc' = [pc EXCEPT ![t] = l]
          /\ ~aborted => \/ pc[t] = "desc" /\ l = "bitmap" /\ "desc" \in dirty'
                         \/ pc[t] = "bitmap" /\ call[t].g \in dirty'
    BY <1>4, Zenon DEF DirtyDesc, DirtyBitmap, Dirty, Step
  <2>3. /\ pc[t] # "idle" /\ call[t] \in Calls
        /\ call \in [Threads -> Calls \cup {NoCall}] /\ l \in Labels
    BY <1>4, Zenon DEF DirtyDesc, DirtyBitmap, Dirty, Step, IInv, Shape, Types, Labels, InHandle
  <2> QED BY <2>1, <2>2, <2>3, QuietStep, Zenon
<1>5. ASSUME NEW t \in Threads, JournalStop(t) PROVE IInv'
  <2>1. UNCHANGED <<mem, disk, aborted, dirty>> /\ pc[t] = "stop"
    BY <1>5, Zenon DEF JournalStop, Step
  <2>2. pc' = [pc EXCEPT ![t] = "idle"] /\ "idle" \in Labels
    BY <1>5, Zenon DEF JournalStop, Step, Labels
  <2>3. /\ call' \in [Threads -> Calls \cup {NoCall}]
        /\ \A u \in Threads : u # t => call'[u] = call[u]
    BY <1>5, Zenon DEF JournalStop, IInv, Types
  <2> QED BY <2>1, <2>2, <2>3, QuietStep, Zenon
<1>6. CASE Commit
  <2>1. /\ disk' = [bitmap |-> bitmap, gfree |-> gfree, uninit |-> uninit]
        /\ UNCHANGED <<mem, aborted, pc, call>>
    BY <1>6, CommitCopies, Zenon DEF Commit
  <2>2. Types' /\ Shape'
    BY <2>1, Zenon DEF IInv, Types, Shape, mem
  <2>3. GroupCountExact' /\ DiskCountExact' /\ Pending'
    BY <2>1, Zenon DEF IInv, GroupCountExact, DiskCountExact, Exact, Pending, mem
  <2> QED BY <2>2, <2>3, Zenon DEF IInv
<1>7. CASE Abort
  <2>1. Types' /\ Shape' /\ Pending'
    BY <1>7, Zenon DEF Abort, IInv, Types, Shape, Pending, mem
  <2>2. GroupCountExact' /\ DiskCountExact'
    BY <1>7, Zenon DEF Abort, IInv, GroupCountExact, DiskCountExact, Exact, mem
  <2> QED BY <2>1, <2>2, Zenon DEF IInv
<1>8. CASE ext4_update_super \/ UNCHANGED vars
  <2>1. UNCHANGED <<mem, dirty, disk, aborted, pc, call>>
    BY <1>8, Zenon DEF ext4_update_super, vars, mem
  <2>2. Types' /\ Shape' /\ Pending'
    BY <2>1, Zenon DEF IInv, Types, Shape, Pending, mem
  <2>3. GroupCountExact' /\ DiskCountExact'
    BY <2>1, Zenon DEF IInv, GroupCountExact, DiskCountExact, Exact, mem
  <2> QED BY <2>2, <2>3, Zenon DEF IInv
<1>9. CASE CrashAndMount
  <2>1. bitmap' = disk.bitmap /\ gfree' = disk.gfree /\ uninit' = {} /\ disk' = disk
    BY <1>9, Zenon DEF CrashAndMount, IInv, Types, Shape
  <2>2. Types' /\ Shape'
    BY <1>9, <2>1, Zenon DEF CrashAndMount, IInv, Types, Shape, Labels
  <2>3. GroupCountExact' /\ DiskCountExact' /\ Pending'
    BY <2>1, Zenon DEF IInv, GroupCountExact, DiskCountExact, Exact, Pending
  <2> QED BY <2>2, <2>3, Zenon DEF IInv
<1> QED
  BY <1>1, <1>2, <1>3, <1>4, <1>5, <1>6, <1>7, <1>8, <1>9, Zenon DEF Next

-----------------------------------------------------------------------------

\* The inductive invariant holds in every reachable state.
THEOREM Invariance == ASSUME ClusterRatio = 1, Uninit = {} PROVE Spec => []IInv
<1> QED BY InitInv, NextInv, PTL DEF Spec

\* Whenever a group is unlocked, the free count evfs_block_alloc and
\* evfs_block_free leave in its descriptor is its number of clear bits.
THEOREM GroupCounts ==
    ASSUME ClusterRatio = 1, Uninit = {} PROVE Spec => []GroupCountExact
<1>1. IInv => GroupCountExact
  BY Zenon DEF IInv
<1> QED BY <1>1, Invariance, PTL

\* Whatever a crash leaves on disk has exact free counts: bitmap and descriptor
\* of a call are committed together or not at all, also when the journal aborts.
THEOREM DiskCounts ==
    ASSUME ClusterRatio = 1, Uninit = {} PROVE Spec => []DiskCountExact
<1>1. IInv => DiskCountExact
  BY Zenon DEF IInv
<1> QED BY <1>1, Invariance, PTL

\* A commit brings the disk to the state of memory: no call forgets a buffer.
THEOREM Commits ==
    ASSUME ClusterRatio = 1, Uninit = {} PROVE Spec => CommitIsComplete
<1> DEFINE Complete ==
      disk' # disk => disk' = [bitmap |-> bitmap, gfree |-> gfree, uninit |-> uninit]
<1>1. IInv /\ [Next]_vars => [Complete]_vars
  <2> SUFFICES ASSUME IInv, Next, disk' # disk PROVE Complete
    BY Zenon DEF vars
  <2>1. Commit
    BY Zenon DEF Next, Begin, AllocGroup, FreeGroup, PercpuCounter, SuperCount, DirtyDesc,
           DirtyBitmap, Dirty, JournalStop, Abort, ext4_update_super, CrashAndMount
  <2> QED BY <2>1, CommitCopies, Zenon
<1>2. Spec => [][Complete]_vars
  BY <1>1, Invariance, PTL DEF Spec
<1> QED BY <1>2, Zenon DEF CommitIsComplete

-----------------------------------------------------------------------------
(* The per-cpu counter *)

\* What a count is made of, group by group.
LEMMA Units ==
    ASSUME NEW f \in [Groups -> Clusters \cup {ClustersPerGroup}]
    PROVE  /\ IsFiniteSet(FreeUnits(f))
           /\ \A g, k : <<g, k>> \in FreeUnits(f) <=> g \in Groups /\ k \in 1 .. f[g]
           /\ \A u \in FreeUnits(f) : \E g \in Groups : \E k \in 1 .. f[g] : u = <<g, k>>
<1>0. \A u : u \in FreeUnits(f) <=> \E h \in Groups : u \in {h} \X (1 .. f[h])
  BY Zenon DEF FreeUnits
<1>1. \A g, k : <<g, k>> \in FreeUnits(f) <=> g \in Groups /\ k \in 1 .. f[g]
  BY <1>0, SMT, Zenon
<1>2. \A u \in FreeUnits(f) : \E g \in Groups : \E k \in 1 .. f[g] : u = <<g, k>>
  BY <1>0, SMT, Zenon
<1>3. IsFiniteSet(Groups \X (1 .. ClustersPerGroup))
  <2>1. IsFiniteSet(1 .. ClustersPerGroup)
    BY FS_Interval, BlockAssumption
  <2> QED BY <2>1, FS_Product, BlockAssumption, Zenon
<1>4. \A g \in Groups : 1 .. f[g] \subseteq 1 .. ClustersPerGroup
  BY BlockAssumption DEF Clusters
<1>5. FreeUnits(f) \subseteq Groups \X (1 .. ClustersPerGroup)
  <2>1. \A g \in Groups : \A k \in 1 .. f[g] : <<g, k>> \in Groups \X (1 .. ClustersPerGroup)
    BY <1>4, Zenon
  <2>2. ASSUME NEW u \in FreeUnits(f) PROVE u \in Groups \X (1 .. ClustersPerGroup)
    <3>1. PICK g \in Groups : \E k \in 1 .. f[g] : u = <<g, k>>
      BY <1>2, Zenon
    <3>2. PICK k \in 1 .. f[g] : u = <<g, k>>
      BY <3>1, Zenon
    <3> QED BY <2>1, <3>2, Zenon
  <2> QED BY <2>2, Zenon
<1> QED BY <1>1, <1>2, <1>3, <1>5, FS_Subset, Zenon

\* One more free cluster in a group is one more in all.
LEMMA OneMore ==
    ASSUME NEW f \in [Groups -> Clusters \cup {ClustersPerGroup}],
           NEW h \in [Groups -> Clusters \cup {ClustersPerGroup}],
           NEW g \in Groups, h = [f EXCEPT ![g] = @ + 1]
    PROVE  /\ ext4_count_free_clusters(f) \in Nat
           /\ ext4_count_free_clusters(h) = ext4_count_free_clusters(f) + 1
<1> DEFINE u == <<g, f[g] + 1>>
<1>0. /\ \A x \in FreeUnits(f) : \E k \in Groups : \E n \in 1 .. f[k] : x = <<k, n>>
      /\ \A x \in FreeUnits(h) : \E k \in Groups : \E n \in 1 .. h[k] : x = <<k, n>>
  BY Units, Zenon
<1>1. f[g] \in Nat /\ h[g] = f[g] + 1 /\ \A k \in Groups : k # g => h[k] = f[k]
  BY BlockAssumption DEF Clusters
<1>2. 1 .. h[g] = (1 .. f[g]) \cup {f[g] + 1} /\ f[g] + 1 \notin 1 .. f[g]
  BY <1>1
<1>3. u \notin FreeUnits(f)
  BY <1>2, Units, Zenon
<1>4. FreeUnits(h) = FreeUnits(f) \cup {u}
  <2>1. ASSUME NEW x \in FreeUnits(h) PROVE x \in FreeUnits(f) \cup {u}
    <3>1. PICK k \in Groups : \E n \in 1 .. h[k] : x = <<k, n>>
      BY <1>0, <2>1, Zenon
    <3>2. PICK n \in 1 .. h[k] : x = <<k, n>>
      BY <3>1, Zenon
    <3>3. n \in 1 .. f[k] \/ (k = g /\ n = f[g] + 1)
      BY <1>1, <1>2, Zenon
    <3> QED BY <3>2, <3>3, Units, Zenon
  <2>2. ASSUME NEW x \in FreeUnits(f) PROVE x \in FreeUnits(h)
    <3>1. PICK k \in Groups : \E n \in 1 .. f[k] : x = <<k, n>>
      BY <1>0, <2>2, Zenon
    <3>2. PICK n \in 1 .. f[k] : x = <<k, n>>
      BY <3>1, Zenon
    <3>3. n \in 1 .. h[k]
      BY <1>1, <1>2, Zenon
    <3> QED BY <3>2, <3>3, Units, Zenon
  <2>3. u \in FreeUnits(h)
    BY <1>2, Units, Zenon
  <2> QED BY <2>1, <2>2, <2>3, Zenon
<1>5. IsFiniteSet(FreeUnits(f))
  BY Units, Zenon
<1> HIDE DEF u
<1>6. Cardinality(FreeUnits(f)) \in Nat /\ Cardinality(FreeUnits(f) \cup {u}) = Cardinality(FreeUnits(f)) + 1
  BY <1>3, <1>5, FS_CardinalityType, FS_AddElement, Zenon
<1> QED BY <1>4, <1>6, Zenon DEF ext4_count_free_clusters

\* Exact counts are between none and all of a group.
LEMMA CountsBounded ==
    ASSUME NEW b \in [Groups -> SUBSET Clusters], NEW f \in [Groups -> Int], Exact(b, f)
    PROVE  f \in [Groups -> Clusters \cup {ClustersPerGroup}] /\ ext4_count_free_clusters(f) \in Nat
<1>1. ASSUME NEW g \in Groups PROVE f[g] \in Clusters \cup {ClustersPerGroup}
  <2>1. b[g] \in SUBSET Clusters /\ f[g] = ClustersPerGroup - Cardinality(b[g])
    BY Zenon DEF Exact
  <2>2. IsFiniteSet(Clusters) /\ Cardinality(Clusters) = ClustersPerGroup
    <3>1. 0 \in Int /\ ClustersPerGroup - 1 \in Int /\ ~(0 > ClustersPerGroup - 1) /\ ClustersPerGroup - 1 - 0 + 1 = ClustersPerGroup
      BY BlockAssumption
    <3> QED BY <3>1, FS_Interval, Zenon DEF Clusters
  <2>3. Cardinality(b[g]) \in Nat /\ Cardinality(b[g]) <= ClustersPerGroup
    BY <2>1, <2>2, FS_Subset, FS_CardinalityType, Zenon
  <2> QED BY <2>1, <2>3, BlockAssumption DEF Clusters
<1>2. f \in [Groups -> Clusters \cup {ClustersPerGroup}]
  BY <1>1, Zenon
<1>3. IsFiniteSet(FreeUnits(f))
  BY <1>2, Units, Zenon
<1> QED BY <1>2, <1>3, FS_CardinalityType, Zenon DEF ext4_count_free_clusters

\* A task that comes to wait for the per-cpu counter, or passes it, is one more
\* or one less behind.
LEMMA BehindFinite ==
    ASSUME NEW S \in SUBSET Threads, NEW t \in Threads
    PROVE  /\ Cardinality(S) \in Nat
           /\ t \notin S => Cardinality(S \cup {t}) = Cardinality(S) + 1
           /\ t \in S => Cardinality(S \ {t}) = Cardinality(S) - 1
<1>1. IsFiniteSet(S)
  BY FS_Subset, BlockAssumption, Zenon
<1> QED BY <1>1, FS_CardinalityType, FS_AddElement, FS_RemoveElement, Zenon

\* A step of a task that neither comes to the counter nor passes it.
LEMMA BehindKept ==
    ASSUME IInv, PercpuTrails, NEW t \in Threads, UNCHANGED <<gfree, percpu>>,
           pc[t] # "percpu", NEW l, l # "percpu", pc' = [pc EXCEPT ![t] = l],
           \A u \in Threads : u # t => call'[u] = call[u]
    PROVE  PercpuTrails'
<1>1. \A u \in Threads : pc'[u] = IF u = t THEN l ELSE pc[u]
  BY Zenon DEF IInv, Types
<1>2. ASSUME NEW f PROVE Behind(f)' = Behind(f)
  <2>1. \A u \in Threads : pc'[u] = "percpu" /\ call'[u].fn = f <=> pc[u] = "percpu" /\ call[u].fn = f
    BY <1>1, Zenon
  <2> QED BY <2>1, Zenon DEF Behind
<1> QED BY <1>2, Zenon DEF PercpuTrails

\* A task that has counted in its group comes to the counter.
LEMMA BehindJoins ==
    ASSUME NEW t \in Threads, pc[t] = "group", call' = call,
           \A u \in Threads : pc'[u] = IF u = t THEN "percpu" ELSE pc[u]
    PROVE  /\ t \notin Behind(call[t].fn)
           /\ Behind(call[t].fn)' = Behind(call[t].fn) \cup {t}
           /\ \A f : f # call[t].fn => Behind(f)' = Behind(f)
<1>1. t \notin Behind(call[t].fn)
  BY Zenon DEF Behind
<1>2. \A u \in Threads : pc'[u] = "percpu" /\ call'[u].fn = call[t].fn
                         <=> u = t \/ (pc[u] = "percpu" /\ call[u].fn = call[t].fn)
  BY Zenon
<1>3. Behind(call[t].fn)' = Behind(call[t].fn) \cup {t}
  BY <1>2, Zenon DEF Behind
<1>4. ASSUME NEW f, f # call[t].fn PROVE Behind(f)' = Behind(f)
  <2>1. \A u \in Threads : pc'[u] = "percpu" /\ call'[u].fn = f <=> pc[u] = "percpu" /\ call[u].fn = f
    BY <1>4, Zenon
  <2> QED BY <2>1, Zenon DEF Behind
<1> QED BY <1>1, <1>3, <1>4, Zenon

\* The group lock is released between the group's count and the counter.
LEMMA BehindGroup ==
    ASSUME ClusterRatio = 1, IInv, PercpuTrails, NEW t \in Threads, AllocGroup(t) \/ FreeGroup(t)
    PROVE  PercpuTrails'
<1> DEFINE g == call[t].g
<1>1. /\ pc[t] = "group" /\ call[t] \in Calls /\ g \in Groups /\ uninit = {} /\ gfree[g] \in Int
      /\ UNCHANGED <<call, percpu>>
  BY CallTypes, Zenon DEF AllocGroup, FreeGroup, Step, IInv, Shape, Types
<1>2. \A u \in Threads : \A l : pc' = [pc EXCEPT ![t] = l] => pc'[u] = IF u = t THEN l ELSE pc[u]
  BY Zenon DEF IInv, Types
<1>3. CASE UNCHANGED gfree /\ pc' = [pc EXCEPT ![t] = "stop"]
  BY <1>1, <1>3, BehindKept, Zenon
<1>4. /\ gfree \in [Groups -> Clusters \cup {ClustersPerGroup}]
      /\ gfree' \in [Groups -> Clusters \cup {ClustersPerGroup}]
  <2>1. IInv'
    BY GroupStep, Zenon
  <2>2. /\ bitmap \in [Groups -> SUBSET Clusters] /\ gfree \in [Groups -> Int] /\ Exact(bitmap, gfree)
        /\ bitmap' \in [Groups -> SUBSET Clusters] /\ gfree' \in [Groups -> Int] /\ Exact(bitmap', gfree')
    BY <2>1, Zenon DEF IInv, Types, GroupCountExact, Exact
  <2> QED BY <2>2, CountsBounded, Zenon
<1> HIDE DEF g
<1>5. CASE call[t].fn = "alloc" /\ gfree' = [gfree EXCEPT ![g] = @ - 1] /\ pc' = [pc EXCEPT ![t] = "percpu"]
  <2>0. \A u \in Threads : pc'[u] = IF u = t THEN "percpu" ELSE pc[u]
    BY <1>2, <1>5, Zenon
  <2>1. Behind("alloc")' = Behind("alloc") \cup {t} /\ t \notin Behind("alloc") /\ Behind("free")' = Behind("free")
    BY <1>1, <1>5, <2>0, BehindJoins, Zenon
  <2>2. gfree = [gfree' EXCEPT ![g] = @ + 1]
    <3>1. gfree'[g] = gfree[g] - 1 /\ \A h \in Groups : h # g => gfree'[h] = gfree[h]
      BY <1>1, <1>4, <1>5, Zenon
    <3>2. gfree'[g] + 1 = gfree[g]
      BY <1>1, <3>1
    <3> QED BY <1>1, <1>4, <3>1, <3>2, Zenon
  <2>3. /\ ext4_count_free_clusters(gfree') \in Nat
        /\ ext4_count_free_clusters(gfree) = ext4_count_free_clusters(gfree') + 1
    BY <1>1, <1>4, <2>2, OneMore, Zenon
  <2>4. Behind("alloc") \in SUBSET Threads /\ Behind("free") \in SUBSET Threads
    BY Zenon DEF Behind
  <2>5. /\ Cardinality(Behind("alloc")) \in Nat /\ Cardinality(Behind("free")) \in Nat
        /\ Cardinality(Behind("alloc")') = Cardinality(Behind("alloc")) + 1
    BY <2>1, <2>4, BehindFinite, Zenon
  <2> QED BY <1>1, <2>1, <2>3, <2>5 DEF PercpuTrails
<1>6. CASE call[t].fn = "free" /\ gfree' = [gfree EXCEPT ![g] = @ + 1] /\ pc' = [pc EXCEPT ![t] = "percpu"]
  <2>0. \A u \in Threads : pc'[u] = IF u = t THEN "percpu" ELSE pc[u]
    BY <1>2, <1>6, Zenon
  <2>1. Behind("free")' = Behind("free") \cup {t} /\ t \notin Behind("free") /\ Behind("alloc")' = Behind("alloc")
    BY <1>1, <1>6, <2>0, BehindJoins, Zenon
  <2>2. /\ ext4_count_free_clusters(gfree) \in Nat
        /\ ext4_count_free_clusters(gfree') = ext4_count_free_clusters(gfree) + 1
    BY <1>1, <1>4, <1>6, OneMore, Zenon
  <2>3. Behind("alloc") \in SUBSET Threads /\ Behind("free") \in SUBSET Threads
    BY Zenon DEF Behind
  <2>4. /\ Cardinality(Behind("alloc")) \in Nat /\ Cardinality(Behind("free")) \in Nat
        /\ Cardinality(Behind("free")') = Cardinality(Behind("free")) + 1
    BY <2>1, <2>3, BehindFinite, Zenon
  <2> QED BY <1>1, <2>1, <2>2, <2>4 DEF PercpuTrails
<1>7. NUM_B2C(C2B(gfree[g]) - 1) = gfree[g] - 1 /\ NUM_B2C(C2B(gfree[g]) + 1) = gfree[g] + 1
  <2>1. C2B(gfree[g]) = gfree[g]
    BY <1>1, OneBlockClusters, Zenon
  <2>2. gfree[g] - 1 \in Int /\ gfree[g] + 1 \in Int
    BY <1>1
  <2> QED BY <2>1, <2>2, OneBlockClusters, Zenon
<1>8. CASE AllocGroup(t)
  BY <1>1, <1>3, <1>5, <1>7, <1>8, Zenon DEF AllocGroup, Step, mem, g
<1>9. CASE FreeGroup(t)
  BY <1>1, <1>3, <1>6, <1>7, <1>9, Zenon DEF FreeGroup, Step, mem, g
<1> QED BY <1>8, <1>9, Zenon

\* percpu_counter_add and percpu_counter_sub
LEMMA BehindCounter ==
    ASSUME ClusterRatio = 1, IInv, PercpuTrails, NEW t \in Threads, PercpuCounter(t)
    PROVE  PercpuTrails'
<1>1. /\ pc[t] = "percpu" /\ pc' = [pc EXCEPT ![t] = "super"] /\ call[t].fn \in {"alloc", "free"}
      /\ UNCHANGED <<gfree, call>>
  BY Zenon DEF PercpuCounter, Step, IInv, Shape, Calls, mem
<1>2. \A u \in Threads : pc'[u] = IF u = t THEN "super" ELSE pc[u]
  BY <1>1, Zenon DEF IInv, Types
<1>3. NUM_B2C(1) = 1
  BY OneBlockClusters
<1>4. percpu' = percpu + (IF call[t].fn = "alloc" THEN -1 ELSE 1) * 1
  BY <1>3, Zenon DEF PercpuCounter, Sign
<1>5. Behind("alloc") \in SUBSET Threads /\ Behind("free") \in SUBSET Threads
  BY Zenon DEF Behind
<1>6. Cardinality(Behind("alloc")) \in Nat /\ Cardinality(Behind("free")) \in Nat
  BY <1>5, BehindFinite, Zenon
<1>7. ext4_count_free_clusters(gfree) \in Nat
  BY CountsBounded, Zenon DEF IInv, Types, GroupCountExact
<1>8. CASE call[t].fn = "alloc"
  <2>1. t \in Behind("alloc") /\ Behind("alloc")' = Behind("alloc") \ {t} /\ Behind("free")' = Behind("free")
    BY <1>1, <1>2, <1>8 DEF Behind
  <2>2. Cardinality(Behind("alloc")') = Cardinality(Behind("alloc")) - 1
    BY <1>5, <2>1, BehindFinite, Zenon
  <2> QED BY <1>1, <1>4, <1>6, <1>7, <1>8, <2>1, <2>2 DEF PercpuTrails
<1>9. CASE call[t].fn = "free"
  <2>1. t \in Behind("free") /\ Behind("free")' = Behind("free") \ {t} /\ Behind("alloc")' = Behind("alloc")
    BY <1>1, <1>2, <1>9 DEF Behind
  <2>2. Cardinality(Behind("free")') = Cardinality(Behind("free")) - 1
    BY <1>5, <2>1, BehindFinite, Zenon
  <2> QED BY <1>1, <1>4, <1>6, <1>7, <1>9, <2>1, <2>2 DEF PercpuTrails
<1> QED BY <1>1, <1>8, <1>9, Zenon

\* With no task behind, the counter is the sum: at mount, for a start.
LEMMA NoneBehind ==
    (\A t \in Threads : pc[t] = "idle") /\ percpu = ext4_count_free_clusters(gfree) /\ percpu \in Nat
    => PercpuTrails
<1> SUFFICES ASSUME \A t \in Threads : pc[t] = "idle", percpu = ext4_count_free_clusters(gfree), percpu \in Nat
             PROVE  PercpuTrails
  BY Zenon
<1>1. Behind("alloc") = {} /\ Behind("free") = {}
  BY Zenon DEF Behind
<1>2. Cardinality({}) = 0
  BY FS_EmptySet, Zenon
<1> QED BY <1>1, <1>2 DEF PercpuTrails

\* Every step keeps the counter and the tasks behind it in balance.
LEMMA PercpuKept == ASSUME ClusterRatio = 1 PROVE IInv /\ PercpuTrails /\ [Next]_vars => PercpuTrails'
<1> SUFFICES ASSUME IInv, PercpuTrails, [Next]_vars PROVE PercpuTrails'
  BY Zenon
<1>1. ASSUME NEW t \in Threads, Begin(t) \/ JournalStop(t) \/ SuperCount(t) PROVE PercpuTrails'
  <2>1. PICK l \in {"idle", "group", "stop", "desc"} : pc' = [pc EXCEPT ![t] = l] /\ pc[t] # "percpu"
    BY <1>1, Zenon DEF Begin, JournalStop, SuperCount, Step
  <2>2. \A u \in Threads : u # t => call'[u] = call[u]
    BY <1>1, Zenon DEF Begin, JournalStop, SuperCount, IInv, Types
  <2>3. UNCHANGED <<gfree, percpu>>
    BY <1>1, Zenon DEF Begin, JournalStop, SuperCount, mem
  <2> QED BY <2>1, <2>2, <2>3, BehindKept, Zenon
<1>2. ASSUME NEW t \in Threads, DirtyDesc(t) \/ DirtyBitmap(t) PROVE PercpuTrails'
  <2>1. PICK l \in {"bitmap", "stop"} : pc' = [pc EXCEPT ![t] = l] /\ pc[t] # "percpu"
    BY <1>2, Zenon DEF DirtyDesc, DirtyBitmap, Dirty, Step
  <2>2. UNCHANGED <<gfree, percpu, call>>
    BY <1>2, Zenon DEF DirtyDesc, DirtyBitmap, Dirty, mem
  <2> QED BY <2>1, <2>2, BehindKept, Zenon
<1>3. CASE Commit \/ Abort \/ ext4_update_super \/ UNCHANGED vars
  <2>1. UNCHANGED <<gfree, percpu, pc, call>>
    BY <1>3, Zenon DEF Commit, Abort, ext4_update_super, vars, mem
  <2> QED BY <2>1, Zenon DEF PercpuTrails, Behind
<1>4. CASE CrashAndMount
  <2>1. (\A t \in Threads : pc'[t] = "idle") /\ percpu' = ext4_count_free_clusters(gfree')
    BY <1>4, Zenon DEF CrashAndMount
  <2>2. IInv'
    BY NextInv, Zenon
  <2>3. ext4_count_free_clusters(gfree') \in Nat
    BY <2>2, CountsBounded, Zenon DEF IInv, Types, GroupCountExact, Exact
  <2>4. ((\A t \in Threads : pc[t] = "idle") /\ percpu = ext4_count_free_clusters(gfree) /\ percpu \in Nat)'
    BY <2>1, <2>3, Zenon DEF ext4_count_free_clusters, FreeUnits
  <2> QED BY <2>4, NoneBehind, PTL
<1> QED BY <1>1, <1>2, <1>3, <1>4, BehindGroup, BehindCounter, Zenon DEF Next

\* The free clusters statfs reports are those of the groups, up to the calls of
\* evfs_block_alloc and evfs_block_free between the group's lock and the counter,
\* however many tasks there are and whatever errors and crashes they meet.
THEOREM PercpuFollows ==
    ASSUME ClusterRatio = 1, Uninit = {} PROVE Spec => []PercpuTrails
<1>1. Init => PercpuTrails
  <2> SUFFICES ASSUME Init PROVE PercpuTrails
    BY Zenon
  <2>1. ext4_count_free_clusters(gfree) \in Nat
    BY InitInv, CountsBounded, Zenon DEF IInv, Types, GroupCountExact
  <2> QED BY <2>1, NoneBehind, Zenon DEF Init
<1> QED BY <1>1, PercpuKept, Invariance, PTL DEF Spec
=============================================================================
