--------------------------- MODULE InodeOpsProofs ---------------------------
(***************************************************************************)
(* Proofs about InodeOps for any set of tasks, any number of inodes and    *)
(* any number of links: the tracker, the bitmap, the counts, the links and *)
(* the disk agree through every interleaving of evfs_inode_alloc and       *)
(* evfs_inode_free with ext4, through aborts and crashes.  The volume has  *)
(* no quota that can run out, and every number can be tracked; the run     *)
(* inodes_quota_tracker shows what happens otherwise.                      *)
(***************************************************************************)
EXTENDS InodeOps, FiniteSetTheorems, TLAPS

NoRefusal == Untrackable = {} /\ QuotaMayFail = FALSE

-----------------------------------------------------------------------------
(* The inductive invariant *)

\* From the setting of the bit to the group descriptor, and from the tracking of
\* the number to the end of its making.
Pending == {"track", "quota", "group"}
InMaking == {"quota", "group", "dirty", "drop"}
Holding == {"track"} \cup InMaking
OnInode == {"lock", "free", "unlock", "iput"}

Types ==
    /\ ibitmap \in SUBSET Inos /\ ifree \in Int
    /\ tracked \in SUBSET Inos /\ orphan \in SUBSET Inos /\ fresh \in SUBSET Inos
    /\ pinned \in SUBSET Inos
    /\ nlink \in [Inos -> Nat] /\ links \in [Inos -> Nat]
    /\ refs \in [Inos -> SUBSET Threads]
    /\ pc \in [Threads -> Labels] /\ arg \in [Threads -> Inos]
    /\ maker \in [Inos -> {"none", "evfs", "ext4"}]
    /\ dirty \in {{}, {"bitmap", "desc"}}

\* Who makes an inode is alone with it: before it is in the inode cache nothing
\* knows the number, afterwards I_NEW keeps the others out.
Makers ==
    /\ \A t, u \in Threads :
          pc[t] \in Holding /\ pc[u] \in Holding /\ arg[t] = arg[u] => t = u
    /\ \A t \in Threads : pc[t] \in Holding => arg[t] \in ibitmap /\ links[arg[t]] = 0
    /\ \A t \in Threads : pc[t] = "track" =>
          /\ refs[arg[t]] = {} /\ nlink[arg[t]] = 0
          /\ arg[t] \notin tracked \cup pinned \cup orphan
    /\ \A t \in Threads : pc[t] \in InMaking =>
          /\ refs[arg[t]] = {t} /\ arg[t] \in fresh /\ arg[t] \in pinned
    /\ \A t \in Threads : pc[t] = "drop" => aborted

\* References belong to calls that will drop them.
References ==
    /\ \A i \in Inos : \A t \in refs[i] :
          arg[t] = i /\ pc[t] \in InMaking \cup OnInode \cup {"stop"}
    /\ \A t \in Threads : pc[t] \in OnInode => t \in refs[arg[t]]
    /\ \A i \in Inos : refs[i] # {} => i \in ibitmap

\* An inode with links or on the orphan list is allocated; one without links is on
\* the orphan list and held by somebody, who will free it.
Alive ==
    /\ \A i \in Inos : nlink[i] > 0 => i \in ibitmap
    /\ orphan \subseteq ibitmap
    /\ ~aborted => \A i \in ibitmap :
          \/ nlink[i] > 0
          \/ i \in orphan /\ refs[i] # {}
          \/ \E t \in Threads : pc[t] = "track" /\ arg[t] = i

\* A tracked number is one evfs_inode_alloc made, and still has its link.
Tracker ==
    /\ tracked \subseteq ibitmap
    /\ \A i \in tracked : maker[i] = "evfs"
    /\ ~aborted => tracked \subseteq pinned
    /\ \A t \in Threads : pc[t] = "free" /\ arg[t] \in tracked => arg[t] \in pinned

\* The inodes the group descriptor counts as used.
Counted == {i \in ibitmap : ~ \E t \in Threads : pc[t] \in Pending /\ arg[t] = i}
FreeIs(n, S) == n = NumInodes - Cardinality(S)
Counts == ~aborted => FreeIs(ifree, Counted)

\* The image on the disk, by itself and next to the memory.
Sound(d) ==
    /\ d.ibitmap \in SUBSET Inos /\ d.ifree \in Int /\ d.orphan \in SUBSET Inos
    /\ d.nlink \in [Inos -> Nat] /\ d.links \in [Inos -> Nat]
    /\ FreeIs(d.ifree, d.ibitmap)
    /\ d.orphan \subseteq d.ibitmap
    /\ \A i \in Inos : /\ d.nlink[i] > 0 => i \in d.ibitmap
                       /\ d.nlink[i] \in {d.links[i], d.links[i] + 1}
    /\ \A i \in d.ibitmap : d.nlink[i] > 0 \/ i \in d.orphan
Durable ==
    /\ Sound(disk)
    /\ ~aborted /\ dirty = {} /\ (\A t \in Threads : pc[t] \notin Holding)
          => ibitmap = disk.ibitmap /\ ifree = disk.ifree

IInv == Types /\ Makers /\ References /\ NlinkAccounts /\ Alive /\ Tracker /\ Counts /\ Durable

-----------------------------------------------------------------------------
(* Counting *)

\* The inode numbers are finitely many.
LEMMA InosFinite == IsFiniteSet(Inos)
BY FS_Interval, InodeAssumption DEF Inos

\* Taking a number makes one fewer free.
LEMMA Takes ==
    ASSUME NEW S \in SUBSET Inos, NEW i \in Inos \ S, NEW n \in Int, FreeIs(n, S)
    PROVE  FreeIs(n - 1, S \cup {i})
<1>1. IsFiniteSet(S)
  BY InosFinite, FS_Subset, Zenon
<1>2. Cardinality(S \cup {i}) = Cardinality(S) + 1
  BY <1>1, FS_AddElement, Zenon
<1>3. Cardinality(S) \in Nat
  BY <1>1, FS_CardinalityType, Zenon
<1>. QED
  BY <1>2, <1>3, InodeAssumption DEF FreeIs

\* Giving one back makes one more free.
LEMMA Gives ==
    ASSUME NEW S \in SUBSET Inos, NEW i \in S, NEW n \in Int, FreeIs(n, S)
    PROVE  FreeIs(n + 1, S \ {i})
<1>1. IsFiniteSet(S)
  BY InosFinite, FS_Subset, Zenon
<1>2. Cardinality(S \ {i}) = Cardinality(S) - 1
  BY <1>1, FS_RemoveElement, Zenon
<1>3. Cardinality(S) \in Nat
  BY <1>1, FS_CardinalityType, Zenon
<1>. QED
  BY <1>2, <1>3, InodeAssumption DEF FreeIs

-----------------------------------------------------------------------------
(* The initial state *)

\* The invariant holds on a mounted volume nobody works on.
LEMMA InitHolds == Init => IInv
<1>. SUFFICES ASSUME Init PROVE IInv
  BY Zenon
<1>1. 1 \in Inos
  BY InodeAssumption DEF Inos
<1>2. FreeIs(NumInodes, {})
  BY FS_EmptySet, InodeAssumption DEF FreeIs
<1>3. Types
  BY <1>1, InodeAssumption DEF Init, Types, Labels
<1>4. Makers /\ References /\ NlinkAccounts /\ Alive /\ Tracker
  BY DEF Init, Makers, References, NlinkAccounts, Alive, Tracker, Holding, InMaking, OnInode
<1>5. Counts
  <2>1. Counted = {}
    BY Zenon DEF Init, Counted
  <2>. QED
    BY <1>2, <2>1, Zenon DEF Init, Counts
<1>6. Durable
  BY <1>2, InodeAssumption DEF Init, Durable, Sound
<1>. QED
  BY <1>3, <1>4, <1>5, <1>6, Zenon DEF IInv

-----------------------------------------------------------------------------
(* Steps that only move a call on *)

\* Nothing but the program counter, the argument and the answer of a call changes.
Still ==
    /\ ibitmap' = ibitmap /\ tracked' = tracked /\ orphan' = orphan /\ fresh' = fresh
    /\ nlink' = nlink /\ links' = links /\ refs' = refs
    /\ aborted' = aborted /\ pinned' = pinned /\ maker' = maker

\* The call of t makes no inode before and after the step, or goes on making one.
Moves(t) ==
    /\ \A u \in Threads : u # t => pc'[u] = pc[u] /\ arg'[u] = arg[u]
    /\ \/ pc[t] \notin Holding /\ pc'[t] \notin Holding
       \/ /\ pc[t] \in InMaking /\ pc'[t] \in InMaking /\ arg'[t] = arg[t]
          /\ pc'[t] = "drop" => aborted
    /\ pc'[t] = "free" => ~aborted

\* Such a step keeps what is known of the inodes.
LEMMA MovesKeep ==
    ASSUME Makers, NlinkAccounts, Alive, Tracker, Still, NEW t \in Threads, Moves(t)
    PROVE  Makers' /\ NlinkAccounts' /\ Alive' /\ Tracker'
<1>1. Makers'
  BY DEF Makers, Still, Moves, Holding, InMaking
<1>2. NlinkAccounts'
  BY Zenon DEF NlinkAccounts, Still
<1>3. Alive'
  BY DEF Alive, Still, Moves, Holding, InMaking
<1>4. Tracker'
  BY DEF Tracker, Still, Moves, Holding, InMaking
<1>. QED
  BY <1>1, <1>2, <1>3, <1>4, Zenon

-----------------------------------------------------------------------------
(* evfs_inode_alloc *)

\* evfs_inode_alloc starts its handle.
LEMMA AllocBeginKeeps ==
    ASSUME IInv, NEW t \in Threads, AllocBegin(t) PROVE IInv'
<1>0. 1 \in Inos
  BY InodeAssumption DEF Inos
<1>. USE DEF IInv, AllocBegin, Return, Goto, Answer, mem, env, ghosts
<1>1. Types'
  BY <1>0 DEF Types, Labels
<1>2. \A u \in Threads : u # t => pc'[u] = pc[u] /\ arg'[u] = arg[u]
  BY Zenon DEF Types
<1>3. pc[t] = "idle" /\ pc'[t] \in {"bit", "idle"}
  BY Zenon DEF Types
<1>4. Makers' /\ NlinkAccounts' /\ Alive' /\ Tracker'
  <2>1. Still
    BY <1>2, <1>3, Zenon DEF Still
  <2>2. Moves(t)
    BY <1>2, <1>3, Zenon DEF Moves, Holding, InMaking
  <2>. QED
    BY <2>1, <2>2, MovesKeep, Zenon
<1>5. References'
  BY <1>2, <1>3 DEF Types, References, InMaking, OnInode
<1>6. Counted' = Counted
  BY <1>2, <1>3, Zenon DEF Counted, Pending
<1>7. Counts'
  BY <1>6, Zenon DEF Counts
<1>8. Durable'
  BY <1>2, <1>3, Zenon DEF Durable, Holding, InMaking
<1>. QED
  BY <1>1, <1>4, <1>5, <1>7, <1>8, Zenon

\* The bit of the inode bitmap.
LEMMA AllocBitKeeps ==
    ASSUME IInv, NEW t \in Threads, AllocBit(t) PROVE IInv'
<1>. USE DEF IInv, AllocBit, Goto, Answer, env, ghosts
<1>1. Types'
  BY DEF Types, Labels
<1>2. \A u \in Threads : u # t => pc'[u] = pc[u]
  BY Zenon DEF Types
<1>3. pc[t] = "bit" /\ pc'[t] = IF arg[t] \in ibitmap THEN "stop" ELSE "track"
  BY Zenon DEF Types
<1>4. arg[t] \in Inos /\ arg' = arg
  BY Zenon DEF Types
<1>5. CASE arg[t] \in ibitmap
  <2>1. Makers' /\ NlinkAccounts' /\ Alive' /\ Tracker'
    <3>1. Still
      BY <1>2, <1>3, <1>5, Zenon DEF Still
    <3>2. Moves(t)
      BY <1>2, <1>3, <1>5, Zenon DEF Moves, Holding, InMaking
    <3>. QED
      BY <3>1, <3>2, MovesKeep, Zenon
  <2>2. References'
    BY <1>2, <1>3, <1>5 DEF Types, References, InMaking, OnInode
  <2>3. Counted' = Counted
    BY <1>2, <1>3, <1>5, Zenon DEF Counted, Pending
  <2>4. Counts' /\ Durable'
    BY <1>2, <1>3, <1>5, <2>3, Zenon DEF Counts, Durable, Holding, InMaking
  <2>. QED
    BY <1>1, <2>1, <2>2, <2>4, Zenon
<1>6. CASE arg[t] \notin ibitmap
  <2>1. nlink[arg[t]] = 0 /\ links[arg[t]] = 0 /\ arg[t] \notin pinned
    BY <1>4, <1>6 DEF Types, Alive, NlinkAccounts
  <2>2. refs[arg[t]] = {} /\ arg[t] \notin tracked \cup orphan
    BY <1>4, <1>6, Zenon DEF References, Tracker, Alive
  <2>3. Makers'
    BY <1>2, <1>3, <1>6, <2>1, <2>2 DEF Makers, Holding, InMaking
  <2>4. NlinkAccounts' /\ Alive' /\ Tracker'
    BY <1>2, <1>3, <1>4, <1>6 DEF NlinkAccounts, Alive, Tracker
  <2>5. References'
    BY <1>2, <1>3, <1>6 DEF Types, References, InMaking, OnInode
  <2>6. Counted' = Counted
    BY <1>2, <1>3, <1>6, Zenon DEF Counted, Pending
  <2>7. Counts' /\ Durable'
    BY <1>2, <1>3, <1>6, <2>6, Zenon DEF Counts, Durable, Holding, InMaking
  <2>. QED
    BY <1>1, <2>3, <2>4, <2>5, <2>7, Zenon
<1>. QED
  BY <1>5, <1>6, Zenon

\* What AllocTrack does when nothing is refused: the maker is alone with the number.
LEMMA AllocTracks ==
    ASSUME IInv, NoRefusal, NEW t \in Threads, AllocTrack(t)
    PROVE  /\ pc[t] = "track" /\ pc' = [pc EXCEPT ![t] = "quota"] /\ arg' = arg
           /\ tracked' = tracked \cup {arg[t]} /\ fresh' = fresh \cup {arg[t]}
           /\ nlink' = [nlink EXCEPT ![arg[t]] = 1]
           /\ refs' = [refs EXCEPT ![arg[t]] = {t}]
           /\ pinned' = pinned \cup {arg[t]}
           /\ maker' = [maker EXCEPT ![arg[t]] = "evfs"]
           /\ UNCHANGED <<ibitmap, ifree, links, orphan, dirty, disk, aborted>>
BY Zenon DEF IInv, Makers, NoRefusal, AllocTrack, Goto, Answer, env, ghosts

\* The new inode is tracked.
LEMMA AllocTrackKeeps ==
    ASSUME IInv, NoRefusal, NEW t \in Threads, AllocTrack(t) PROVE IInv'
<1>. USE AllocTracks DEF IInv
<1>1. Types'
  BY DEF Types, Labels
<1>2. \A u \in Threads : u # t => pc'[u] = pc[u]
  BY DEF Types
<1>3. pc[t] = "track" /\ pc'[t] = "quota" /\ arg[t] \in Inos
  BY DEF Types
<1>4. \A i \in Inos : i # arg[t] => nlink'[i] = nlink[i] /\ refs'[i] = refs[i] /\ maker'[i] = maker[i]
  BY DEF Types
<1>5. nlink'[arg[t]] = 1 /\ refs'[arg[t]] = {t} /\ maker'[arg[t]] = "evfs"
  BY DEF Types
<1>6. arg[t] \in ibitmap /\ links[arg[t]] = 0
  BY <1>3, Zenon DEF Makers, Holding
<1>7. \A u \in Threads : u # t /\ pc[u] \in Holding => arg[u] # arg[t]
  BY <1>3, ZenonT(60) DEF Makers, Holding
<1>8. Makers'
  BY <1>2, <1>3, <1>4, <1>5, <1>6, <1>7 DEF Types, Makers, Holding, InMaking
<1>9. References'
  BY <1>2, <1>3, <1>4, <1>5, <1>6 DEF Types, Makers, References, InMaking, OnInode
<1>10. NlinkAccounts'
  BY <1>4, <1>5, <1>6 DEF Types, NlinkAccounts
<1>11. Alive'
  BY <1>2, <1>3, <1>4, <1>5, <1>6 DEF Types, Alive
<1>12. Tracker'
  BY <1>2, <1>3, <1>4, <1>5, <1>6 DEF Types, Tracker
<1>13. Counted' = Counted
  BY <1>2, <1>3 DEF Counted, Pending
<1>14. Counts' /\ Durable'
  BY <1>2, <1>3, <1>13, Zenon DEF Counts, Durable, Holding, InMaking
<1>. QED
  BY <1>1, <1>8, <1>9, <1>10, <1>11, <1>12, <1>14, ZenonT(60)

\* dquot_alloc_inode, which does not refuse here.
LEMMA AllocQuotaKeeps ==
    ASSUME IInv, NoRefusal, NEW t \in Threads, AllocQuota(t) PROVE IInv'
<1>. USE DEF IInv, AllocQuota, Goto, Answer, mem, env, ghosts, NoRefusal
<1>1. Types'
  BY ZenonT(60) DEF Types, Labels
<1>2. \A u \in Threads : u # t => pc'[u] = pc[u]
  BY Zenon DEF Types
<1>3. pc[t] = "quota" /\ (pc'[t] = "group" \/ (aborted /\ pc'[t] = "drop"))
  BY Zenon DEF Types
<1>4. Makers' /\ NlinkAccounts' /\ Alive' /\ Tracker'
  <2>1. Still
    BY <1>2, <1>3, Zenon DEF Still
  <2>2. Moves(t)
    BY <1>2, <1>3, Zenon DEF Moves, Holding, InMaking
  <2>. QED
    BY <2>1, <2>2, MovesKeep, Zenon
<1>5. References'
  BY <1>2, <1>3 DEF Types, References, InMaking, OnInode
<1>6. ~aborted => Counted' = Counted
  BY <1>2, <1>3, Zenon DEF Counted, Pending
<1>7. Counts' /\ Durable'
  BY <1>2, <1>3, <1>6, Zenon DEF Counts, Durable, Holding, InMaking
<1>. QED
  BY <1>1, <1>4, <1>5, <1>7, Zenon

\* The counts of the group go down.
LEMMA AllocGroupKeeps ==
    ASSUME IInv, NEW t \in Threads, AllocGroup(t) PROVE IInv'
<1>. USE DEF IInv, AllocGroup, Goto, env, ghosts
<1>1. Types'
  BY DEF Types, Labels
<1>2. \A u \in Threads : u # t => pc'[u] = pc[u]
  BY Zenon DEF Types
<1>3. pc[t] = "group" /\ pc'[t] = "dirty" /\ arg[t] \in Inos
  BY Zenon DEF Types
<1>4. Makers' /\ NlinkAccounts' /\ Alive' /\ Tracker'
  <2>1. Still
    BY <1>2, <1>3, Zenon DEF Still
  <2>2. Moves(t)
    BY <1>2, <1>3, Zenon DEF Moves, Holding, InMaking
  <2>. QED
    BY <2>1, <2>2, MovesKeep, Zenon
<1>5. References'
  BY <1>2, <1>3 DEF Types, References, InMaking, OnInode
<1>6. Counted' = Counted \cup {arg[t]} /\ arg[t] \notin Counted
  BY <1>2, <1>3 DEF Makers, Counted, Pending, Holding, InMaking
<1>7. Counts'
  <2>1. Counted \in SUBSET Inos /\ ifree \in Int /\ ifree' = ifree - 1
    BY Zenon DEF Types, Counted
  <2>2. FreeIs(ifree, Counted) => FreeIs(ifree - 1, Counted \cup {arg[t]})
    BY <1>3, <1>6, <2>1, Takes, Zenon
  <2>. QED
    BY <1>6, <2>1, <2>2, Zenon DEF Counts
<1>8. Durable'
  BY <1>3, Zenon DEF Durable, Holding, InMaking
<1>. QED
  BY <1>1, <1>4, <1>5, <1>7, <1>8, Zenon

\* The new inode is written.
LEMMA AllocDirtyKeeps ==
    ASSUME IInv, NEW t \in Threads, AllocDirty(t) PROVE IInv'
<1>. USE DEF IInv, AllocDirty, Goto, Answer, env, ghosts
<1>1. Types'
  BY Zenon DEF Types, Labels
<1>2. \A u \in Threads : u # t => pc'[u] = pc[u]
  BY Zenon DEF Types
<1>3. pc[t] = "dirty" /\ (pc'[t] = "stop" \/ (aborted /\ pc'[t] = "drop"))
  BY Zenon DEF Types
<1>4. \A u \in Threads : u # t /\ pc[u] \in Holding => arg[u] # arg[t]
  BY <1>3, Zenon DEF Makers, Holding, InMaking
<1>5. Makers'
  BY <1>2, <1>3, <1>4 DEF Makers, Holding, InMaking
<1>6. NlinkAccounts' /\ Alive' /\ Tracker'
  BY <1>2, <1>3 DEF NlinkAccounts, Alive, Tracker
<1>7. References'
  BY <1>2, <1>3 DEF Types, References, InMaking, OnInode
<1>8. Counted' = Counted
  BY <1>2, <1>3, Zenon DEF Counted, Pending
<1>9. Counts'
  BY <1>8, Zenon DEF Counts
<1>10. Durable'
  BY Zenon DEF Durable
<1>. QED
  BY <1>1, <1>5, <1>6, <1>7, <1>9, <1>10, Zenon

\* The way out of a failed allocation.
LEMMA AllocDropKeeps ==
    ASSUME IInv, NEW t \in Threads, AllocDrop(t) PROVE IInv'
<1>. USE DEF IInv, AllocDrop, Goto, env
<1>1. Types'
  BY Zenon DEF Types, Labels
<1>2. \A u \in Threads : u # t => pc'[u] = pc[u]
  BY Zenon DEF Types
<1>3. pc[t] = "drop" /\ pc'[t] = "stop" /\ aborted /\ arg[t] \in Inos
  BY ZenonT(60) DEF Types, Makers
<1>4. \A u \in Threads : u # t /\ pc[u] \in Holding => arg[u] # arg[t]
  BY <1>3, Zenon DEF Makers, Holding, InMaking
<1>5. nlink'[arg[t]] = 0 /\ links[arg[t]] = 0 /\ \A i \in Inos : i # arg[t] => nlink'[i] = nlink[i]
  BY <1>3, Zenon DEF Types, Makers, Holding, InMaking
<1>6. Makers'
  BY <1>2, <1>3, <1>4, <1>5 DEF Types, Makers, Holding, InMaking
<1>7. NlinkAccounts' /\ Alive'
  BY <1>3, <1>5 DEF Types, NlinkAccounts, Alive
<1>8. \A u \in Threads : pc[u] = "free" => arg[u] # arg[t]
  BY <1>3 DEF Makers, References, InMaking, OnInode
<1>9. Tracker'
  BY <1>2, <1>3, <1>8, Zenon DEF Tracker
<1>10. References'
  BY <1>2, <1>3, Zenon DEF Types, References, InMaking, OnInode
<1>11. Counts' /\ Durable'
  BY <1>3, Zenon DEF Counts, Durable
<1>. QED
  BY <1>1, <1>6, <1>7, <1>9, <1>10, <1>11, Zenon

\* ext4_journal_stop of the allocation.
LEMMA AllocStopKeeps ==
    ASSUME IInv, NEW t \in Threads, AllocStop(t) PROVE IInv'
<1>0. 1 \in Inos
  BY InodeAssumption DEF Inos
<1>. USE DEF IInv, AllocStop, Return, Goto, Answer, mem, env, ghosts
<1>1. Types'
  BY <1>0, Zenon DEF Types, Labels
<1>2. \A u \in Threads : u # t => pc'[u] = pc[u] /\ arg'[u] = arg[u]
  BY Zenon DEF Types
<1>3. pc[t] = "stop" /\ IF t \in refs[arg[t]] THEN pc'[t] = "iput" /\ arg' = arg ELSE pc'[t] = "idle"
  BY Zenon DEF Types
<1>4. Makers' /\ NlinkAccounts' /\ Alive' /\ Tracker'
  <2>1. Still
    BY <1>2, <1>3, Zenon DEF Still
  <2>2. Moves(t)
    BY <1>2, <1>3, Zenon DEF Moves, Holding, InMaking
  <2>. QED
    BY <2>1, <2>2, MovesKeep, Zenon
<1>5. References'
  BY <1>2, <1>3 DEF Types, References, InMaking, OnInode
<1>6. Counted' = Counted
  BY <1>2, <1>3, Zenon DEF Counted, Pending
<1>7. Counts' /\ Durable'
  BY <1>2, <1>3, <1>6, Zenon DEF Counts, Durable, Holding, InMaking
<1>. QED
  BY <1>1, <1>4, <1>5, <1>7, Zenon

-----------------------------------------------------------------------------
(* The end of an inode *)

\* An inode without links that nobody is making and at most one task holds can be
\* freed: nothing that claims its number is left.
LEMMA EvictKeeps ==
    ASSUME IInv, ~aborted, NEW i \in ibitmap,
           refs' = [refs EXCEPT ![i] = {}], Evict(i),
           nlink' \in [Inos -> Nat], links' \in [Inos -> Nat], nlink'[i] = 0, links'[i] = 0,
           \A j \in Inos : j # i => nlink'[j] = nlink[j] /\ links'[j] = links[j],
           i \notin pinned, tracked' \in {tracked, tracked \ {i}},
           \A t \in Threads : pc[t] \in Holding => arg[t] # i,
           pc' \in [Threads -> Labels], arg' \in [Threads -> Inos],
           \A t \in Threads : \/ pc'[t] = pc[t] /\ arg'[t] = arg[t] /\ t \notin refs[i]
                              \/ pc[t] \in OnInode /\ arg[t] = i /\ pc'[t] = "idle",
           UNCHANGED <<fresh, disk, aborted, pinned>>
    PROVE  IInv'
<1>. USE DEF IInv, Evict
<1>0. i \in Inos /\ i \notin tracked
  BY Zenon DEF Types, Tracker
<1>1. Types'
  <2>1. ibitmap' \in SUBSET Inos /\ orphan' \in SUBSET Inos /\ ifree' \in Int
    BY DEF Types
  <2>2. refs' \in [Inos -> SUBSET Threads] /\ maker' \in [Inos -> {"none", "evfs", "ext4"}]
    BY Zenon DEF Types
  <2>3. tracked' \in SUBSET Inos /\ dirty' \in {{}, {"bitmap", "desc"}}
    BY Zenon DEF Types
  <2>. QED
    BY <2>1, <2>2, <2>3, Zenon DEF Types
<1>2. \A t \in Threads : pc'[t] \in Holding \cup {"free"} => pc'[t] = pc[t] /\ arg'[t] = arg[t]
  BY Zenon DEF Holding, InMaking
<1>3. \A j \in Inos : j # i => refs'[j] = refs[j] /\ maker'[j] = maker[j]
  BY <1>0, Zenon DEF Types
<1>4. Makers'
  BY <1>0, <1>2, <1>3 DEF Types, Makers, Holding, InMaking
<1>5. References'
  BY <1>0, <1>3 DEF Types, References, InMaking, OnInode
<1>6. NlinkAccounts'
  BY <1>0 DEF NlinkAccounts
<1>7. Alive'
  BY <1>0, <1>2, <1>3 DEF Types, Alive, Holding, InMaking, OnInode
<1>8. Tracker'
  BY <1>0, <1>2, <1>3 DEF Types, Tracker
<1>9. Counts'
  <2>1. i \in Counted /\ Counted' = Counted \ {i}
    BY <1>2 DEF Counted, Pending, Holding, InMaking, OnInode
  <2>2. Counted \in SUBSET Inos /\ ifree \in Int /\ ifree' = ifree + 1
    BY Zenon DEF Types, Counted
  <2>3. FreeIs(ifree + 1, Counted \ {i})
    BY <2>1, <2>2, Gives, Zenon DEF Counts
  <2>. QED
    BY <2>1, <2>2, <2>3, Zenon DEF Counts
<1>10. Durable'
  BY Zenon DEF Durable
<1>. QED
  BY <1>1, <1>4, <1>5, <1>6, <1>7, <1>8, <1>9, <1>10, Zenon

\* iput keeps the invariant, whether or not it frees the inode.
LEMMA IputHolds ==
    ASSUME IInv, NEW t \in Threads, Iput(t) PROVE IInv'
<1>0. 1 \in Inos
  BY InodeAssumption DEF Inos
<1>. USE DEF IInv, Iput, Return, env
<1>1. /\ pc[t] = "iput" /\ pc'[t] = "idle" /\ t \in refs[arg[t]] /\ arg[t] \in Inos /\ arg[t] \in ibitmap
      /\ pc' \in [Threads -> Labels] /\ arg' \in [Threads -> Inos]
  BY <1>0 DEF Types, Labels, References, OnInode
<1>2. \A u \in Threads : u # t => pc'[u] = pc[u] /\ arg'[u] = arg[u]
  BY Zenon DEF Types
<1>3. CASE nlink[arg[t]] = 0 /\ refs[arg[t]] = {t} /\ ~aborted
  <2>1. refs' = [refs EXCEPT ![arg[t]] = {}]
    BY <1>1, <1>3, Zenon DEF Types
  <2>2. links[arg[t]] = 0 /\ arg[t] \notin pinned
    BY <1>1, <1>3 DEF Types, NlinkAccounts
  <2>3. \A u \in Threads : pc[u] \in Holding => arg[u] # arg[t]
    <3>1. \A u \in Threads : pc[u] \in Holding => refs[arg[u]] = {} \/ refs[arg[u]] = {u}
      BY Zenon DEF Makers, Holding
    <3>2. pc[t] \notin Holding
      BY <1>1 DEF Holding, InMaking
    <3>. QED
      BY <1>3, <3>1, <3>2, Zenon
  <2>. QED
    BY <1>1, <1>2, <1>3, <2>1, <2>2, <2>3, EvictKeeps, Zenon DEF Types, OnInode
<1>4. CASE ~(nlink[arg[t]] = 0 /\ refs[arg[t]] = {t} /\ ~aborted)
  <2>1. UNCHANGED <<ibitmap, ifree, orphan, dirty, maker>>
    BY <1>4, Zenon DEF Evict
  <2>2. Types'
    BY <1>0, <2>1, Zenon DEF Types, Labels
  <2>3. \A i \in Inos : refs'[i] = refs[i] \ {t}
    BY <1>1 DEF Types, References
  <2>4. \A u \in Threads : pc[u] \in Holding => arg[u] # arg[t]
    BY <1>1 DEF Makers, Holding, InMaking
  <2>5. Makers'
    BY <1>1, <1>2, <2>1, <2>3, <2>4 DEF Types, Makers, Holding, InMaking
  <2>6. References'
    BY <1>1, <1>2, <2>1, <2>3 DEF Types, References, InMaking, OnInode
  <2>7. NlinkAccounts' /\ Tracker'
    BY <1>1, <1>2, <2>1, ZenonT(60) DEF NlinkAccounts, Tracker
  <2>8. Alive'
    BY <1>1, <1>2, <1>4, <2>1, <2>3 DEF Types, Alive, References
  <2>9. Counted' = Counted
    BY <1>1, <1>2, <2>1, Zenon DEF Counted, Pending
  <2>10. Counts' /\ Durable'
    BY <1>1, <1>2, <2>1, <2>9, Zenon DEF Counts, Durable, Holding, InMaking
  <2>. QED
    BY <2>2, <2>5, <2>6, <2>7, <2>8, <2>10, Zenon
<1>. QED
  BY <1>3, <1>4, Zenon

-----------------------------------------------------------------------------
(* evfs_inode_free *)

\* evfs_inode_free looks its inode up.
LEMMA FreeBeginKeeps ==
    ASSUME IInv, NEW t \in Threads, FreeBegin(t) PROVE IInv'
<1>0. 1 \in Inos
  BY InodeAssumption DEF Inos
<1>. USE DEF IInv
<1>1. PICK i \in Inos \ fresh :
        IF nlink[i] = 0 /\ refs[i] = {}
        THEN Return(t) /\ UNCHANGED refs
        ELSE /\ arg' = [arg EXCEPT ![t] = i]
             /\ refs' = [refs EXCEPT ![i] = @ \cup {t}]
             /\ Goto(t, "lock") /\ Answer(t, "OK")
  BY Zenon DEF FreeBegin
<1>2. /\ UNCHANGED <<ibitmap, ifree, tracked, nlink, links, orphan, fresh, dirty, disk, aborted>>
      /\ UNCHANGED <<pinned, maker>>
  BY Zenon DEF FreeBegin, mem, env, ghosts
<1>. USE <1>1, <1>2 DEF Return, Goto, Answer
<1>3. Types'
  BY <1>0 DEF Types, Labels
<1>4. \A u \in Threads : u # t => pc'[u] = pc[u] /\ arg'[u] = arg[u]
  BY Zenon DEF Types
<1>5. pc[t] = "idle" /\ pc'[t] \in {"idle", "lock"}
  BY Zenon DEF FreeBegin, Types
<1>6. NlinkAccounts' /\ Tracker'
  BY <1>4, <1>5, Zenon DEF NlinkAccounts, Tracker
<1>7. Counted' = Counted
  BY <1>4, <1>5 DEF Counted, Pending
<1>8. Counts' /\ Durable'
  BY <1>4, <1>5, <1>7, Zenon DEF Counts, Durable, Holding, InMaking
<1>9. CASE nlink[i] = 0 /\ refs[i] = {}
  <2>1. Makers' /\ Alive'
    BY <1>4, <1>5, <1>9 DEF Makers, Alive, Holding, InMaking
  <2>2. References'
    BY <1>4, <1>5, <1>9 DEF Types, References, InMaking, OnInode
  <2>. QED
    BY <1>3, <1>6, <1>8, <2>1, <2>2, ZenonT(60)
<1>10. CASE ~(nlink[i] = 0 /\ refs[i] = {})
  <2>1. \A j \in Inos : refs'[j] = IF j = i THEN refs[i] \cup {t} ELSE refs[j]
    BY <1>10, ZenonT(60) DEF Types
  <2>2. pc'[t] = "lock" /\ arg'[t] = i
    BY <1>10, Zenon DEF Types
  <2>3. i \in ibitmap /\ \A u \in Threads : pc[u] \in Holding => arg[u] # i
    BY <1>10 DEF Types, Alive, References, Makers, Holding, InMaking
  <2>4. Makers'
    BY <1>4, <1>5, <2>1, <2>3 DEF Types, Makers, Holding, InMaking
  <2>5. Alive'
    BY <1>4, <1>5, <2>1 DEF Types, Alive
  <2>6. References'
    BY <1>4, <1>5, <2>1, <2>2, <2>3 DEF Types, References, InMaking, OnInode
  <2>. QED
    BY <1>3, <1>6, <1>8, <2>4, <2>5, <2>6, Zenon
<1>. QED
  BY <1>9, <1>10, Zenon

\* inode_lock in evfs_inode_free.
LEMMA FreeLockKeeps ==
    ASSUME IInv, NEW t \in Threads, FreeLock(t) PROVE IInv'
<1>. USE DEF IInv, FreeLock, Goto, Answer, mem, env, ghosts
<1>1. Types'
  BY Zenon DEF Types, Labels
<1>2. \A u \in Threads : u # t => pc'[u] = pc[u]
  BY Zenon DEF Types
<1>3. pc[t] = "lock" /\ ((~aborted /\ pc'[t] = "free") \/ pc'[t] = "unlock")
  BY Zenon DEF Types
<1>4. Makers' /\ NlinkAccounts' /\ Alive' /\ Tracker'
  <2>1. Still
    BY <1>2, <1>3, Zenon DEF Still
  <2>2. Moves(t)
    BY <1>2, <1>3, Zenon DEF Moves, Holding, InMaking
  <2>. QED
    BY <2>1, <2>2, MovesKeep, Zenon
<1>5. References'
  BY <1>2, <1>3 DEF Types, References, InMaking, OnInode
<1>6. Counted' = Counted
  BY <1>2, <1>3, Zenon DEF Counted, Pending
<1>7. Counts' /\ Durable'
  BY <1>2, <1>3, <1>6, Zenon DEF Counts, Durable, Holding, InMaking
<1>. QED
  BY <1>1, <1>4, <1>5, <1>7, Zenon

\* inode_unlock and iput in evfs_inode_free.
LEMMA FreeUnlockKeeps ==
    ASSUME IInv, NEW t \in Threads, FreeUnlock(t) PROVE IInv'
<1>. USE DEF IInv, FreeUnlock, Goto, mem, env, ghosts
<1>1. Types'
  BY Zenon DEF Types, Labels
<1>2. \A u \in Threads : u # t => pc'[u] = pc[u]
  BY Zenon DEF Types
<1>3. pc[t] = "unlock" /\ pc'[t] = "iput"
  BY Zenon DEF Types
<1>4. Makers' /\ NlinkAccounts' /\ Alive' /\ Tracker'
  <2>1. Still
    BY <1>2, <1>3, Zenon DEF Still
  <2>2. Moves(t)
    BY <1>2, <1>3, Zenon DEF Moves, Holding, InMaking
  <2>. QED
    BY <2>1, <2>2, MovesKeep, Zenon
<1>5. References'
  BY <1>2, <1>3 DEF Types, References, InMaking, OnInode
<1>6. Counted' = Counted
  BY <1>2, <1>3, Zenon DEF Counted, Pending
<1>7. Counts' /\ Durable'
  BY <1>2, <1>3, <1>6, Zenon DEF Counts, Durable, Holding, InMaking
<1>. QED
  BY <1>1, <1>4, <1>5, <1>7, Zenon

\* The body of evfs_inode_free.
LEMMA FreeKeeps ==
    ASSUME IInv, NEW t \in Threads, Free(t) PROVE IInv'
<1>. USE DEF IInv, Free, Goto, Answer, env
<1>1. \A u \in Threads : u # t => pc'[u] = pc[u]
  BY Zenon DEF Types
<1>2. /\ pc[t] = "free" /\ pc'[t] = "unlock" /\ arg[t] \in Inos /\ t \in refs[arg[t]]
      /\ arg[t] \in ibitmap
  BY ZenonT(60) DEF Types, References, OnInode
<1>3. Counted' = Counted
  BY <1>1, <1>2, Zenon DEF Counted, Pending
<1>4. Counts' /\ Durable'
  BY <1>1, <1>2, <1>3, Zenon DEF Counts, Durable, Holding, InMaking
<1>5. References'
  BY <1>1, <1>2 DEF Types, References, InMaking, OnInode
<1>6. CASE nlink[arg[t]] > 1 \/ arg[t] \notin tracked
  <2>1. Types'
    BY <1>6, Zenon DEF Types, Labels
  <2>2. Makers' /\ NlinkAccounts' /\ Alive' /\ Tracker'
    <3>1. Still
      BY <1>1, <1>2, <1>6, Zenon DEF Still
    <3>2. Moves(t)
      BY <1>1, <1>2, <1>6, Zenon DEF Moves, Holding, InMaking
    <3>. QED
      BY <3>1, <3>2, MovesKeep, Zenon
  <2>. QED
    BY <1>4, <1>5, <2>1, <2>2, Zenon
<1>7. CASE nlink[arg[t]] <= 1 /\ arg[t] \in tracked
  <2>1. nlink[arg[t]] = 1 /\ links[arg[t]] = 0 /\ arg[t] \in pinned
    BY <1>2, <1>7 DEF Types, Tracker, NlinkAccounts
  <2>2. /\ nlink' = [nlink EXCEPT ![arg[t]] = 0] /\ tracked' = tracked \ {arg[t]}
        /\ orphan' = orphan \cup {arg[t]} /\ pinned' = pinned \ {arg[t]}
    BY <1>7, <2>1
  <2>3. Types'
    BY <1>2, <2>2, Zenon DEF Types, Labels
  <2>4. \A u \in Threads : pc[u] \in Holding => arg[u] # arg[t]
    <3>1. \A u \in Threads : pc[u] \in Holding => refs[arg[u]] = {} \/ refs[arg[u]] = {u}
      BY Zenon DEF Makers, Holding
    <3>2. pc[t] \notin Holding
      BY <1>2 DEF Holding, InMaking
    <3>. QED
      BY <1>2, <3>1, <3>2, ZenonT(60)
  <2>5. \A i \in Inos : nlink'[i] = IF i = arg[t] THEN 0 ELSE nlink[i]
    BY <2>2, Zenon DEF Types
  <2>6. Makers'
    BY <1>1, <1>2, <2>2, <2>4, <2>5 DEF Types, Makers, Holding, InMaking
  <2>7. NlinkAccounts'
    BY <2>1, <2>2, <2>5 DEF Types, NlinkAccounts
  <2>8. Alive'
    BY <1>1, <1>2, <2>2, <2>5 DEF Types, Alive
  <2>9. Tracker'
    BY <1>1, <1>2, <2>2, Zenon DEF Tracker
  <2>. QED
    BY <1>4, <1>5, <2>3, <2>6, <2>7, <2>8, <2>9, ZenonT(60)
<1>. QED
  BY <1>2, <1>6, <1>7 DEF Types

-----------------------------------------------------------------------------
(* The rest of ext4 *)

\* creat(2).
LEMMA CreateKeeps ==
    ASSUME IInv, NEW i \in Inos, ext4_create(i) PROVE IInv'
<1>. USE DEF IInv, ext4_create, env
<1>1. Types'
  BY DEF Types
<1>2. i \notin pinned \cup tracked \cup orphan
  BY DEF Types, Alive, NlinkAccounts, Tracker
<1>3. \A u \in Threads : pc[u] \in Holding => arg[u] # i
  BY DEF Makers
<1>4. \A j \in Inos : /\ nlink'[j] = IF j = i THEN 1 ELSE nlink[j]
                      /\ links'[j] = IF j = i THEN 1 ELSE links[j]
                      /\ maker'[j] = IF j = i THEN "ext4" ELSE maker[j]
  BY Zenon DEF Types
<1>5. Makers'
  BY <1>3, <1>4 DEF Types, Makers, Holding, InMaking
<1>6. References'
  BY Zenon DEF References
<1>7. NlinkAccounts'
  BY <1>2, <1>4 DEF Types, NlinkAccounts
<1>8. Alive'
  BY <1>4 DEF Types, Alive
<1>9. Tracker'
  BY <1>2, <1>4, Zenon DEF Types, Tracker
<1>10. Counts'
  <2>1. i \notin Counted /\ Counted' = Counted \cup {i}
    BY <1>3, Zenon DEF Counted, Pending, Holding, InMaking
  <2>2. Counted \in SUBSET Inos /\ ifree \in Int /\ ifree' = ifree - 1
    BY Zenon DEF Types, Counted
  <2>3. FreeIs(ifree - 1, Counted \cup {i})
    BY <2>1, <2>2, Takes, Zenon DEF Counts
  <2>. QED
    BY <2>1, <2>2, <2>3, Zenon DEF Counts
<1>11. Durable'
  BY Zenon DEF Durable
<1>. QED
  BY <1>1, <1>5, <1>6, <1>7, <1>8, <1>9, <1>10, <1>11, Zenon

\* link(2), and evfs_dentry_add.
LEMMA LinkKeeps ==
    ASSUME IInv, NEW i \in Inos, __ext4_link(i) PROVE IInv'
<1>. USE DEF IInv, __ext4_link, env, ghosts
<1>1. Types'
  BY DEF Types
<1>2. i \in ibitmap /\ \A u \in Threads : pc[u] \in Holding => arg[u] # i
  <2>1. i \in ibitmap
    BY Zenon DEF Alive, References
  <2>2. \A u \in Threads : pc[u] \in InMaking => arg[u] # i
    <3>1. \A u \in Threads : pc[u] \in InMaking => arg[u] \in fresh
      BY ZenonT(60) DEF Makers
    <3>2. i \notin fresh
      BY Zenon
    <3>. QED
      BY <3>1, <3>2, ZenonT(60)
  <2>3. \A u \in Threads : pc[u] = "track" => arg[u] # i
    BY DEF Types, Makers
  <2>. QED
    BY <2>1, <2>2, <2>3, Zenon DEF Holding
<1>3. \A j \in Inos : /\ nlink'[j] = IF j = i THEN nlink[j] + 1 ELSE nlink[j]
                      /\ links'[j] = IF j = i THEN links[j] + 1 ELSE links[j]
  BY Zenon DEF Types
<1>4. orphan' \in {orphan, orphan \ {i}}
  BY Zenon
<1>5. Makers'
  BY <1>2, <1>3, <1>4 DEF Types, Makers, Holding, InMaking
<1>6. References' /\ Tracker'
  BY Zenon DEF References, Tracker
<1>7. NlinkAccounts'
  BY <1>3 DEF Types, NlinkAccounts
<1>8. Alive'
  BY <1>2, <1>3, <1>4 DEF Types, Alive
<1>9. Counted' = Counted
  BY Zenon DEF Counted
<1>10. Counts' /\ Durable'
  BY <1>9, Zenon DEF Counts, Durable
<1>. QED
  BY <1>1, <1>5, <1>6, <1>7, <1>8, <1>10, ZenonT(60)

\* unlink(2), and evfs_dentry_delete.
LEMMA UnlinkKeeps ==
    ASSUME IInv, NEW i \in Inos, NEW forget \in BOOLEAN, __ext4_unlink(i, forget) PROVE IInv'
<1>. USE DEF IInv
<1>1. /\ ~aborted /\ i \notin fresh /\ links[i] > 0
      /\ links' = [links EXCEPT ![i] = @ - 1]
      /\ nlink' = [nlink EXCEPT ![i] = IF @ = 0 THEN 0 ELSE @ - 1]
      /\ tracked' \in {tracked, tracked \ {i}}
      /\ UNCHANGED <<fresh, refs, disk, aborted, pc, arg, pinned>>
  BY Zenon DEF __ext4_unlink, env
<1>2. IF nlink[i] > 1 THEN UNCHANGED <<ibitmap, ifree, orphan, dirty, maker>>
      ELSE IF refs[i] = {} THEN Evict(i)
      ELSE orphan' = orphan \cup {i} /\ UNCHANGED <<ibitmap, ifree, dirty, maker>>
  BY Zenon DEF __ext4_unlink
<1>3. nlink[i] > 0 /\ i \in ibitmap
  BY <1>1 DEF Types, NlinkAccounts, Alive
<1>4. \A u \in Threads : pc[u] \in Holding => arg[u] # i
  BY <1>1, <1>3 DEF Types, Makers
<1>5. \A j \in Inos : /\ nlink'[j] = IF j = i THEN nlink[j] - 1 ELSE nlink[j]
                      /\ links'[j] = IF j = i THEN links[j] - 1 ELSE links[j]
  BY <1>1, <1>3 DEF Types
<1>6. nlink' \in [Inos -> Nat] /\ links' \in [Inos -> Nat]
  BY <1>1, <1>3 DEF Types
<1>7. NlinkAccounts'
  BY <1>1, <1>5 DEF Types, NlinkAccounts
<1>8. CASE nlink[i] = 1 /\ refs[i] = {}
  <2>1. refs' = [refs EXCEPT ![i] = {}]
    BY <1>1, <1>8, Zenon DEF Types
  <2>2. links[i] = 1 /\ i \notin pinned
    BY <1>1, <1>8 DEF Types, NlinkAccounts
  <2>3. pc' \in [Threads -> Labels] /\ arg' \in [Threads -> Inos]
    BY <1>1, Zenon DEF Types
  <2>4. nlink'[i] = 0 /\ links'[i] = 0
    BY <1>5, <1>8, <2>2
  <2>5. Evict(i)
    BY <1>2, <1>8
  <2>. QED
    BY <1>1, <1>3, <1>4, <1>5, <1>6, <1>8, <2>1, <2>2, <2>3, <2>4, <2>5, EvictKeeps, Zenon
<1>9. CASE nlink[i] > 1 \/ refs[i] # {}
  <2>1. /\ UNCHANGED <<ibitmap, ifree, dirty, maker>>
        /\ orphan' = IF nlink[i] > 1 THEN orphan ELSE orphan \cup {i}
    BY <1>2, <1>9, Zenon
  <2>2. Types'
    BY <1>1, <1>6, <2>1, Zenon DEF Types
  <2>3. Makers'
    BY <1>1, <1>4, <1>5, <2>1, ZenonT(60) DEF Types, Makers, Holding, InMaking
  <2>4. References' /\ Tracker'
    BY <1>1, <2>1, Zenon DEF References, Tracker
  <2>5. Alive'
    BY <1>1, <1>3, <1>5, <1>9, <2>1 DEF Types, Alive
  <2>6. Counted' = Counted
    BY <1>1, <2>1, Zenon DEF Counted
  <2>7. Counts' /\ Durable'
    BY <1>1, <2>1, <2>6, Zenon DEF Counts, Durable
  <2>. QED
    BY <1>7, <2>2, <2>3, <2>4, <2>5, <2>7, Zenon
<1>. QED
  BY <1>3, <1>8, <1>9 DEF Types

-----------------------------------------------------------------------------
(* The journal *)

\* A journal abort.
LEMMA AbortKeeps == ASSUME IInv, Abort PROVE IInv'
<1>. USE DEF IInv, Abort, mem, ghosts
<1>1. Types' /\ Makers' /\ References' /\ NlinkAccounts' /\ Alive' /\ Tracker'
  BY DEF Types, Makers, References, NlinkAccounts, Alive, Tracker
<1>2. Counts' /\ Durable'
  BY Zenon DEF Counts, Durable
<1>. QED
  BY <1>1, <1>2, ZenonT(60)

\* A commit waits for every handle, so that what it writes is complete.
LEMMA CommitKeeps == ASSUME IInv, Commit PROVE IInv'
<1>. USE DEF IInv, Commit, ghosts
<1>1. Types' /\ Makers' /\ References' /\ NlinkAccounts' /\ Alive' /\ Tracker'
  BY DEF Types, Makers, References, NlinkAccounts, Alive, Tracker
<1>2. \A t \in Threads : pc[t] \notin Holding
  BY Zenon DEF Holding, InMaking, InHandle
<1>3. Counted = ibitmap /\ Counted' = Counted
  BY <1>2, Zenon DEF Counted, Pending, Holding, InMaking
<1>4. Counts'
  BY <1>3, Zenon DEF Counts
<1>5. /\ disk'.ibitmap = ibitmap /\ disk'.ifree = ifree /\ disk'.orphan = orphan
      /\ disk'.nlink = nlink /\ disk'.links = links
  BY <1>2, Zenon DEF Types, Durable, Image
<1>6. Sound(disk')
  <2>1. FreeIs(disk'.ifree, disk'.ibitmap)
    BY <1>3, <1>5, Zenon DEF Counts
  <2>2. \A i \in ibitmap : nlink[i] > 0 \/ i \in orphan
    BY <1>2, Zenon DEF Alive, Holding
  <2>3. \A i \in Inos : (nlink[i] > 0 => i \in ibitmap) /\ nlink[i] \in {links[i], links[i] + 1}
    BY DEF Types, Alive, NlinkAccounts
  <2>. QED
    BY <1>5, <2>1, <2>2, <2>3, Zenon DEF Sound, Types, Alive
<1>7. Durable'
  BY <1>5, <1>6, Zenon DEF Durable
<1>. QED
  BY <1>1, <1>4, <1>7, ZenonT(60)

\* What a crash leaves is what the last commit wrote, without the inodes that the
\* mount frees from the orphan list.
LEMMA CrashKeeps == ASSUME IInv, CrashAndMount PROVE IInv'
<1>. DEFINE dead == {i \in disk.orphan : disk.nlink[i] = 0}
<1>0. 1 \in Inos
  BY InodeAssumption DEF Inos
<1>1. Sound(disk)
  BY Zenon DEF IInv, Durable
<1>2. /\ ibitmap' = disk.ibitmap \ dead /\ ifree' = disk.ifree + Cardinality(dead)
      /\ nlink' = disk.nlink /\ links' = disk.links
      /\ orphan' = {} /\ tracked' = {} /\ fresh' = {} /\ dirty' = {}
      /\ aborted' = FALSE
      /\ refs' = [i \in Inos |-> {}]
      /\ pc' = [t \in Threads |-> "idle"]
      /\ arg' = [t \in Threads |-> 1]
      /\ pinned' = {i \in Inos : nlink'[i] > links'[i]}
      /\ maker' = [i \in Inos |-> IF i \in ibitmap' THEN IF i \in pinned' THEN "evfs" ELSE "ext4" ELSE "none"]
  BY Zenon DEF CrashAndMount
<1>3. disk' = [disk EXCEPT !.ibitmap = ibitmap', !.ifree = ifree', !.orphan = {}]
  BY Zenon DEF CrashAndMount
<1>4. FreeIs(ifree', ibitmap') /\ ifree' \in Int
  <2>1. IsFiniteSet(disk.ibitmap) /\ dead \subseteq disk.ibitmap
    BY <1>1, InosFinite, FS_Subset, Zenon DEF Sound
  <2>2. IsFiniteSet(dead) /\ disk.ibitmap \cap dead = dead
    BY <2>1, FS_Subset, Zenon
  <2>. HIDE DEF dead
  <2>3. Cardinality(disk.ibitmap \ dead) = Cardinality(disk.ibitmap) - Cardinality(dead)
    BY <2>1, <2>2, FS_Difference
  <2>4. Cardinality(dead) \in Nat /\ Cardinality(disk.ibitmap) \in Nat
    BY <2>1, <2>2, FS_CardinalityType, ZenonT(60)
  <2>. QED
    BY <1>1, <1>2, <2>3, <2>4, InodeAssumption DEF Sound, FreeIs
<1>5. \A i \in Inos : (nlink'[i] > 0 => i \in ibitmap') /\ nlink'[i] \in {links'[i], links'[i] + 1}
  BY <1>1, <1>2 DEF Sound
<1>6. \A i \in ibitmap' : nlink'[i] > 0
  BY <1>1, <1>2 DEF Sound
<1>7. ibitmap' \in SUBSET Inos /\ nlink' \in [Inos -> Nat] /\ links' \in [Inos -> Nat]
  BY <1>1, <1>2, Zenon DEF Sound
<1>. HIDE DEF dead
<1>8. Types'
  BY <1>0, <1>2, <1>4, <1>7, Zenon DEF Types, Labels
<1>9. Makers' /\ References' /\ Alive' /\ Tracker'
  BY <1>2, <1>5, <1>6, Zenon DEF Makers, References, Alive, Tracker, Holding, InMaking, OnInode
<1>10. NlinkAccounts'
  BY <1>2, <1>5, <1>7 DEF NlinkAccounts
<1>11. Counted' = ibitmap'
  BY <1>2, Zenon DEF Counted, Pending
<1>12. Counts'
  BY <1>4, <1>11, Zenon DEF Counts
<1>13. Durable'
  BY <1>1, <1>2, <1>3, <1>4, <1>5, <1>6, <1>7 DEF Durable, Sound
<1>. QED
  BY <1>8, <1>9, <1>10, <1>12, <1>13, Zenon DEF IInv

-----------------------------------------------------------------------------
(* The theorems *)

\* Every step keeps the invariant.
LEMMA StepKeeps == ASSUME IInv, NoRefusal, [Next]_vars PROVE IInv'
<1>1. ASSUME NEW t \in Threads, AllocBegin(t) \/ FreeBegin(t) \/ Step(t) PROVE IInv'
  BY Zenon, <1>1, AllocBeginKeeps, FreeBeginKeeps, AllocBitKeeps, AllocTrackKeeps, AllocQuotaKeeps,
     AllocGroupKeeps, AllocDirtyKeeps, AllocDropKeeps, AllocStopKeeps, IputHolds, FreeLockKeeps,
     FreeKeeps, FreeUnlockKeeps DEF Step
<1>2. ASSUME NEW i \in Inos, ext4_create(i) \/ __ext4_link(i) \/ \E f \in BOOLEAN : __ext4_unlink(i, f)
      PROVE  IInv'
  BY <1>2, CreateKeeps, LinkKeeps, UnlinkKeeps, Zenon
<1>3. CASE UNCHANGED vars
  <2>. USE <1>3 DEF vars, mem, env, ghosts
  <2>1. Types' /\ Makers' /\ References' /\ NlinkAccounts' /\ Alive' /\ Tracker'
    BY DEF IInv, Types, Makers, References, NlinkAccounts, Alive, Tracker
  <2>2. Counted' = Counted
    BY Zenon DEF Counted
  <2>3. Counts' /\ Durable'
    BY <2>2, Zenon DEF IInv, Counts, Durable
  <2>. QED
    BY <2>1, <2>3, ZenonT(60) DEF IInv
<1>. QED
  BY <1>1, <1>2, <1>3, AbortKeeps, CommitKeeps, CrashKeeps, Zenon DEF Next

\* The inductive invariant holds in every state.
THEOREM Invariance == ASSUME NoRefusal PROVE Spec => []IInv
<1>1. Init => IInv
  BY InitHolds, Zenon
<1>2. IInv /\ [Next]_vars => IInv'
  BY StepKeeps, Zenon
<1>. QED
  BY <1>1, <1>2, PTL DEF Spec

\* The tracker never claims an inode that is gone, which the next owner of its number
\* would inherit.
THEOREM TrackerAgrees == ASSUME NoRefusal PROVE Spec => []TrackedIsAllocated
<1>1. IInv => TrackedIsAllocated
  BY Zenon DEF IInv, Tracker, TrackedIsAllocated
<1>. QED
  BY <1>1, Invariance, PTL

\* i_nlink is what the entries and evfs_inode_alloc's own link make it.
THEOREM LinksAccounted == ASSUME NoRefusal PROVE Spec => []NlinkAccounts
<1>1. IInv => NlinkAccounts
  BY Zenon DEF IInv, Tracker
<1>. QED
  BY <1>1, Invariance, PTL

\* The group's count of free inodes is the number of clear bits whenever no call
\* of evfs_inode_alloc is between the two.
THEOREM CountsAgree == ASSUME NoRefusal PROVE Spec => []CountExact
<1>1. ASSUME IInv PROVE CountExact
  <2>1. ASSUME \A t \in Threads : pc[t] \notin InHandle \cup {"iput"} PROVE Counted = ibitmap
    BY <1>1, <2>1, Zenon DEF Counted, Pending, InHandle
  <2>. QED
    BY <1>1, <2>1, Zenon DEF IInv, Counts, FreeIs, CountExact
<1>. QED
  BY <1>1, Invariance, PTL

\* On the disk it always is: what a mount after a crash finds.
THEOREM DiskCountsAgree == ASSUME NoRefusal PROVE Spec => []DiskCountExact
<1>1. IInv => DiskCountExact
  BY Zenon DEF IInv, Durable, Sound, FreeIs, DiskCountExact
<1>. QED
  BY <1>1, Invariance, PTL

\* No bit is leaked, whichever step evfs_inode_alloc fails at: an allocated number has
\* a link, is referenced, or is being made.
THEOREM NoBitLeaked == ASSUME NoRefusal PROVE Spec => []NoLeakedBit
<1>1. IInv => NoLeakedBit
  BY Zenon DEF IInv, Alive, NoLeakedBit
<1>. QED
  BY <1>1, Invariance, PTL

\* A number with an entry on a sound image is allocated, and has as many links.
LEMMA SoundLinks ==
    ASSUME NEW d, Sound(d), NEW i \in Inos, d.links[i] > 0
    PROVE  i \in d.ibitmap /\ d.nlink[i] >= d.links[i]
<1>1. /\ d.links \in [Inos -> Nat] /\ d.nlink[i] \in {d.links[i], d.links[i] + 1}
      /\ d.nlink[i] > 0 => i \in d.ibitmap
  BY Zenon DEF Sound
<1>2. ASSUME NEW a \in Nat, NEW b \in {a, a + 1}, a > 0
      PROVE  b > 0 /\ b >= a
  BY <1>2
<1>. QED
  BY <1>1, <1>2, ZenonT(60)

\* No directory entry names a freed inode, in memory or after a crash.
THEOREM NoEntryDangles == ASSUME NoRefusal PROVE Spec => []NoDanglingEntry
<1>1. ASSUME IInv PROVE NoDanglingEntry
  <2>1. \A i \in Inos : links[i] > 0 => i \in ibitmap
    <3>1. Types /\ Alive /\ NlinkAccounts
      BY <1>1, Zenon DEF IInv
    <3>. QED
      BY <3>1 DEF Types, Alive, NlinkAccounts
  <2>2. Sound(disk)
    BY <1>1, ZenonT(60) DEF IInv, Durable
  <2>3. \A i \in Inos : disk.links[i] > 0 => i \in disk.ibitmap /\ disk.nlink[i] >= disk.links[i]
    BY <2>2, SoundLinks, Zenon
  <2>. QED
    BY <2>1, <2>3, Zenon DEF NoDanglingEntry
<1>. QED
  BY <1>1, Invariance, PTL

\* Every call has an answer.
Answers == ret \in [Threads -> Results]

\* Every step leaves the answers among those the calls give.
LEMMA AnswersKept == Answers /\ [Next]_vars => Answers'
<1>. SUFFICES ASSUME Answers, [Next]_vars PROVE Answers'
  BY Zenon
<1>. USE DEF Answers, Results
<1>1. ASSUME NEW t \in Threads, AllocBegin(t) \/ FreeBegin(t) PROVE Answers'
  BY <1>1, Zenon DEF AllocBegin, FreeBegin, Return, Answer
<1>2. ASSUME NEW t \in Threads, Step(t) PROVE Answers'
  <2>1. CASE AllocBit(t) \/ AllocTrack(t) \/ AllocQuota(t)
    BY <2>1, Zenon DEF AllocBit, AllocTrack, AllocQuota, Answer
  <2>2. CASE AllocGroup(t) \/ AllocDirty(t) \/ AllocDrop(t)
    BY <2>2, Zenon DEF AllocGroup, AllocDirty, AllocDrop, Answer
  <2>3. CASE AllocStop(t) \/ Iput(t)
    BY <2>3, Zenon DEF AllocStop, Iput, Return, Answer
  <2>4. CASE FreeLock(t) \/ Free(t) \/ FreeUnlock(t)
    BY <2>4, Zenon DEF FreeLock, Free, FreeUnlock, Answer
  <2>. QED
    BY <1>2, <2>1, <2>2, <2>3, <2>4, Zenon DEF Step
<1>3. ASSUME NEW i \in Inos, ext4_create(i) \/ __ext4_link(i) \/ \E f \in BOOLEAN : __ext4_unlink(i, f)
      PROVE  Answers'
  BY <1>3, Zenon DEF ext4_create, __ext4_link, __ext4_unlink
<1>4. CASE Commit \/ Abort \/ CrashAndMount \/ UNCHANGED vars
  BY <1>4, Zenon DEF Commit, Abort, CrashAndMount, vars
<1>. QED
  BY <1>1, <1>2, <1>3, <1>4, Zenon DEF Next

\* evfs_inode_free frees only what evfs_inode_alloc made.
THEOREM OnlyEvfsInodesFreed == ASSUME NoRefusal PROVE Spec => FreesOnlyEvfsInodes
<1>. DEFINE Frees(t) == pc[t] = "free" /\ pc'[t] = "unlock" /\ ret'[t] = "OK" => maker[arg[t]] = "evfs"
<1>1. ASSUME IInv, Answers, [Next]_vars, NEW t \in Threads PROVE Frees(t)
  <2>. SUFFICES ASSUME pc[t] = "free", pc'[t] = "unlock", ret'[t] = "OK" PROVE arg[t] \in tracked
    BY <1>1, Zenon DEF IInv, Tracker
  <2>0. pc \in [Threads -> Labels]
    BY <1>1, Zenon DEF IInv, Types
  <2>1. ASSUME NEW u \in Threads, AllocBegin(u) \/ FreeBegin(u) \/ Step(u) PROVE Free(u) /\ u = t
    <3>1. CASE AllocBegin(u) \/ FreeBegin(u)
      BY <2>0, <3>1, Zenon DEF AllocBegin, FreeBegin, Return, Goto
    <3>2. CASE AllocBit(u) \/ AllocTrack(u) \/ AllocQuota(u)
      BY <2>0, <3>2, Zenon DEF AllocBit, AllocTrack, AllocQuota, Goto
    <3>3. CASE AllocGroup(u) \/ AllocDirty(u) \/ AllocDrop(u) \/ FreeLock(u) \/ FreeUnlock(u)
      BY <2>0, <3>3, Zenon DEF AllocGroup, AllocDirty, AllocDrop, FreeLock, FreeUnlock, Goto
    <3>4. CASE AllocStop(u) \/ Iput(u)
      BY <2>0, <3>4, Zenon DEF AllocStop, Iput, Return, Goto
    <3>5. CASE Free(u)
      BY <2>0, <3>5, Zenon DEF Free, Goto
    <3>. QED
      BY <2>1, <3>1, <3>2, <3>3, <3>4, <3>5, Zenon DEF Step
  <2>2. ~ \E i \in Inos : ext4_create(i) \/ __ext4_link(i) \/ \E f \in BOOLEAN : __ext4_unlink(i, f)
    BY Zenon DEF ext4_create, __ext4_link, __ext4_unlink
  <2>3. ~(Commit \/ Abort \/ CrashAndMount \/ UNCHANGED vars)
    BY Zenon DEF Commit, Abort, CrashAndMount, vars
  <2>4. Free(t)
    BY <1>1, <2>1, <2>2, <2>3, Zenon DEF Next
  <2>. QED
    BY <1>1, <2>4, Zenon DEF Free, Answer, Answers
<1>2. IInv /\ Answers /\ [Next]_vars => [\A t \in Threads : Frees(t)]_vars
  BY <1>1, Zenon
<1>3. Init => Answers
  BY Zenon DEF Init, Answers, Results
<1>. QED
  BY <1>2, <1>3, Invariance, AnswersKept, PTL DEF Spec, FreesOnlyEvfsInodes

=============================================================================
