-------------------------- MODULE DentryOpsProofs --------------------------
(***************************************************************************)
(* Proofs about DentryOps for any tasks, inodes, names, directory size and *)
(* arguments, with and without journal aborts: every entry is covered by a *)
(* link, leads to a live inode, and no inode without links is forgotten.   *)
(***************************************************************************)
EXTENDS DentryOps, FiniteSetTheorems, TLAPS

-----------------------------------------------------------------------------
(* The inductive invariant *)

\* Where a task holds the lock of the directory, of call.ino, and a reference on
\* call.ino and on call.old.
DirLocked == {"add", "addlock", "link", "delete", "deletelock", "untrack", "unlink", "child",
              "update", "newlock", "inc", "oldlock", "dec", "set", "stop"}
InoLocked == {"link", "untrack", "unlink", "child", "inc"}
OldHeld == {"oldlock", "dec", "set"}
Updating == {"newlock", "inc"} \cup OldHeld
InoHeld == {"addlock", "link", "deletelock", "untrack", "unlink", "child"} \cup Updating

InoOrNone == Inos \cup {NoIno}
AnyName == Names \cup {".", "..", NoName}
Call == [op : {"none", "add", "delete", "update", "read"}, dir : {Dir, File}, name : AnyName,
         ino : InoOrNone, index : Nat, old : InoOrNone \cup {BadIno}]

Types ==
    /\ block \in [1 .. Slots -> [name : AnyName, ino : InoOrNone]]
    /\ nlink \in [Inos -> Int] /\ live \in SUBSET Inos /\ orphan \in SUBSET Inos
    /\ dcache \in [Names -> SUBSET InoOrNone]
    /\ refs \in [Inos -> SUBSET Threads] /\ owner \in [Inos -> SUBSET Threads]
    /\ pc \in [Threads -> Labels] /\ call \in [Threads -> Call]

\* The arguments a call goes on with.
Arguments(t) ==
    /\ pc[t] = "dir" => /\ call[t].op \in {"add", "delete", "update", "read"}
                        /\ call[t].op \in {"add", "update"} => call[t].ino \in Inos
                        /\ call[t].op = "delete" => call[t].name \in Names
    /\ pc[t] \in {"add", "update"} => call[t].ino \in Inos
    /\ pc[t] \in {"delete", "deletelock", "untrack", "unlink"} => call[t].name \in Names

\* What a call works on it holds a reference on.
Held(t) ==
    /\ pc[t] \in InoHeld => call[t].ino \in Inos /\ t \in refs[call[t].ino]
    /\ pc[t] \in OldHeld => call[t].old \in Inos /\ t \in refs[call[t].old]

\* The lock of the directory makes the calls that change it exclusive.
Locks(t) ==
    /\ pc[t] \in DirLocked => call[t].dir = Dir /\ owner[Dir] = {t}
    /\ pc[t] = "release" => owner[call[t].dir] = {t}
    /\ pc[t] \in InoLocked => call[t].ino # Dir /\ owner[call[t].ino] = {t}
    /\ pc[t] = "dec" => call[t].old # Dir /\ owner[call[t].old] = {t}

\* The entry evfs_dentry_update looked up is still the one with that index.
Current(t) ==
    pc[t] \in Updating =>
        call[t].old = IF Nth(call[t].index) = 0 THEN BadIno ELSE block[Nth(call[t].index)].ino

Task(t) == Arguments(t) /\ Held(t) /\ Locks(t) /\ Current(t)
Tasks == \A t \in Threads : Task(t)

\* What is referenced is allocated.
HeldIsLive == \A i \in Inos : refs[i] # {} => i \in live

\* A task between dropping the old link of i and changing the entry, and one
\* between taking the new link of i and changing the entry.
Short(i) == \E t \in Threads : pc[t] = "set" /\ call[t].old = i
Ahead(i) == \E t \in Threads : pc[t] \in OldHeld /\ call[t].ino = i
One(b) == IF b THEN 1 ELSE 0

\* The links of an inode, its entries, and the changes on their way, exactly enough.
Covered(i) == nlink[i] + One(Short(i)) >= Cardinality(Entries(i)) + One(Ahead(i))
Cover == ~aborted => \A i \in Inos : Covered(i)

IInv == Types /\ Tasks /\ HeldIsLive /\ Cover /\ EntriesAreLive /\ NoLinklessInode

-----------------------------------------------------------------------------
(* Slots and entries *)

\* The directory has a number of slots.
LEMMA SlotsNat == Slots \in Nat
BY DentryAssumption, Zenon

\* Inode numbers are positive; the calls name known inodes.
LEMMA InosPositive == Inos \subseteq Nat \ {0} /\ Targets \subseteq Inos /\ Indexes \subseteq Nat
BY DentryAssumption, Zenon

\* First answers a member of the set or 0.
LEMMA FirstIsMember == ASSUME NEW S PROVE First(S) = 0 \/ First(S) \in S
BY Zenon DEF First

\* ext4_search_dir answers an entry in use.
LEMMA FindSlot == ASSUME NEW n, Find(n) # 0
                  PROVE Find(n) \in 1 .. Slots /\ block[Find(n)].ino # NoIno
BY FirstIsMember, Zenon DEF Find

\* ext4_find_dest_de answers a free slot.
LEMMA FindDestSlot == ASSUME FindDest # 0
                      PROVE FindDest \in 1 .. Slots /\ block[FindDest].ino = NoIno
BY FirstIsMember, Zenon DEF FindDest

\* An index leads to an entry in use.
LEMMA NthSlot == ASSUME NEW x, Nth(x) # 0
                 PROVE Nth(x) \in 1 .. Slots /\ block[Nth(x)].ino # NoIno
BY Zenon, FirstIsMember DEF Nth

\* The number of entries of an inode is a number.
LEMMA EntriesFinite == ASSUME NEW i PROVE IsFiniteSet(Entries(i)) /\ Cardinality(Entries(i)) \in Nat
<1>1. IsFiniteSet(1 .. Slots)
  BY SlotsNat, FS_Interval
<1>2. Entries(i) \subseteq 1 .. Slots
  BY Zenon DEF Entries
<1>. QED
  BY Zenon, <1>1, <1>2, FS_Subset, FS_CardinalityType

\* How the numbers of entries change when one slot does.
LEMMA OneSlotChanges ==
    ASSUME NEW k \in 1 .. Slots, NEW i,
           \A j \in 1 .. Slots : j # k => block'[j].ino = block[j].ino
    PROVE  Cardinality(Entries(i)') =
              Cardinality(Entries(i)) - One(block[k].ino = i) + One(block'[k].ino = i)
<1>0. IsFiniteSet(Entries(i)) /\ Cardinality(Entries(i)) \in Nat
  BY EntriesFinite, Zenon
<1>1. CASE block[k].ino = i /\ block'[k].ino # i
  <2>1. Entries(i)' = Entries(i) \ {k} /\ k \in Entries(i)
    BY <1>1 DEF Entries
  <2>2. Cardinality(Entries(i)') = Cardinality(Entries(i)) - 1
    BY <1>0, <2>1, FS_RemoveElement, Zenon
  <2>. QED
    BY <1>0, <1>1, <2>2 DEF One
<1>2. CASE block[k].ino # i /\ block'[k].ino = i
  <2>1. Entries(i)' = Entries(i) \cup {k} /\ k \notin Entries(i)
    BY <1>2, Zenon DEF Entries
  <2>2. Cardinality(Entries(i)') = Cardinality(Entries(i)) + 1
    BY <1>0, <2>1, FS_AddElement, Zenon
  <2>. QED
    BY <1>0, <1>2, <2>2 DEF One
<1>3. CASE (block[k].ino = i) = (block'[k].ino = i)
  <2>1. Entries(i)' = Entries(i)
    BY <1>3, Zenon DEF Entries
  <2>. QED
    BY <1>0, <1>3, <2>1 DEF One
<1>. QED
  BY <1>1, <1>2, <1>3, Zenon

-----------------------------------------------------------------------------
(* One task at a time changes the directory *)

\* Two tasks never have the directory locked.
LEMMA Exclusive ==
    ASSUME Tasks, NEW t \in Threads, NEW u \in Threads, pc[t] \in DirLocked, pc[u] \in DirLocked
    PROVE  t = u
BY DEF Tasks, Task, Locks

\* What other tasks rely on stays: a step changes no lock or reference of theirs,
\* and the directory only while none of them updates it.
LEMMA Frame ==
    ASSUME Types, Tasks, NEW t \in Threads,
           \A u \in Threads : u # t => pc'[u] = pc[u] /\ call'[u] = call[u],
           \A i \in Inos : owner'[i] = owner[i] \/ owner[i] = {} \/ owner[i] = {t},
           \A i \in Inos : refs[i] \ {t} \subseteq refs'[i],
           block' = block \/ \A u \in Threads : u # t => pc[u] \notin Updating,
           Task(t)'
    PROVE  Tasks'
<1>. SUFFICES ASSUME NEW u \in Threads, u # t PROVE Task(u)'
  BY Zenon DEF Tasks
<1>0. Task(u) /\ pc'[u] = pc[u] /\ call'[u] = call[u] /\ call[u].dir \in Inos /\ Dir \in Inos
  BY Zenon DEF Tasks, Types, Call, Inos
<1>1. Arguments(u)'
  BY <1>0, Zenon DEF Task, Arguments
<1>2. Held(u)'
  BY <1>0, Zenon DEF Task, Held
<1>3. Locks(u)'
  <2>1. pc[u] \in InoLocked => call[u].ino \in Inos
    BY <1>0, Zenon DEF Task, Held, InoLocked, InoHeld, Updating
  <2>2. pc[u] = "dec" => call[u].old \in Inos
    BY <1>0, Zenon DEF Task, Held, OldHeld
  <2>. QED
    BY <1>0, <2>1, <2>2 DEF Task, Locks
<1>4. Current(u)'
  <2>1. CASE block' = block
    BY <1>0, <2>1 DEF Task, Current, Nth
  <2>2. CASE block' # block
    BY <1>0, <2>2, Zenon DEF Current
  <2>. QED
    BY <2>1, <2>2, Zenon
<1>. QED
  BY <1>1, <1>2, <1>3, <1>4, Zenon DEF Task

-----------------------------------------------------------------------------
(* Steps that take locks and references and change nothing else *)

\* The others of a step by t.
Others(t) == \A u \in Threads : u # t => pc'[u] = pc[u] /\ call'[u] = call[u]

\* The counts stay covered when no count and no entry changes and no update is
\* half done before or after.
LEMMA CoverStays ==
    ASSUME Cover, NEW t \in Threads, Others(t), UNCHANGED <<block, nlink, aborted>>,
           \/ pc[t] \notin OldHeld /\ pc'[t] \notin OldHeld
           \/ pc[t] = "oldlock" /\ pc'[t] = "dec" /\ call' = call
    PROVE  Cover'
<1>1. ASSUME NEW i \in Inos PROVE /\ Short(i)' = Short(i) /\ Ahead(i)' = Ahead(i)
                                  /\ Entries(i)' = Entries(i)
  BY Zenon DEF Short, Ahead, OldHeld, Others, Entries
<1>. QED
  BY <1>1, Zenon DEF Cover, Covered

\* A lock taken, or an own one released; a reference taken on a live inode.
LocksOwn(t) == \A i \in Inos : owner'[i] = owner[i] \/ owner[i] = {} \/ owner[i] = {t}
Takes(t) == refs' = refs \/ \E i \in live : refs' = [refs EXCEPT ![i] = @ \cup {t}]

\* The dentry cache may grow too.
LEMMA GrowStep ==
    ASSUME IInv, NEW t \in Threads, Others(t), LocksOwn(t), Takes(t),
           UNCHANGED <<block, nlink, live, orphan, aborted>>, Types', Task(t)',
           \A n \in Names : dcache[n] \subseteq dcache'[n],
           \/ pc[t] \notin OldHeld /\ pc'[t] \notin OldHeld
           \/ pc[t] = "oldlock" /\ pc'[t] = "dec" /\ call' = call
    PROVE  IInv'
<1>. USE DEF IInv
<1>1. \A i \in Inos : refs[i] \subseteq refs'[i] /\ (i \notin live => refs'[i] = refs[i])
  BY Zenon DEF Types, Takes
<1>2. Tasks'
  BY <1>1, Frame, Zenon DEF Others, LocksOwn
<1>3. Cover'
  BY CoverStays, Zenon
<1>4. HeldIsLive'
  BY <1>1, Zenon DEF HeldIsLive
<1>5. EntriesAreLive'
  BY Zenon DEF EntriesAreLive
<1>6. NoLinklessInode'
  BY <1>1 DEF Types, NoLinklessInode, Cached
<1>. QED
  BY <1>2, <1>3, <1>4, <1>5, <1>6, Zenon

\* And a step that leaves it alone.
LEMMA QuietStep ==
    ASSUME IInv, NEW t \in Threads, Others(t), LocksOwn(t), Takes(t),
           UNCHANGED <<block, nlink, live, orphan, dcache, aborted>>, Types', Task(t)',
           \/ pc[t] \notin OldHeld /\ pc'[t] \notin OldHeld
           \/ pc[t] = "oldlock" /\ pc'[t] = "dec" /\ call' = call
    PROVE  IInv'
BY GrowStep, Zenon

\* Lock and Unlock by t.
LEMMA LockOwn ==
    ASSUME Types, NEW t \in Threads, NEW i \in Inos, Lock(t, i)
    PROVE  /\ owner' \in [Inos -> SUBSET Threads] /\ LocksOwn(t)
           /\ \A j \in Inos : owner'[j] = IF j = i THEN {t} ELSE owner[j]
           /\ owner[i] = {}
BY Zenon DEF Types, Lock, LocksOwn

\* Unlock by t.
LEMMA UnlockOwn ==
    ASSUME Types, NEW t \in Threads, NEW i \in Inos, owner[i] = {t}, Unlock(i)
    PROVE  /\ owner' \in [Inos -> SUBSET Threads] /\ LocksOwn(t)
           /\ \A j \in Inos : owner'[j] = IF j = i THEN {} ELSE owner[j]
BY Zenon DEF Types, Unlock, LocksOwn

\* Get by t of an inode ext4_iget accepts.
LEMMA GetTakes ==
    ASSUME Types, NEW t \in Threads, NEW i \in Inos, i \in live, Get(t, i)
    PROVE  /\ refs' \in [Inos -> SUBSET Threads] /\ Takes(t) /\ t \in refs'[i]
           /\ \A j \in Inos : refs[j] \subseteq refs'[j]
BY Zenon DEF Types, Get, Takes

\* A step to another label leaves the other tasks where they are.
LEMMA GotoLeaves ==
    ASSUME Types, NEW t \in Threads, NEW l \in Labels, Goto(t, l)
    PROVE  /\ pc' \in [Threads -> Labels] /\ pc'[t] = l
           /\ \A u \in Threads : u # t => pc'[u] = pc[u]
BY Zenon DEF Types, Goto

\* The arguments of a call are of their kinds.
LEMMA RequestTyped ==
    ASSUME NEW o \in {"none", "add", "delete", "update", "read"}, NEW d \in {Dir, File},
           NEW n \in AnyName, NEW i \in InoOrNone, NEW x \in Nat
    PROVE  /\ Request(o, d, n, i, x) \in Call
           /\ Request(o, d, n, i, x).op = o /\ Request(o, d, n, i, x).name = n
           /\ Request(o, d, n, i, x).ino = i
BY Zenon DEF Request, Call, InoOrNone

\* What each ioctl brings.
LEMMA CallsTyped ==
    ASSUME NEW c \in Adds \cup Deletes \cup Updates \cup Reads
    PROVE  /\ c \in Call /\ c.op \in {"add", "delete", "update", "read"}
           /\ c.op \in {"add", "update"} => c.ino \in Inos
           /\ c.op = "delete" => c.name \in Names
<1>2. Names \cup {NoName} \subseteq AnyName /\ Inos \cup {NoIno} \subseteq InoOrNone
  BY Zenon DEF AnyName, InoOrNone
<1>3. ASSUME NEW d \in {Dir, File}, NEW n \in Names, NEW i \in Targets, c = Request("add", d, n, i, 0)
      PROVE  c \in Call /\ c.op = "add" /\ c.ino \in Inos
  BY <1>2, <1>3, InosPositive, Zenon DEF Request, Call
<1>4. ASSUME NEW d \in {Dir, File}, NEW n \in Names, c = Request("delete", d, n, NoIno, 0)
      PROVE  c \in Call /\ c.op = "delete" /\ c.name \in Names
  BY <1>2, <1>4, Zenon DEF Request, Call
<1>5. ASSUME NEW d \in {Dir, File}, NEW x \in Indexes, NEW i \in Targets, c = Request("update", d, NoName, i, x)
      PROVE  c \in Call /\ c.op = "update" /\ c.ino \in Inos
  BY <1>2, <1>5, InosPositive, Zenon DEF Request, Call
<1>6. ASSUME NEW d \in {Dir, File}, c = Request("read", d, NoName, NoIno, 0)
      PROVE  c \in Call /\ c.op = "read"
  BY <1>2, <1>6, Zenon DEF Request, Call
<1>7. CASE c \in Adds
  <2>1. PICK d \in {Dir, File}, n \in Names, i \in Targets : c = Request("add", d, n, i, 0)
    BY <1>7 DEF Adds
  <2>. QED  BY <2>1, <1>3, Zenon
<1>8. CASE c \in Deletes
  <2>1. PICK d \in {Dir, File}, n \in Names : c = Request("delete", d, n, NoIno, 0)
    BY <1>8 DEF Deletes
  <2>. QED  BY <2>1, <1>4, Zenon
<1>9. CASE c \in Updates
  <2>1. PICK d \in {Dir, File}, i \in Targets, x \in Indexes : c = Request("update", d, NoName, i, x)
    BY <1>9 DEF Updates
  <2>. QED  BY <2>1, <1>5, Zenon
<1>10. CASE c \in Reads
  <2>1. PICK d \in {Dir, File} : c = Request("read", d, NoName, NoIno, 0)
    BY <1>10, Zenon DEF Reads
  <2>. QED  BY <2>1, <1>6, Zenon
<1>. QED
  BY <1>7, <1>8, <1>9, <1>10, Zenon

\* The directory and the file are inodes; neither special number is.
LEMMA DirIsInode == Dir \in Inos /\ File \in Inos /\ \A i \in Inos : i # NoIno /\ i # BadIno
BY InosPositive DEF Inos, NoIno, BadIno

\* The arguments and ext4_iget of the directory.
LEMMA BeginKeeps == ASSUME IInv, NEW t \in Threads, Begin(t) PROVE IInv'
<1>. USE DEF IInv
<1>1. PICK c \in Adds \cup Deletes \cup Updates \cup Reads : CanGet(c.dir) /\ call' = [call EXCEPT ![t] = c] /\ Get(t, c.dir)
  BY Zenon DEF Begin
<1>2. /\ pc[t] = "idle" /\ Goto(t, "dir") /\ "dir" \in Labels
      /\ UNCHANGED <<block, nlink, live, orphan, dcache, owner, aborted>>
  BY Zenon DEF Begin, fs, Labels
<1>3. c.dir \in Inos /\ c.dir \in live
  BY <1>1, CallsTyped, DirIsInode, Zenon DEF Call, CanGet
<1>4. Types' /\ Takes(t)
  BY <1>1, <1>2, <1>3, CallsTyped, GetTakes, GotoLeaves, Zenon DEF Types
<1>5. Others(t) /\ pc'[t] = "dir" /\ call'[t] = c
  BY <1>1, <1>2, GotoLeaves, Zenon DEF Types, Others
<1>6. Task(t)'
  BY <1>5, CallsTyped, Zenon DEF Task, Arguments, Held, Locks, Current, DirLocked, InoLocked, InoHeld, Updating,
                          OldHeld
<1>. QED
  BY <1>2, <1>4, <1>5, <1>6, QuietStep, Zenon DEF OldHeld, LocksOwn

\* A call that goes on with the entry it looked up.
LEMMA CurrentStays ==
    ASSUME NEW t \in Threads, Current(t), block' = block, call'[t] = call[t],
           pc'[t] \in Updating => pc[t] \in Updating
    PROVE  Current(t)'
BY Zenon DEF Current, Nth

\* What the invariant says of one task.
LEMMA TaskFacts ==
    ASSUME IInv, NEW t \in Threads
    PROVE  /\ Arguments(t) /\ Held(t) /\ Locks(t) /\ Current(t)
           /\ call[t] \in Call /\ call[t].dir \in Inos /\ Dir \in Inos
           /\ call[t].op \in {"none", "add", "delete", "update", "read"}
           /\ call[t].ino \in InoOrNone
BY DirIsInode, Zenon DEF IInv, Tasks, Task, Types, Call

\* inode_lock of the directory.
LEMMA LockDirKeeps == ASSUME IInv, NEW t \in Threads, LockDir(t) PROVE IInv'
<1>. USE DEF IInv
<1>0. /\ pc[t] = "dir" /\ UNCHANGED <<block, nlink, live, orphan, dcache, refs, aborted, call>>
  BY Zenon DEF LockDir, fs
<1>1. CASE call[t].op = "read"
  <2>1. Goto(t, "leave") /\ UNCHANGED owner /\ "leave" \in Labels
    BY <1>1, Zenon DEF LockDir, Labels
  <2>2. Types' /\ Others(t) /\ pc'[t] = "leave" /\ LocksOwn(t) /\ Takes(t)
    BY <1>0, <2>1, GotoLeaves, Zenon DEF Types, Others, LocksOwn, Takes
  <2>3. Task(t)'
    BY <2>2, Zenon DEF Task, Arguments, Held, Locks, Current, DirLocked, InoLocked, InoHeld, Updating, OldHeld
  <2>. QED
    BY <1>0, <2>2, <2>3, QuietStep, Zenon DEF OldHeld
<1>2. CASE call[t].op # "read"
  <2>. DEFINE l == IF call[t].dir # Dir THEN "release" ELSE call[t].op
  <2>1. Goto(t, l) /\ Lock(t, call[t].dir)
    BY <1>2, Zenon DEF LockDir
  <2>2. call[t].op \in {"add", "delete", "update"}
    BY <1>0, <1>2, TaskFacts, Zenon DEF Arguments
  <2>3. l \in Labels /\ l \in {"release", "add", "delete", "update"}
    BY <2>2, Zenon DEF Labels
  <2>. HIDE DEF l
  <2>4. Types' /\ Others(t) /\ pc'[t] = l /\ LocksOwn(t) /\ Takes(t) /\ owner'[call[t].dir] = {t}
    BY Zenon, <1>0, <2>1, <2>3, GotoLeaves, LockOwn, TaskFacts DEF Types, Others, Takes
  <2>5. l = "release" \/ (l = call[t].op /\ call[t].dir = Dir)
    BY Zenon DEF l
  <2>6. Task(t)'
    BY <1>0, <2>3, <2>4, <2>5, TaskFacts, Zenon
       DEF Task, Arguments, Held, Locks, Current, DirLocked, InoLocked, InoHeld, Updating, OldHeld
  <2>. QED
    BY <1>0, <2>3, <2>4, <2>6, QuietStep, Zenon DEF OldHeld
<1>. QED
  BY <1>1, <1>2, Zenon

\* inode_unlock of the directory.
LEMMA ReleaseKeeps == ASSUME IInv, NEW t \in Threads, Release(t) PROVE IInv'
<1>. USE DEF IInv
<1>0. /\ pc[t] = "release" /\ UNCHANGED <<block, nlink, live, orphan, dcache, refs, aborted, call>>
      /\ Goto(t, "leave") /\ "leave" \in Labels /\ Unlock(call[t].dir)
  BY Zenon DEF Release, fs, Labels
<1>1. owner[call[t].dir] = {t}
  BY <1>0, TaskFacts, Zenon DEF Locks
<1>2. Types' /\ Others(t) /\ pc'[t] = "leave" /\ LocksOwn(t) /\ Takes(t)
  BY SMTT(30), <1>0, <1>1, GotoLeaves, UnlockOwn, TaskFacts DEF Types, Others, Takes
<1>3. Task(t)'
  BY <1>2, Zenon DEF Task, Arguments, Held, Locks, Current, DirLocked, InoLocked, InoHeld, Updating, OldHeld
<1>. QED
  BY Zenon, <1>0, <1>2, <1>3, QuietStep DEF OldHeld

\* d_find_any_alias and ext4_iget of the child.
LEMMA AddGetKeeps == ASSUME IInv, NEW t \in Threads, AddGet(t) PROVE IInv'
<1>. USE DEF IInv
<1>0. /\ pc[t] = "add" /\ UNCHANGED <<block, nlink, live, orphan, dcache, owner, aborted, call>>
  BY Zenon DEF AddGet, fs
<1>1. call[t].ino \in Inos /\ call[t].dir = Dir /\ owner[Dir] = {t}
  BY <1>0, TaskFacts, Zenon DEF Arguments, Locks, DirLocked
<1>2. CASE Goto(t, "release") /\ UNCHANGED refs
  <2>1. Types' /\ Others(t) /\ pc'[t] = "release" /\ LocksOwn(t) /\ Takes(t)
    BY <1>0, <1>2, GotoLeaves, Zenon DEF Types, Others, LocksOwn, Takes, Labels
  <2>2. Task(t)'
    BY <1>0, <1>1, <2>1, Zenon DEF Task, Arguments, Held, Locks, Current, DirLocked, InoLocked, InoHeld, Updating, OldHeld
  <2>. QED
    BY <1>0, <2>1, <2>2, QuietStep, Zenon DEF OldHeld
<1>3. CASE CanGet(call[t].ino) /\ Get(t, call[t].ino) /\ Goto(t, "addlock")
  <2>0. call[t].ino \in live
    BY <1>3, Zenon DEF CanGet
  <2>1. Types' /\ Others(t) /\ pc'[t] = "addlock" /\ LocksOwn(t) /\ Takes(t) /\ t \in refs'[call[t].ino]
    BY <1>0, <1>1, <1>3, <2>0, GotoLeaves, GetTakes, Zenon DEF Types, Others, LocksOwn, Labels
  <2>2. Task(t)'
    BY <1>0, <1>1, <2>1, Zenon DEF Task, Arguments, Held, Locks, Current, DirLocked, InoLocked, InoHeld, Updating, OldHeld
  <2>. QED
    BY <1>0, <2>1, <2>2, QuietStep, Zenon DEF OldHeld
<1>. QED
  BY <1>2, <1>3, Zenon DEF AddGet

\* inode_lock of the child, which cannot be the directory: that is locked.
LEMMA LockChildKeeps ==
    ASSUME IInv, NEW t \in Threads, NEW l \in Labels, Goto(t, l), Lock(t, call[t].ino),
           \/ pc[t] = "addlock" /\ l = "link"
           \/ pc[t] = "deletelock" /\ l = "untrack"
           \/ pc[t] = "newlock" /\ l = "inc",
           UNCHANGED <<block, nlink, live, orphan, dcache, refs, aborted, call>>
    PROVE  IInv'
<1>. USE DEF IInv
<1>1. /\ call[t].ino \in Inos /\ t \in refs[call[t].ino]
      /\ call[t].dir = Dir /\ owner[Dir] = {t}
  BY TaskFacts, Zenon DEF Held, Locks, InoHeld, DirLocked, Updating
<1>2. call[t].ino # Dir
  BY <1>1, Zenon DEF Lock
<1>3. /\ Types' /\ Others(t) /\ pc'[t] = l /\ LocksOwn(t) /\ Takes(t)
      /\ owner'[call[t].ino] = {t} /\ owner'[Dir] = {t}
  <2>1. /\ owner' \in [Inos -> SUBSET Threads] /\ LocksOwn(t)
        /\ owner'[call[t].ino] = {t} /\ owner'[Dir] = {t}
    BY <1>1, <1>2, DirIsInode, Zenon DEF Types, Lock, LocksOwn
  <2>. QED
    BY <2>1, GotoLeaves, Zenon DEF Types, Others, Takes
<1>4. Current(t)'
  BY <1>3, TaskFacts, CurrentStays, Zenon DEF Updating, OldHeld
<1>5. Task(t)'
  BY Zenon, <1>1, <1>2, <1>3, <1>4, TaskFacts
     DEF Task, Arguments, Held, Locks, DirLocked, InoLocked, InoHeld, Updating, OldHeld
<1>. QED
  BY Zenon, <1>3, <1>5, QuietStep DEF OldHeld

\* inode_lock of the child in evfs_dentry_add.
LEMMA AddLockKeeps == ASSUME IInv, NEW t \in Threads, AddLock(t) PROVE IInv'
BY LockChildKeeps, Zenon DEF AddLock, fs, Labels

\* inode_lock of the child in evfs_dentry_delete.
LEMMA DeleteLockKeeps == ASSUME IInv, NEW t \in Threads, DeleteLock(t) PROVE IInv'
BY LockChildKeeps, Zenon DEF DeleteLock, fs, Labels

\* inode_lock of the new inode in evfs_dentry_update.
LEMMA UpdateLockNewKeeps == ASSUME IInv, NEW t \in Threads, UpdateLockNew(t) PROVE IInv'
BY LockChildKeeps, Zenon DEF UpdateLockNew, fs, Labels

\* inode_lock of the old inode in evfs_dentry_update.
LEMMA UpdateLockOldKeeps == ASSUME IInv, NEW t \in Threads, UpdateLockOld(t) PROVE IInv'
<1>. USE DEF IInv
<1>0. /\ pc[t] = "oldlock" /\ UNCHANGED <<block, nlink, live, orphan, dcache, refs, aborted, call>>
      /\ Goto(t, "dec") /\ "dec" \in Labels /\ Lock(t, call[t].old)
  BY Zenon DEF UpdateLockOld, fs, Labels
<1>1. /\ call[t].ino \in Inos /\ t \in refs[call[t].ino]
      /\ call[t].old \in Inos /\ t \in refs[call[t].old]
      /\ call[t].dir = Dir /\ owner[Dir] = {t}
  BY <1>0, TaskFacts, Zenon DEF Held, Locks, InoHeld, DirLocked, Updating, OldHeld
<1>2. call[t].old # Dir
  BY <1>0, <1>1, Zenon DEF Lock
<1>3. /\ Types' /\ Others(t) /\ pc'[t] = "dec" /\ LocksOwn(t) /\ Takes(t)
      /\ owner'[call[t].old] = {t} /\ owner'[Dir] = {t}
  <2>1. /\ owner' \in [Inos -> SUBSET Threads] /\ LocksOwn(t)
        /\ owner'[call[t].old] = {t} /\ owner'[Dir] = {t}
    BY <1>0, <1>1, <1>2, DirIsInode, Zenon DEF Types, Lock, LocksOwn
  <2>. QED
    BY SMTT(30), <1>0, <2>1, GotoLeaves DEF Types, Others, Takes
<1>4. Current(t)'
  BY <1>0, <1>3, TaskFacts, CurrentStays, Zenon DEF Updating, OldHeld
<1>5. Task(t)'
  BY Zenon, <1>0, <1>1, <1>2, <1>3, <1>4, TaskFacts
     DEF Task, Arguments, Held, Locks, DirLocked, InoLocked, InoHeld, Updating, OldHeld
<1>. QED
  BY <1>0, <1>3, <1>5, QuietStep, Zenon DEF OldHeld

\* The search of evfs_dentry_delete.
LEMMA DeleteFindKeeps == ASSUME IInv, NEW t \in Threads, DeleteFind(t) PROVE IInv'
<1>. USE DEF IInv
<1>0. /\ pc[t] = "delete" /\ UNCHANGED <<block, nlink, live, orphan, dcache, owner, aborted>>
  BY Zenon DEF DeleteFind, fs
<1>1. call[t].name \in Names /\ call[t].dir = Dir /\ owner[Dir] = {t}
  BY <1>0, TaskFacts, Zenon DEF Arguments, Locks, DirLocked
<1>2. ASSUME NEW l \in {"release", "leave"}, Goto(t, l), UNCHANGED <<refs, call>>
      PROVE  IInv'
  <2>1. Types' /\ Others(t) /\ pc'[t] = l /\ LocksOwn(t) /\ Takes(t)
    BY <1>0, <1>2, GotoLeaves, Zenon DEF Types, Others, LocksOwn, Takes, Labels
  <2>2. Task(t)'
    BY <1>0, <1>1, <1>2, <2>1, Zenon
       DEF Task, Arguments, Held, Locks, Current, DirLocked, InoLocked, InoHeld, Updating, OldHeld
  <2>. QED
    BY <1>0, <2>1, <2>2, QuietStep, Zenon DEF OldHeld
<1>. DEFINE k == Find(call[t].name)
            i == block[k].ino
<1>3. ASSUME k # 0, CanGet(i), Get(t, i), call' = [call EXCEPT ![t].ino = i], Goto(t, "deletelock")
      PROVE  IInv'
  <2>. HIDE DEF k
  <2>0. i \in live /\ i \in Inos /\ i \in InoOrNone
    BY <1>3, Zenon DEF CanGet, Types, InoOrNone
  <2>. HIDE DEF i
  <2>1. call' \in [Threads -> Call]
    BY Zenon, <1>3, <2>0 DEF Types, Call
  <2>2. /\ call'[t].ino = i /\ call'[t].dir = call[t].dir /\ call'[t].name = call[t].name
        /\ \A u \in Threads : u # t => call'[u] = call[u]
    BY <1>3, Zenon DEF Types, Call
  <2>3. Types' /\ Others(t) /\ pc'[t] = "deletelock" /\ LocksOwn(t) /\ Takes(t) /\ t \in refs'[i]
    BY <1>0, <1>3, <2>0, <2>1, <2>2, GotoLeaves, GetTakes DEF Types, Others, LocksOwn, Labels
  <2>4. Task(t)'
    BY Zenon, <1>0, <1>1, <2>0, <2>2, <2>3
       DEF Task, Arguments, Held, Locks, Current, DirLocked, InoLocked, InoHeld, Updating, OldHeld
  <2>. QED
    BY Zenon, <1>0, <2>3, <2>4, QuietStep DEF OldHeld
<1>. QED
  BY <1>2, <1>3, Zenon DEF DeleteFind

\* The search of evfs_dentry_update.
LEMMA UpdateFindKeeps == ASSUME IInv, NEW t \in Threads, UpdateFind(t) PROVE IInv'
<1>. USE DEF IInv
<1>0. /\ pc[t] = "update" /\ UNCHANGED <<block, nlink, live, orphan, dcache, owner, aborted>>
  BY Zenon DEF UpdateFind, fs
<1>1. call[t].ino \in Inos /\ call[t].dir = Dir /\ owner[Dir] = {t}
  BY <1>0, TaskFacts, Zenon DEF Arguments, Locks, DirLocked
<1>2. ASSUME NEW l \in {"release", "stop"}, Goto(t, l), UNCHANGED <<refs, call>>
      PROVE  IInv'
  <2>1. Types' /\ Others(t) /\ pc'[t] = l /\ LocksOwn(t) /\ Takes(t)
    BY <1>0, <1>2, GotoLeaves, Zenon DEF Types, Others, LocksOwn, Takes, Labels
  <2>2. Task(t)'
    BY <1>0, <1>1, <1>2, <2>1, Zenon
       DEF Task, Arguments, Held, Locks, Current, DirLocked, InoLocked, InoHeld, Updating, OldHeld
  <2>. QED
    BY Zenon, <1>0, <2>1, <2>2, QuietStep DEF OldHeld
<1>. DEFINE k == Nth(call[t].index)
            o == IF k = 0 THEN BadIno ELSE block[k].ino
<1>3. ASSUME CanGet(call[t].ino), Get(t, call[t].ino), call' = [call EXCEPT ![t].old = o],
             Goto(t, "newlock")
      PROVE  IInv'
  <2>0. call[t].ino \in live
    BY <1>3, Zenon DEF CanGet
  <2>1. o \in InoOrNone \cup {BadIno}
    BY NthSlot, Zenon DEF Types
  <2>2. call[t].index \in Nat /\ Nth(call[t].index)' = k
    BY <1>0, <1>3, Zenon DEF Types, Call, Nth
  <2>. HIDE DEF o, k
  <2>3. call' \in [Threads -> Call]
    BY Zenon, <1>3, <2>1 DEF Types, Call
  <2>4. /\ call'[t].ino = call[t].ino /\ call'[t].dir = call[t].dir /\ call'[t].old = o
        /\ call'[t].index = call[t].index /\ \A u \in Threads : u # t => call'[u] = call[u]
    BY <1>3, Zenon DEF Types, Call
  <2>5. /\ Types' /\ Others(t) /\ pc'[t] = "newlock" /\ LocksOwn(t) /\ Takes(t)
        /\ t \in refs'[call[t].ino]
    BY <1>0, <1>1, <1>3, <2>0, <2>3, <2>4, GotoLeaves, GetTakes DEF Types, Others, LocksOwn, Labels
  <2>6. Current(t)'
    BY <1>0, <2>2, <2>4, Zenon DEF Current, o, k, Nth
  <2>7. Task(t)'
    BY <1>0, <1>1, <2>4, <2>5, <2>6, Zenon
       DEF Task, Arguments, Held, Locks, DirLocked, InoLocked, InoHeld, Updating, OldHeld
  <2>. QED
    BY <1>0, <2>5, <2>7, QuietStep, Zenon DEF OldHeld
<1>. QED
  BY <1>2, <1>3, Zenon DEF UpdateFind

-----------------------------------------------------------------------------
(* Steps that put references *)

\* An inode without links that no update refers to is in no entry.
LEMMA DeadHasNoEntry ==
    ASSUME IInv, NEW i \in Inos, ~aborted, nlink[i] = 0, \A u \in refs[i] : pc[u] \notin OldHeld
    PROVE  Entries(i) = {}
<1>. USE DEF IInv
<1>1. ~Short(i)
  <2>. SUFFICES ASSUME NEW u \in Threads, pc[u] = "set", call[u].old = i PROVE FALSE
    BY Zenon DEF Short
  <2>1. u \in refs[i]
    BY Zenon DEF Tasks, Task, Held, OldHeld
  <2>. QED
    BY <2>1, Zenon DEF OldHeld
<1>2. Covered(i)
  BY Zenon DEF Cover
<1>3. Cardinality(Entries(i)) = 0
  BY <1>1, <1>2, EntriesFinite DEF Covered, One
<1>. QED
  BY <1>3, EntriesFinite, FS_EmptySet, Zenon

\* iput frees only what nothing names.
LEMMA PutStep ==
    ASSUME IInv, NEW t \in Threads, NEW S \in SUBSET Inos, Put(t, S), Others(t), LocksOwn(t),
           UNCHANGED <<block, nlink, dcache, aborted>>, Types', Task(t)',
           pc[t] \notin OldHeld, pc'[t] \notin OldHeld
    PROVE  IInv'
<1>. USE DEF IInv
<1>. DEFINE dead == {i \in S : nlink'[i] = 0 /\ refs[i] \subseteq {t}
                               /\ (\A n \in Names : i \notin dcache'[n]) /\ ~aborted}
<1>1. /\ \A i \in Inos : refs'[i] = IF i \in S THEN refs[i] \ {t} ELSE refs[i]
      /\ live' = live \ dead /\ orphan' = orphan \ dead
  BY Zenon DEF Put
<1>2. ASSUME NEW i \in dead PROVE i \in Inos /\ refs'[i] = {} /\ Entries(i) = {}
  BY Zenon, <1>1, DeadHasNoEntry
<1>3. ASSUME NEW i \in Inos, i \notin dead, nlink[i] = 0, ~aborted, refs[i] # {} \/ Cached(i)
      PROVE  refs'[i] # {} \/ Cached(i)'
  BY Zenon, <1>1, <1>3 DEF Cached
<1>. HIDE DEF dead
<1>4. Tasks'
  BY Zenon, <1>1, Frame DEF Others, LocksOwn
<1>5. Cover'
  BY CoverStays, Zenon
<1>6. HeldIsLive'
  BY Zenon, <1>1, <1>2 DEF HeldIsLive
<1>7. EntriesAreLive'
  <2>. SUFFICES ASSUME NEW k \in 1 .. Slots, block[k].ino # NoIno PROVE block[k].ino \in live'
    BY Zenon DEF EntriesAreLive
  <2>1. block[k].ino \in live /\ k \in Entries(block[k].ino)
    BY Zenon DEF EntriesAreLive, Entries
  <2>. QED
    BY <1>1, <1>2, <2>1, Zenon
<1>8. NoLinklessInode'
  BY <1>1, <1>3, Zenon DEF NoLinklessInode, Types
<1>. QED
  BY <1>4, <1>5, <1>6, <1>7, <1>8, Zenon

\* iput of the directory, and the return.
LEMMA LeaveKeeps == ASSUME IInv, NEW t \in Threads, Leave(t) PROVE IInv'
<1>. USE DEF IInv
<1>0. /\ pc[t] = "leave" /\ UNCHANGED <<block, nlink, dcache, owner, aborted>>
      /\ Put(t, {call[t].dir}) /\ Goto(t, "idle") /\ "idle" \in Labels
      /\ call' = [call EXCEPT ![t] = NoCall]
  BY Zenon DEF Leave, Labels
<1>1. {call[t].dir} \in SUBSET Inos
  BY TaskFacts, Zenon
<1>2. refs' \in [Inos -> SUBSET Threads] /\ live' \in SUBSET Inos /\ orphan' \in SUBSET Inos
  BY <1>0, Zenon DEF Put, Types
<1>3. NoCall \in Call
  BY Zenon, RequestTyped DEF NoCall, AnyName, InoOrNone
<1>4. Types' /\ Others(t) /\ LocksOwn(t) /\ pc'[t] = "idle"
  BY <1>0, <1>2, <1>3, GotoLeaves, Zenon DEF Types, Others, LocksOwn
<1>5. Task(t)'
  BY Zenon, <1>4 DEF Task, Arguments, Held, Locks, Current, DirLocked, InoLocked, InoHeld, Updating, OldHeld
<1>. QED
  BY <1>0, <1>1, <1>4, <1>5, PutStep, Zenon DEF OldHeld

\* Unlock and iput of the child.
LEMMA ReleaseChildKeeps == ASSUME IInv, NEW t \in Threads, ReleaseChild(t) PROVE IInv'
<1>. USE DEF IInv
<1>. DEFINE l == IF call[t].op = "add" THEN "release" ELSE "leave"
<1>0. /\ pc[t] = "child" /\ UNCHANGED <<block, nlink, dcache, aborted, call>>
      /\ Put(t, {call[t].ino}) /\ Goto(t, l) /\ Unlock(call[t].ino)
  BY Zenon DEF ReleaseChild
<1>1. l \in Labels /\ l \in {"release", "leave"}
  BY Zenon DEF Labels
<1>. HIDE DEF l
<1>2. /\ {call[t].ino} \in SUBSET Inos /\ call[t].ino # Dir /\ owner[call[t].ino] = {t}
      /\ call[t].dir = Dir /\ owner[Dir] = {t}
  BY <1>0, TaskFacts DEF Held, Locks, InoHeld, InoLocked, DirLocked
<1>3. refs' \in [Inos -> SUBSET Threads] /\ live' \in SUBSET Inos /\ orphan' \in SUBSET Inos
  BY <1>0, Zenon DEF Put, Types
<1>4. owner' \in [Inos -> SUBSET Threads] /\ LocksOwn(t) /\ owner'[Dir] = {t}
  BY <1>0, <1>2, DirIsInode, Zenon DEF Types, Unlock, LocksOwn
<1>5. Types' /\ Others(t) /\ pc'[t] = l
  BY <1>0, <1>1, <1>3, <1>4, GotoLeaves, Zenon DEF Types, Others
<1>6. Task(t)'
  BY <1>0, <1>1, <1>2, <1>4, <1>5, Zenon
     DEF Task, Arguments, Held, Locks, Current, DirLocked, InoLocked, InoHeld, Updating, OldHeld
<1>. QED
  BY Zenon, <1>0, <1>1, <1>2, <1>4, <1>5, <1>6, PutStep DEF OldHeld

\* ext4_journal_stop and the iputs of evfs_dentry_update.
LEMMA UpdateStopKeeps == ASSUME IInv, NEW t \in Threads, UpdateStop(t) PROVE IInv'
<1>. USE DEF IInv
<1>. DEFINE S == {i \in {call[t].ino, call[t].old} \ {call[t].dir} : i > 0 /\ t \in refs[i]}
<1>0. /\ pc[t] = "stop" /\ UNCHANGED <<block, nlink, dcache, owner, aborted, call>>
      /\ Put(t, S) /\ Goto(t, "release") /\ "release" \in Labels
  BY Zenon DEF UpdateStop, Labels
<1>1. S \in SUBSET Inos
  <2>1. call[t].ino \in Inos \cup {0} /\ call[t].old \in Inos \cup {0, -1}
    BY Zenon DEF Types, Call, InoOrNone, NoIno, BadIno
  <2>. QED
    BY <2>1
<1>. HIDE DEF S
<1>2. call[t].dir = Dir /\ owner[Dir] = {t}
  BY <1>0, TaskFacts, Zenon DEF Locks, DirLocked
<1>3. refs' \in [Inos -> SUBSET Threads] /\ live' \in SUBSET Inos /\ orphan' \in SUBSET Inos
  BY <1>0, Zenon DEF Put, Types
<1>4. Types' /\ Others(t) /\ LocksOwn(t) /\ pc'[t] = "release"
  BY <1>0, <1>3, GotoLeaves, Zenon DEF Types, Others, LocksOwn
<1>5. Task(t)'
  BY <1>0, <1>2, <1>4, Zenon
     DEF Task, Arguments, Held, Locks, Current, DirLocked, InoLocked, InoHeld, Updating, OldHeld
<1>. QED
  BY Zenon, <1>0, <1>1, <1>4, <1>5, PutStep DEF OldHeld

-----------------------------------------------------------------------------
(* Steps that change entries and counts *)

\* While t has the directory locked no other task updates it.
LEMMA Alone ==
    ASSUME IInv, NEW t \in Threads, pc[t] \in DirLocked
    PROVE  /\ \A u \in Threads : u # t => pc[u] \notin DirLocked
           /\ \A u \in Threads : u # t => pc[u] \notin Updating /\ pc[u] \notin OldHeld /\ pc[u] # "set"
<1>1. \A u \in Threads : u # t => pc[u] \notin DirLocked
  BY Exclusive, Zenon DEF IInv
<1>. QED
  BY <1>1, Zenon DEF DirLocked, Updating, OldHeld

\* Neither half of an update is then on its way, unless t is in one.
LEMMA NoneHalfDone ==
    ASSUME IInv, NEW t \in Threads, pc[t] \in DirLocked, pc[t] \notin OldHeld
    PROVE  \A i : ~Short(i) /\ ~Ahead(i)
BY Alone, Zenon DEF Short, Ahead, OldHeld

\* An inode then has a link for each of its entries.
LEMMA Counted ==
    ASSUME IInv, NEW i \in Inos, ~aborted, ~Short(i), ~Ahead(i)
    PROVE  nlink[i] \in Nat /\ nlink[i] >= Cardinality(Entries(i))
BY SMTT(30), EntriesFinite DEF IInv, Types, Cover, Covered, One

\* __evfs_inode_untrack_nolock and d_add.
LEMMA DeleteUntrackKeeps == ASSUME IInv, NEW t \in Threads, DeleteUntrack(t) PROVE IInv'
<1>. USE DEF IInv
<1>0. /\ pc[t] = "untrack" /\ UNCHANGED <<block, nlink, live, orphan, refs, owner, aborted, call>>
  BY Zenon DEF DeleteUntrack
<1>1. /\ call[t].ino \in Inos /\ t \in refs[call[t].ino] /\ call[t].name \in Names
      /\ call[t].dir = Dir /\ owner[Dir] = {t}
      /\ call[t].ino # Dir /\ owner[call[t].ino] = {t}
  BY <1>0, TaskFacts, Zenon DEF Arguments, Held, Locks, InoHeld, InoLocked, DirLocked
<1>2. PICK l \in {"child", "unlink"} : Goto(t, l)
  BY Zenon DEF DeleteUntrack
<1>3. dcache' \in [Names -> SUBSET InoOrNone] /\ \A n \in Names : dcache[n] \subseteq dcache'[n]
  <2>. DEFINE n == call[t].name  i == call[t].ino
  <2>1. dcache' = dcache \/ dcache' = [dcache EXCEPT ![n] = @ \cup {i}]
    BY Zenon DEF DeleteUntrack
  <2>2. n \in Names /\ i \in InoOrNone
    BY <1>1, Zenon DEF InoOrNone
  <2>. HIDE DEF n, i
  <2>. QED
    BY Zenon, <2>1, <2>2 DEF Types
<1>4. Types' /\ Others(t) /\ pc'[t] = l /\ LocksOwn(t) /\ Takes(t)
  BY <1>0, <1>2, <1>3, GotoLeaves, Zenon DEF Types, Others, LocksOwn, Takes, Labels
<1>5. Task(t)'
  BY <1>0, <1>1, <1>2, <1>4, Zenon
     DEF Task, Arguments, Held, Locks, Current, DirLocked, InoLocked, InoHeld, Updating, OldHeld
<1>. QED
  BY <1>0, <1>3, <1>4, <1>5, GrowStep, Zenon DEF OldHeld

\* From "link" or "unlink" to "child": nothing the task relies on changes.
LEMMA ToChild ==
    ASSUME IInv, NEW t \in Threads, pc[t] \in {"link", "unlink"}, Goto(t, "child"),
           UNCHANGED <<refs, owner, call>>
    PROVE  Others(t) /\ pc'[t] = "child" /\ pc' \in [Threads -> Labels] /\ Task(t)'
<1>. USE DEF IInv
<1>1. /\ call[t].ino \in Inos /\ t \in refs[call[t].ino]
      /\ call[t].dir = Dir /\ owner[Dir] = {t}
      /\ call[t].ino # Dir /\ owner[call[t].ino] = {t}
  BY TaskFacts, Zenon DEF Held, Locks, InoHeld, InoLocked, DirLocked
<1>2. Others(t) /\ pc'[t] = "child" /\ pc' \in [Threads -> Labels]
  BY GotoLeaves, Zenon DEF Others, Labels
<1>. QED
  BY <1>1, <1>2, Zenon
     DEF Task, Arguments, Held, Locks, Current, DirLocked, InoLocked, InoHeld, Updating, OldHeld

\* A call that gives up there changes nothing.
LEMMA ToChildOnly ==
    ASSUME IInv, NEW t \in Threads, pc[t] \in {"link", "unlink"}, Goto(t, "child"),
           UNCHANGED <<block, nlink, live, orphan, dcache, refs, owner, aborted, call>>
    PROVE  IInv'
<1>1. Types'
  BY ToChild, Zenon DEF IInv, Types
<1>. QED
  BY <1>1, ToChild, QuietStep, Zenon DEF OldHeld, LocksOwn, Takes

\* __ext4_link.
LEMMA AddLinkKeeps == ASSUME IInv, NEW t \in Threads, AddLink(t) PROVE IInv'
<1>. USE DEF IInv
<1>0. /\ pc[t] = "link" /\ Goto(t, "child") /\ UNCHANGED <<live, dcache, refs, owner, aborted, call>>
  BY Zenon DEF AddLink
<1>1. CASE UNCHANGED <<block, nlink, orphan>>
  BY <1>0, <1>1, ToChildOnly, Zenon
<1>. DEFINE i == call[t].ino  k == FindDest
<1>2. ASSUME ~aborted, k # 0,
             block' = [block EXCEPT ![k] = [name |-> call[t].name, ino |-> i]],
             nlink' = [nlink EXCEPT ![i] = @ + 1],
             orphan' = IF nlink[i] = 0 THEN orphan \ {i} ELSE orphan
      PROVE  IInv'
  <2>1. /\ i \in Inos /\ i \in live /\ call[t].name \in AnyName
        /\ pc[t] \in DirLocked /\ pc[t] \notin OldHeld
    BY <1>0, TaskFacts, Zenon DEF Held, InoHeld, HeldIsLive, Call, DirLocked, OldHeld
  <2>2. k \in 1 .. Slots /\ block[k].ino = NoIno /\ NoIno \notin Inos
    BY <1>2, FindDestSlot, DirIsInode, Zenon
  <2>3. \A j \in Inos : ~Short(j) /\ ~Ahead(j) /\ ~Short(j)' /\ ~Ahead(j)'
    BY Zenon, <1>0, <2>1, NoneHalfDone, ToChild, Alone DEF Short, Ahead, OldHeld, Others
  <2>. HIDE DEF i, k
  <2>4. [name |-> call[t].name, ino |-> i] \in [name : AnyName, ino : InoOrNone]
    BY <2>1, Zenon DEF InoOrNone
  <2>5. /\ block' \in [1 .. Slots -> [name : AnyName, ino : InoOrNone]]
        /\ block'[k].ino = i /\ \A j \in 1 .. Slots : j # k => block'[j].ino = block[j].ino
    BY <1>2, <2>2, <2>4, Zenon DEF Types
  <2>6. \A j \in Inos : nlink'[j] = nlink[j] + One(j = i)
    BY SMTT(30), <1>2, <2>1 DEF Types, One
  <2>7. Types'
    BY SMTT(30), <1>0, <1>2, <2>1, <2>5, ToChild DEF Types
  <2>8. Tasks'
    BY Zenon, <1>0, <2>1, Alone, ToChild, Frame DEF Others
  <2>9. ASSUME NEW j \in Inos PROVE Covered(j)' /\ nlink'[j] >= One(j = i)
    <3>1. nlink[j] \in Nat /\ nlink[j] >= Cardinality(Entries(j))
      BY <1>2, <2>3, Counted, Zenon
    <3>2. Cardinality(Entries(j)') = Cardinality(Entries(j)) + One(j = i)
      BY <2>2, <2>5, OneSlotChanges, EntriesFinite DEF One
    <3>3. Cardinality(Entries(j)) \in Nat
      BY EntriesFinite, Zenon
    <3>4. One(j = i) \in {0, 1} /\ One(Short(j)') = 0 /\ One(Ahead(j)') = 0
      BY <2>3, Zenon DEF One
    <3>5. nlink'[j] >= Cardinality(Entries(j)') /\ nlink'[j] >= One(j = i)
      BY SMTT(30), <2>6, <3>1, <3>2, <3>3, <3>4
    <3>6. nlink'[j] \in Int /\ Cardinality(Entries(j)') \in Int
      BY SMTT(30), <2>6, <3>1, <3>2, <3>3, <3>4
    <3>. QED
      BY SMTT(30), <3>4, <3>5, <3>6 DEF Covered
  <2>10. EntriesAreLive'
    BY <1>0, <2>1, <2>2, <2>5, Zenon DEF EntriesAreLive
  <2>11. NoLinklessInode'
    <3>. SUFFICES ASSUME NEW j \in live, nlink'[j] = 0
                  PROVE  j \in orphan' /\ (refs'[j] # {} \/ Cached(j)')
      BY <1>0, Zenon DEF NoLinklessInode
    <3>1. j \in Inos /\ j # i
      BY <2>9 DEF Types, One
    <3>2. nlink[j] = 0
      BY <2>6, <3>1 DEF One, Types
    <3>. QED
      BY <1>0, <1>2, <3>1, <3>2, Zenon DEF NoLinklessInode, Cached
  <2>. QED
    BY <1>0, <2>7, <2>8, <2>9, <2>10, <2>11, Zenon DEF Cover, HeldIsLive
<1>. QED
  BY <1>1, <1>2, Zenon DEF AddLink

\* What taking an entry out does when no update is half done.
Removed(k, i) ==
    /\ block' \in [1 .. Slots -> [name : AnyName, ino : InoOrNone]]
    /\ nlink' \in [Inos -> Int] /\ nlink'[i] >= Cardinality(Entries(i)')
    /\ Cardinality(Entries(i)') \in Nat
    /\ \A j \in Inos : j # i => nlink'[j] = nlink[j] /\ Entries(j)' = Entries(j)
    /\ \A j \in 1 .. Slots : block'[j].ino = IF j = k THEN NoIno ELSE block[j].ino

\* Every entry still has its link.
LEMMA RemoveEntryCovers ==
    ASSUME IInv, ~aborted, NEW k \in 1 .. Slots, NEW i \in Inos, block[k].ino = i, RemoveEntry(k),
           ~Short(i), ~Ahead(i)
    PROVE  Removed(k, i)
<1>. USE DEF IInv
<1>0. FreeSlot \in [name : AnyName, ino : InoOrNone] /\ FreeSlot.ino = NoIno
  BY Zenon DEF FreeSlot, AnyName, InoOrNone
<1>1. /\ block' = [block EXCEPT ![k] = FreeSlot]
      /\ nlink' = [nlink EXCEPT ![i] = IF @ = 0 THEN 0 ELSE @ - 1]
  BY Zenon DEF RemoveEntry
<1>2. /\ block' \in [1 .. Slots -> [name : AnyName, ino : InoOrNone]]
      /\ \A j \in 1 .. Slots : block'[j].ino = IF j = k THEN NoIno ELSE block[j].ino
  BY <1>0, <1>1, Zenon DEF Types
<1>3. nlink[i] \in Nat /\ nlink[i] >= Cardinality(Entries(i))
  BY Counted, Zenon
<1>4. /\ nlink' \in [Inos -> Int] /\ nlink'[i] = IF nlink[i] = 0 THEN 0 ELSE nlink[i] - 1
      /\ \A j \in Inos : j # i => nlink'[j] = nlink[j]
  BY SMTT(30), <1>1, <1>3 DEF Types
<1>5. Cardinality(Entries(i)') = Cardinality(Entries(i)) - 1
  BY <1>2, OneSlotChanges, DirIsInode, EntriesFinite DEF One
<1>6. Cardinality(Entries(i)') \in Nat
  <2>1. IsFiniteSet(1 .. Slots) /\ Entries(i)' \subseteq 1 .. Slots
    BY SlotsNat, FS_Interval DEF Entries
  <2>. QED
    BY Zenon, <2>1, FS_Subset, FS_CardinalityType
<1>7. \A j \in Inos : j # i => Entries(j)' = Entries(j)
  BY <1>2, DirIsInode, Zenon DEF Entries
<1>8. nlink'[i] >= Cardinality(Entries(i)')
  BY <1>3, <1>4, <1>5, <1>6, EntriesFinite
<1>. QED
  BY Zenon, <1>2, <1>4, <1>6, <1>7, <1>8 DEF Removed

\* __ext4_unlink of evfs_dentry_delete.
LEMMA DeleteUnlinkKeeps == ASSUME IInv, NEW t \in Threads, DeleteUnlink(t) PROVE IInv'
<1>. USE DEF IInv
<1>0. /\ pc[t] = "unlink" /\ Goto(t, "child") /\ UNCHANGED <<live, dcache, refs, owner, aborted, call>>
  BY Zenon DEF DeleteUnlink
<1>1. CASE UNCHANGED <<block, nlink, orphan>>
  BY <1>0, <1>1, ToChildOnly, Zenon
<1>i. PICK i \in Inos : i = call[t].ino
  BY <1>0, TaskFacts, Zenon DEF Held, InoHeld
<1>2. ASSUME ~aborted, NEW k \in 1 .. Slots, block[k].ino = i, RemoveEntry(k),
             orphan' = IF nlink'[i] = 0 THEN orphan \cup {i} ELSE orphan
      PROVE  IInv'
  <2>1. i \in Inos /\ t \in refs[i] /\ pc[t] \in DirLocked /\ pc[t] \notin OldHeld
    BY <1>0, <1>i, TaskFacts, Zenon DEF Held, InoHeld, DirLocked, OldHeld
  <2>3. \A j \in Inos : ~Short(j) /\ ~Ahead(j) /\ ~Short(j)' /\ ~Ahead(j)'
    BY Zenon, <1>0, <2>1, NoneHalfDone, ToChild, Alone DEF Short, Ahead, OldHeld, Others
  <2>4. /\ block' \in [1 .. Slots -> [name : AnyName, ino : InoOrNone]]
        /\ nlink' \in [Inos -> Int] /\ nlink'[i] >= Cardinality(Entries(i)')
        /\ Cardinality(Entries(i)') \in Nat
        /\ \A j \in Inos : j # i => nlink'[j] = nlink[j] /\ Entries(j)' = Entries(j)
        /\ \A j \in 1 .. Slots : block'[j].ino = IF j = k THEN NoIno ELSE block[j].ino
    <3>1. ~Short(i) /\ ~Ahead(i)
      BY <2>1, <2>3, Zenon
    <3>2. Removed(k, i)
      BY <1>2, <2>1, <3>1, RemoveEntryCovers, Zenon
    <3>. QED
      BY <3>2, Zenon DEF Removed
  <2>5. Types'
    BY <1>0, <1>2, <2>1, <2>4, ToChild, Zenon DEF Types
  <2>6. Tasks'
    BY <1>0, <2>1, Alone, ToChild, Frame, Zenon DEF Others
  <2>7. Cover'
    <3>. SUFFICES ASSUME NEW j \in Inos PROVE Covered(j)'
      BY Zenon DEF Cover
    <3>1. CASE j = i
      BY SMTT(30), <2>3, <2>4, <3>1 DEF Covered, One
    <3>2. CASE j # i
      <4>1. Covered(j)
        BY <1>2, Zenon DEF Cover
      <4>. QED
        BY <2>3, <2>4, <3>2, <4>1, Zenon DEF Covered, One
    <3>. QED
      BY <3>1, <3>2, Zenon
  <2>8. EntriesAreLive'
    BY <1>0, <2>4, Zenon DEF EntriesAreLive
  <2>9. NoLinklessInode'
    BY Zenon, <1>0, <1>2, <2>1, <2>4 DEF NoLinklessInode, Cached, Types
  <2>. QED
    BY <1>0, <2>5, <2>6, <2>7, <2>8, <2>9, Zenon DEF HeldIsLive
<1>. QED
  BY Zenon, <1>1, <1>2, <1>i, FindSlot DEF DeleteUnlink

\* The new link of evfs_dentry_update.
LEMMA UpdateIncKeeps == ASSUME IInv, NEW t \in Threads, UpdateInc(t) PROVE IInv'
<1>. USE DEF IInv
<1>. DEFINE i == call[t].ino  o == call[t].old
<1>0. /\ pc[t] = "inc" /\ UNCHANGED <<block, live, orphan, dcache, aborted, call>>
      /\ nlink' = [nlink EXCEPT ![i] = @ + 1]
  BY Zenon DEF UpdateInc
<1>1. /\ i \in Inos /\ t \in refs[i] /\ i # Dir /\ owner[i] = {t} /\ Dir \in Inos
      /\ call[t].dir = Dir /\ owner[Dir] = {t}
      /\ pc[t] \in DirLocked /\ pc[t] \notin OldHeld /\ pc[t] \in Updating
  BY Zenon, <1>0, TaskFacts DEF Held, Locks, InoHeld, InoLocked, DirLocked, OldHeld, Updating
<1>2. PICK l \in {"stop", "oldlock"} :
        /\ Goto(t, l)
        /\ owner' = owner \/ Unlock(i)
        /\ l = "stop" => refs' = refs
        /\ l = "oldlock" => CanGet(o) /\ Get(t, o) /\ o # BadIno
  BY Zenon DEF UpdateInc
<1>3. l = "oldlock" => o \in live /\ o \in Inos
  BY <1>2, Zenon DEF CanGet, Types
<1>. HIDE DEF i, o
<1>4. owner' \in [Inos -> SUBSET Threads] /\ LocksOwn(t) /\ owner'[Dir] = {t}
  BY <1>1, <1>2, Zenon DEF Types, Unlock, LocksOwn
<1>5. /\ refs' \in [Inos -> SUBSET Threads] /\ \A j \in Inos : refs[j] \subseteq refs'[j]
      /\ \A j \in Inos : j \notin live => refs'[j] = refs[j]
      /\ l = "oldlock" => t \in refs'[o]
  <2>1. CASE l = "stop"
    BY <1>2, <2>1, Zenon DEF Types
  <2>2. CASE l = "oldlock"
    <3>1. refs' = [refs EXCEPT ![o] = @ \cup {t}] /\ o \in live /\ o \in Inos
      BY <1>2, <1>3, <2>2, Zenon DEF Get
    <3>. QED
      BY <2>2, <3>1, Zenon DEF Types
  <2>. QED
    BY <2>1, <2>2, Zenon
<1>6. /\ nlink' \in [Inos -> Int] /\ \A j \in Inos : nlink'[j] = nlink[j] + One(j = i)
  BY SMTT(30), <1>0, <1>1 DEF Types, One
<1>7. Types' /\ Others(t) /\ pc'[t] = l
  BY SMTT(30), <1>0, <1>2, <1>4, <1>5, <1>6, GotoLeaves DEF Types, Others, Labels
<1>8. Current(t)'
  BY Zenon, <1>0, <1>1, TaskFacts, CurrentStays
<1>9. Task(t)'
  BY Zenon, <1>0, <1>1, <1>2, <1>3, <1>4, <1>5, <1>7, <1>8
     DEF Task, Arguments, Held, Locks, DirLocked, InoLocked, InoHeld, Updating, OldHeld, i, o
<1>10. Tasks'
  BY <1>0, <1>4, <1>5, <1>7, <1>9, Frame, Zenon DEF Others, LocksOwn
<1>11. ASSUME NEW j \in Inos, ~aborted PROVE Covered(j)' /\ nlink'[j] >= One(j = i)
  <2>1. ~Short(j) /\ ~Ahead(j)
    BY <1>1, NoneHalfDone, Zenon
  <2>2. nlink[j] \in Nat /\ nlink[j] >= Cardinality(Entries(j))
    BY <1>11, <2>1, Counted, Zenon
  <2>3. ~Short(j)' /\ (Ahead(j)' => j = i)
    BY Zenon, <1>0, <1>1, <1>7, Alone DEF Short, Ahead, OldHeld, Others, i
  <2>4. Entries(j)' = Entries(j)
    BY <1>0, Zenon DEF Entries
  <2>. QED
    BY SMTT(30), <1>6, <2>2, <2>3, <2>4, EntriesFinite DEF Covered, One
<1>12. NoLinklessInode'
  <2>. SUFFICES ASSUME ~aborted, NEW j \in live, nlink'[j] = 0
                PROVE  j \in orphan' /\ (refs'[j] # {} \/ Cached(j)')
    BY <1>0, Zenon DEF NoLinklessInode
  <2>1. j \in Inos /\ j # i
    BY <1>11 DEF Types, One
  <2>2. nlink[j] = 0
    BY <1>6, <2>1 DEF One, Types
  <2>. QED
    BY <1>0, <1>5, <2>1, <2>2, Zenon DEF NoLinklessInode, Cached
<1>. QED
  BY <1>0, <1>5, <1>7, <1>10, <1>11, <1>12, Zenon DEF Cover, HeldIsLive, EntriesAreLive

\* The old link of evfs_dentry_update.
LEMMA UpdateDecKeeps == ASSUME IInv, NEW t \in Threads, UpdateDec(t) PROVE IInv'
<1>. USE DEF IInv
<1>0. pc[t] = "dec" /\ UNCHANGED <<block, live, dcache, refs, aborted, call>>
  BY Zenon DEF UpdateDec
<1>1. /\ call[t].old \in Inos /\ t \in refs[call[t].old] /\ call[t].old # Dir /\ owner[call[t].old] = {t}
      /\ call[t].ino \in Inos /\ t \in refs[call[t].ino]
      /\ call[t].dir = Dir /\ owner[Dir] = {t} /\ Dir \in Inos /\ pc[t] \in DirLocked
  BY Zenon, <1>0, TaskFacts DEF Held, Locks, InoHeld, DirLocked, OldHeld, Updating
<1>i. PICK i \in Inos : i = call[t].old
  BY <1>1, Zenon
<1>2. PICK l \in {"stop", "set"} :
        /\ Goto(t, l) /\ (owner' = owner \/ Unlock(i)) /\ (l = "stop" <=> aborted)
        /\ orphan' = IF l = "set" /\ nlink[i] = 1 THEN orphan \cup {i} ELSE orphan
        /\ nlink' = [nlink EXCEPT ![i] = @ - 1]
  BY <1>i, Zenon DEF UpdateDec
<1>4. owner' \in [Inos -> SUBSET Threads] /\ LocksOwn(t) /\ owner'[Dir] = {t}
  BY Zenon, <1>1, <1>i, <1>2 DEF Types, Unlock, LocksOwn
<1>6. nlink' \in [Inos -> Int] /\ \A j \in Inos : nlink'[j] = nlink[j] - One(j = i)
  BY SMTT(30), <1>2 DEF Types, One
<1>7. Types' /\ Others(t) /\ pc'[t] = l
  BY <1>0, <1>2, <1>4, <1>6, GotoLeaves DEF Types, Others, Labels
<1>8. Current(t)'
  BY Zenon, <1>0, TaskFacts, CurrentStays DEF Updating, OldHeld
<1>9. Task(t)'
  BY Zenon, <1>0, <1>1, <1>2, <1>4, <1>7, <1>8
     DEF Task, Arguments, Held, Locks, DirLocked, InoLocked, InoHeld, Updating, OldHeld
<1>10. Tasks'
  BY Zenon, <1>0, <1>4, <1>7, <1>9, Frame DEF Others, LocksOwn
<1>11. ASSUME NEW j \in Inos, ~aborted PROVE Covered(j)'
  <2>1. ~Short(j) /\ (Short(j)' <=> j = i) /\ (Ahead(j)' <=> Ahead(j))
    BY Zenon, <1>0, <1>1, <1>i, <1>2, <1>7, <1>11, Alone DEF Short, Ahead, OldHeld, Others
  <2>2. Covered(j)
    BY <1>11, Zenon DEF Cover
  <2>3. Entries(j)' = Entries(j)
    BY <1>0, Zenon DEF Entries
  <2>4. nlink[j] \in Int /\ nlink'[j] = nlink[j] - One(j = i)
    BY <1>6, Zenon DEF Types
  <2>5. Cardinality(Entries(j)) \in Nat
    BY EntriesFinite, Zenon
  <2>6. /\ One(Short(j)) = 0 /\ One(Short(j)') = One(j = i) /\ One(j = i) \in {0, 1}
        /\ One(Ahead(j)') = One(Ahead(j)) /\ One(Ahead(j)) \in {0, 1}
    BY <2>1, Zenon DEF One
  <2>. QED
    BY SMTT(30), <2>2, <2>3, <2>4, <2>5, <2>6 DEF Covered
<1>12. NoLinklessInode'
  <2>. SUFFICES ASSUME ~aborted, NEW j \in live, nlink'[j] = 0
                PROVE  j \in orphan' /\ (refs'[j] # {} \/ Cached(j)')
    BY <1>0, Zenon DEF NoLinklessInode
  <2>0. j \in Inos /\ nlink[j] \in Int
    BY Zenon DEF Types
  <2>1. CASE j = i
    <3>1. nlink[i] = 1
      BY SMTT(30), <1>6, <2>0, <2>1 DEF One
    <3>. QED
      BY Zenon, <1>0, <1>1, <1>i, <1>2, <2>1, <3>1
  <2>2. CASE j # i
    <3>1. nlink[j] = 0
      BY SMTT(30), <1>6, <2>0, <2>2 DEF One
    <3>. QED
      BY <1>0, <1>2, <3>1, Zenon DEF NoLinklessInode, Cached
  <2>. QED
    BY <2>1, <2>2, Zenon
<1>. QED
  BY Zenon, <1>0, <1>7, <1>10, <1>11, <1>12 DEF Cover, HeldIsLive, EntriesAreLive

\* The entry of evfs_dentry_update.
LEMMA UpdateSetKeeps == ASSUME IInv, NEW t \in Threads, UpdateSet(t) PROVE IInv'
<1>. USE DEF IInv
<1>0. /\ pc[t] = "set" /\ UNCHANGED <<nlink, live, orphan, dcache, refs, owner, aborted, call>>
      /\ Goto(t, "stop")
  BY Zenon DEF UpdateSet
<1>1. /\ call[t].old \in Inos /\ call[t].ino \in Inos /\ t \in refs[call[t].ino]
      /\ call[t].dir = Dir /\ owner[Dir] = {t} /\ pc[t] \in DirLocked
  BY Zenon, <1>0, TaskFacts DEF Held, Locks, InoHeld, DirLocked, OldHeld, Updating
<1>i. PICK i \in Inos, o \in Inos : i = call[t].ino /\ o = call[t].old
  BY <1>1, Zenon
<1>2. PICK k \in 1 .. Slots : k = Nth(call[t].index) /\ block[k].ino = o
  BY Zenon, <1>0, <1>i, TaskFacts, NthSlot, DirIsInode DEF Current, Updating, OldHeld
<1>3. block' = [block EXCEPT ![k] = [block[k] EXCEPT !.ino = i]]
  BY <1>i, <1>2, Zenon DEF UpdateSet
<1>4. [block[k] EXCEPT !.ino = i] \in [name : AnyName, ino : InoOrNone]
  <2>1. i \in InoOrNone
    BY Zenon DEF InoOrNone
  <2>2. block[k] \in [name : AnyName, ino : InoOrNone]
    BY Zenon DEF Types
  <2>. QED
    BY <2>1, <2>2, Zenon
<1>5. /\ block' \in [1 .. Slots -> [name : AnyName, ino : InoOrNone]]
      /\ block'[k].ino = i /\ \A j \in 1 .. Slots : j # k => block'[j].ino = block[j].ino
  <2>1. [block[k] EXCEPT !.ino = i].ino = i
    BY Zenon DEF Types
  <2>. QED
    BY <1>3, <1>4, <2>1, Zenon DEF Types
<1>6. Types' /\ Others(t) /\ pc'[t] = "stop"
  BY <1>0, <1>5, GotoLeaves, Zenon DEF Types, Others, Labels
<1>7. Task(t)'
  BY Zenon, <1>0, <1>1, <1>6
     DEF Task, Arguments, Held, Locks, Current, DirLocked, InoLocked, InoHeld, Updating, OldHeld
<1>8. Tasks'
  BY Zenon, <1>0, <1>1, <1>6, <1>7, Alone, Frame DEF Others
<1>9. ASSUME NEW j \in Inos, ~aborted PROVE Covered(j)'
  <2>1. (Short(j) <=> j = o) /\ (Ahead(j) <=> j = i) /\ ~Short(j)' /\ ~Ahead(j)'
    BY Zenon, <1>0, <1>1, <1>i, <1>6, Alone DEF Short, Ahead, OldHeld, Others
  <2>2. Covered(j)
    BY <1>9, Zenon DEF Cover
  <2>3. Cardinality(Entries(j)') = Cardinality(Entries(j)) - One(o = j) + One(i = j)
    BY <1>2, <1>5, OneSlotChanges
  <2>4. Cardinality(Entries(j)) \in Nat /\ nlink[j] \in Int /\ nlink'[j] = nlink[j]
    BY <1>0, EntriesFinite, Zenon DEF Types
  <2>. QED
    BY <2>1, <2>2, <2>3, <2>4 DEF Covered, One
<1>10. EntriesAreLive'
  BY <1>0, <1>1, <1>i, <1>5, Zenon DEF EntriesAreLive, HeldIsLive
<1>11. NoLinklessInode'
  BY <1>0, Zenon DEF NoLinklessInode, Cached
<1>. QED
  BY <1>0, <1>6, <1>8, <1>9, <1>10, <1>11, Zenon DEF Cover, HeldIsLive

-----------------------------------------------------------------------------
(* The rest of the kernel *)

\* A step of nobody's call: the entries change only while nobody has the directory
\* locked.
LEMMA Elsewhere ==
    ASSUME IInv, UNCHANGED <<refs, owner, pc, call>>, block' = block \/ owner[Dir] = {}
    PROVE  Tasks'
<1>. SUFFICES ASSUME NEW t \in Threads PROVE Task(t)'
  BY Zenon DEF Tasks
<1>1. Arguments(t)' /\ Held(t)' /\ Locks(t)'
  BY Zenon, TaskFacts DEF Arguments, Held, Locks
<1>2. CASE block' = block
  <2>1. Current(t)'
    BY Zenon, <1>2, TaskFacts, CurrentStays
  <2>. QED
    BY <1>1, <2>1, Zenon DEF Task
<1>3. CASE owner[Dir] = {}
  <2>1. pc'[t] \notin Updating
    BY <1>3, TaskFacts, Zenon DEF Locks, Updating, OldHeld, DirLocked
  <2>. QED
    BY <1>1, <2>1, Zenon DEF Task, Current
<1>. QED
  BY <1>2, <1>3, Zenon

\* The counts stay covered when they and the entries stay.
LEMMA CoverElsewhere ==
    ASSUME Cover, UNCHANGED <<block, nlink, aborted, pc, call>>
    PROVE  Cover'
BY Zenon DEF Cover, Covered, Short, Ahead, Entries

\* ext4_lookup only adds to the dentry cache.
LEMMA LookupKeeps == ASSUME IInv, NEW n \in Names, ext4_lookup(n) PROVE IInv'
<1>. USE DEF IInv
<1>. DEFINE i == IF Find(n) = 0 THEN NoIno ELSE block[Find(n)].ino
<1>1. /\ UNCHANGED <<block, nlink, live, orphan, refs, owner, aborted, pc, call>>
      /\ dcache[n] = {} /\ dcache' = [dcache EXCEPT ![n] = {i}]
  BY Zenon DEF ext4_lookup
<1>2. i \in InoOrNone
  BY FindSlot, Zenon DEF Types, InoOrNone
<1>. HIDE DEF i
<1>3. /\ dcache' \in [Names -> SUBSET InoOrNone] /\ \A m \in Names : dcache[m] \subseteq dcache'[m]
  BY <1>1, <1>2, Zenon DEF Types
<1>4. Types'
  BY <1>1, <1>3, Zenon DEF Types
<1>5. NoLinklessInode'
  BY <1>1, <1>3, Zenon DEF NoLinklessInode, Cached
<1>. QED
  BY Zenon, <1>1, <1>4, <1>5, Elsewhere, CoverElsewhere DEF HeldIsLive, EntriesAreLive

\* The dentry cache drops a dentry, perhaps the last thing that held the inode.
LEMMA ShrinkKeeps == ASSUME IInv, NEW n \in Names, NEW i, Shrink(n, i) PROVE IInv'
<1>. USE DEF IInv
<1>. DEFINE dead == {j \in {i} \cap live : nlink[j] = 0 /\ refs[j] = {} /\ ~aborted
                                           /\ \A m \in Names : j \notin dcache'[m]}
<1>1. /\ UNCHANGED <<block, nlink, refs, owner, aborted, pc, call>>
      /\ dcache' = [dcache EXCEPT ![n] = @ \ {i}]
      /\ live' = live \ dead /\ orphan' = orphan \ dead
  BY Zenon DEF Shrink
<1>2. ASSUME NEW j \in dead PROVE j \in Inos /\ refs[j] = {} /\ Entries(j) = {}
  BY Zenon, DeadHasNoEntry DEF Types
<1>3. /\ dcache' \in [Names -> SUBSET InoOrNone]
      /\ \A m \in Names, j \in Inos : j # i /\ j \in dcache[m] => j \in dcache'[m]
  BY <1>1, Zenon DEF Types
<1>4. ASSUME NEW j \in live, j \notin dead, nlink[j] = 0, ~aborted, refs[j] # {} \/ Cached(j)
      PROVE  refs[j] # {} \/ Cached(j)'
  BY <1>3, <1>4, Zenon DEF Cached, Types
<1>. HIDE DEF dead
<1>5. Types'
  BY <1>1, <1>3, Zenon DEF Types
<1>6. HeldIsLive'
  BY <1>1, <1>2, Zenon DEF HeldIsLive
<1>7. EntriesAreLive'
  <2>. SUFFICES ASSUME NEW k \in 1 .. Slots, block[k].ino # NoIno PROVE block[k].ino \in live'
    BY <1>1, Zenon DEF EntriesAreLive
  <2>1. block[k].ino \in live /\ k \in Entries(block[k].ino)
    BY Zenon DEF EntriesAreLive, Entries
  <2>. QED
    BY <1>1, <1>2, <2>1, Zenon
<1>8. NoLinklessInode'
  BY Zenon, <1>1, <1>4 DEF NoLinklessInode
<1>. QED
  BY <1>1, <1>5, <1>6, <1>7, <1>8, Elsewhere, CoverElsewhere, Zenon

\* unlink(2).
LEMMA UnlinkKeeps == ASSUME IInv, NEW n \in Names, NEW i, ext4_unlink(n, i) PROVE IInv'
<1>. USE DEF IInv
<1>. DEFINE dead == nlink'[i] = 0 /\ refs[i] = {} /\ \A m \in Names : i \notin dcache'[m]
<1>1. /\ UNCHANGED <<refs, owner, aborted, pc, call>> /\ owner[Dir] = {} /\ ~aborted
      /\ dcache' = [dcache EXCEPT ![n] = (@ \ {i}) \cup {NoIno}]
      /\ live' = (IF dead THEN live \ {i} ELSE live)
      /\ orphan' = (IF dead THEN orphan \ {i} ELSE IF nlink'[i] = 0 THEN orphan \cup {i} ELSE orphan)
  BY Zenon DEF ext4_unlink
<1>2. i \in Inos
  BY Zenon DEF ext4_unlink, Types, InoOrNone
<1>3. PICK k \in 1 .. Slots : block[k].ino = i /\ RemoveEntry(k)
  BY FindSlot, Zenon DEF ext4_unlink
<1>4. \A j \in Inos : ~Short(j) /\ ~Ahead(j) /\ ~Short(j)' /\ ~Ahead(j)'
  <2>1. \A t \in Threads : pc[t] \notin OldHeld /\ pc[t] # "set"
    BY Zenon, <1>1, TaskFacts DEF Locks, DirLocked, OldHeld
  <2>. QED
    BY Zenon, <1>1, <2>1 DEF Short, Ahead
<1>5. Removed(k, i)
  <2>1. ~Short(i) /\ ~Ahead(i)
    BY <1>2, <1>4, Zenon
  <2>. QED
    BY Zenon, <1>1, <1>2, <1>3, <2>1, RemoveEntryCovers
<1>6. /\ block' \in [1 .. Slots -> [name : AnyName, ino : InoOrNone]]
      /\ nlink' \in [Inos -> Int] /\ nlink'[i] >= Cardinality(Entries(i)')
      /\ Cardinality(Entries(i)') \in Nat
      /\ \A j \in Inos : j # i => nlink'[j] = nlink[j] /\ Entries(j)' = Entries(j)
      /\ \A j \in 1 .. Slots : block'[j].ino = IF j = k THEN NoIno ELSE block[j].ino
  BY <1>5, Zenon DEF Removed
<1>7. /\ dcache' \in [Names -> SUBSET InoOrNone]
      /\ \A m \in Names, j \in Inos : j # i /\ j \in dcache[m] => j \in dcache'[m]
  BY <1>1, Zenon DEF Types, InoOrNone
<1>8. dead => Entries(i)' = {}
  <2>1. IsFiniteSet(1 .. Slots) /\ Entries(i)' \subseteq 1 .. Slots
    BY SlotsNat, FS_Interval DEF Entries
  <2>2. IsFiniteSet(Entries(i)')
    BY Zenon, <2>1, FS_Subset
  <2>3. dead => Cardinality(Entries(i)') = 0
    BY SMTT(30), <1>2, <1>6
  <2>. QED
    BY <2>2, <2>3, FS_EmptySet, Zenon
<1>9. Types'
  BY <1>1, <1>2, <1>6, <1>7, Zenon DEF Types
<1>10. Tasks'
  BY <1>1, Elsewhere, Zenon
<1>11. Cover'
  <2>. SUFFICES ASSUME NEW j \in Inos PROVE Covered(j)'
    BY Zenon DEF Cover
  <2>1. CASE j = i
    BY SMTT(30), <1>4, <1>6, <2>1 DEF Covered, One
  <2>2. CASE j # i
    <3>1. Covered(j)
      BY Zenon, <1>1 DEF Cover
    <3>. QED
      BY <1>4, <1>6, <2>2, <3>1, Zenon DEF Covered, One
  <2>. QED
    BY <2>1, <2>2, Zenon
<1>12. HeldIsLive'
  BY Zenon, <1>1 DEF HeldIsLive
<1>13. EntriesAreLive'
  <2>. SUFFICES ASSUME NEW j \in 1 .. Slots, block'[j].ino # NoIno PROVE block'[j].ino \in live'
    BY Zenon DEF EntriesAreLive
  <2>1. block'[j].ino \in live
    BY <1>6, Zenon DEF EntriesAreLive
  <2>2. dead => block'[j].ino # i
    BY <1>8, Zenon DEF Entries
  <2>. QED
    BY <1>1, <2>1, <2>2, Zenon
<1>14. NoLinklessInode'
  <2>. SUFFICES ASSUME NEW j \in live', nlink'[j] = 0
                PROVE  j \in orphan' /\ (refs'[j] # {} \/ Cached(j)')
    BY Zenon DEF NoLinklessInode
  <2>1. CASE j = i
    BY <1>1, <2>1, Zenon DEF Cached
  <2>2. CASE j # i
    <3>1. j \in live /\ j \in Inos /\ nlink[j] = 0
      BY <1>1, <1>6, <2>2, Zenon DEF Types
    <3>2. j \in orphan /\ (refs[j] # {} \/ Cached(j))
      BY Zenon, <1>1, <3>1 DEF NoLinklessInode
    <3>. QED
      BY <1>1, <1>7, <2>2, <3>1, <3>2, Zenon DEF Cached
  <2>. QED
    BY <2>1, <2>2, Zenon
<1>. QED
  BY <1>9, <1>10, <1>11, <1>12, <1>13, <1>14, Zenon

\* A journal abort.
LEMMA AbortKeeps == ASSUME IInv, Abort PROVE IInv'
<1>. USE DEF IInv
<1>1. UNCHANGED <<block, nlink, live, orphan, dcache, refs, owner, pc, call>> /\ aborted'
  BY Zenon DEF Abort, fs
<1>2. Tasks'
  BY <1>1, Elsewhere, Zenon
<1>. QED
  BY <1>1, <1>2, Zenon DEF Types, HeldIsLive, Cover, EntriesAreLive, NoLinklessInode

-----------------------------------------------------------------------------
(* The theorems *)

\* mkfs left a link for each entry.
LEMMA InitHolds == Init => IInv
<1>. SUFFICES ASSUME Init PROVE IInv
  BY Zenon
<1>0. /\ Slots \in Nat /\ Slots > 2 /\ Dir # File /\ Dir \notin Pinned /\ File \notin Pinned
      /\ "a" \in Names
  BY DentryAssumption, Zenon
<1>1. \A k \in 1 .. Slots : /\ block[k] \in [name : AnyName, ino : InoOrNone]
                            /\ block[k].ino = IF k \in {1, 2} THEN Dir ELSE IF k = 3 THEN File ELSE NoIno
  <2>1. /\ [name |-> ".", ino |-> Dir] \in [name : AnyName, ino : InoOrNone]
        /\ [name |-> "..", ino |-> Dir] \in [name : AnyName, ino : InoOrNone]
        /\ [name |-> "a", ino |-> File] \in [name : AnyName, ino : InoOrNone]
        /\ FreeSlot \in [name : AnyName, ino : InoOrNone] /\ FreeSlot.ino = NoIno
    BY <1>0, Zenon DEF AnyName, InoOrNone, Inos, FreeSlot
  <2>2. \A k \in 1 .. Slots : block[k] = IF k = 1 THEN [name |-> ".", ino |-> Dir]
                                         ELSE IF k = 2 THEN [name |-> "..", ino |-> Dir]
                                         ELSE IF k = 3 THEN [name |-> "a", ino |-> File] ELSE FreeSlot
    BY Zenon DEF Init
  <2>. QED
    BY SMTT(30), <2>1, <2>2
<1>2. block \in [1 .. Slots -> [name : AnyName, ino : InoOrNone]]
  BY <1>1, Zenon DEF Init
<1>3. NoCall \in Call
  BY RequestTyped, Zenon DEF NoCall, AnyName, InoOrNone
<1>4. Types
  BY <1>2, <1>3 DEF Init, Types, Labels
<1>5. Tasks
  BY Zenon DEF Init, Tasks, Task, Arguments, Held, Locks, Current, DirLocked, InoLocked, InoHeld, Updating, OldHeld
<1>6. ASSUME NEW i \in Inos PROVE Covered(i)
  <2>1. ~Short(i) /\ ~Ahead(i)
    BY Zenon DEF Init, Short, Ahead, OldHeld
  <2>2. i # NoIno /\ {1, 2, 3} \subseteq 1 .. Slots
    BY <1>0, DirIsInode
  <2>3. CASE i = Dir
    <3>0. nlink[i] = 2
      BY <2>3, Zenon DEF Init
    <3>1. Entries(i) = {1, 2}
      BY <1>0, <1>1, <2>2, <2>3, Zenon DEF Entries
    <3>2. Cardinality({1}) = 1 /\ IsFiniteSet({1})
      BY Zenon, FS_Singleton
    <3>3. {1, 2} = {1} \cup {2} /\ 2 \notin {1}
      OBVIOUS
    <3>4. Cardinality({1, 2}) = 2
      BY <3>2, <3>3, FS_AddElement
    <3>. QED
      BY SMTT(30), <2>1, <3>0, <3>1, <3>4 DEF Covered, One
  <2>4. CASE i = File
    <3>0. nlink[i] = 1
      BY <1>0, <2>4, Zenon DEF Init
    <3>1. Entries(i) = {3}
      BY <1>0, <1>1, <2>2, <2>4 DEF Entries
    <3>2. Cardinality({3}) = 1
      BY FS_Singleton, Zenon
    <3>. QED
      BY SMTT(30), <2>1, <3>0, <3>1, <3>2 DEF Covered, One
  <2>5. CASE i \in Pinned
    <3>1. Entries(i) = {} /\ nlink[i] = 1
      BY Zenon, <1>0, <1>1, <2>2, <2>5 DEF Entries, Init
    <3>2. Cardinality({}) = 0
      BY FS_EmptySet, Zenon
    <3>. QED
      BY SMTT(30), <2>1, <3>1, <3>2 DEF Covered, One
  <2>. QED
    BY <2>3, <2>4, <2>5, Zenon DEF Inos
<1>7. EntriesAreLive
  BY Zenon, <1>1 DEF Init, EntriesAreLive, Inos
<1>8. HeldIsLive
  BY Zenon DEF Init, HeldIsLive
<1>9. NoLinklessInode
  <2>. SUFFICES ASSUME NEW i \in live PROVE nlink[i] # 0
    BY Zenon DEF NoLinklessInode
  <2>1. i \in Inos /\ nlink[i] = IF i = Dir THEN 2 ELSE 1
    BY Zenon DEF Init
  <2>. QED
    BY <2>1
<1>. QED
  BY Zenon, <1>4, <1>5, <1>6, <1>7, <1>8, <1>9 DEF IInv, Cover

\* A step that changes nothing.
LEMMA StutterKeeps == ASSUME IInv, UNCHANGED vars PROVE IInv'
<1>. USE DEF IInv
<1>1. UNCHANGED <<block, nlink, live, orphan, dcache, refs, owner, aborted, pc, call>>
  BY Zenon DEF vars, fs
<1>. QED
  BY Zenon, <1>1, Elsewhere, CoverElsewhere DEF Types, HeldIsLive, EntriesAreLive, NoLinklessInode, Cached

\* Every step keeps the invariant.
LEMMA NextKeeps == ASSUME IInv, [Next]_vars PROVE IInv'
<1>1. ASSUME NEW t \in Threads, Begin(t) \/ Step(t) PROVE IInv'
  BY Zenon, <1>1, BeginKeeps, LockDirKeeps, ReleaseKeeps, LeaveKeeps, ReleaseChildKeeps, AddGetKeeps,
     AddLockKeeps, AddLinkKeeps, DeleteFindKeeps, DeleteLockKeeps, DeleteUntrackKeeps,
     DeleteUnlinkKeeps, UpdateFindKeeps, UpdateLockNewKeeps, UpdateIncKeeps, UpdateLockOldKeeps,
     UpdateDecKeeps, UpdateSetKeeps, UpdateStopKeeps DEF Step
<1>. QED
  BY <1>1, LookupKeeps, UnlinkKeeps, ShrinkKeeps, AbortKeeps, StutterKeeps, Zenon DEF Next

\* The inductive invariant holds in every reachable state.
THEOREM Invariance == Spec => []IInv
BY InitHolds, NextKeeps, PTL DEF Spec

\* At most one task is between the counts and the entry.
LEMMA BetweenIsOne ==
    ASSUME IInv, NEW i \in Inos PROVE Cardinality(Between(i)) = One(Short(i))
<1>1. CASE ~Short(i)
  <2>1. Between(i) = {}
    BY <1>1, Zenon DEF Between, Short
  <2>. QED
    BY <1>1, <2>1, FS_EmptySet, Zenon DEF One
<1>2. CASE Short(i)
  <2>1. PICK t \in Threads : pc[t] = "set" /\ call[t].old = i
    BY <1>2, Zenon DEF Short
  <2>2. Between(i) = {t}
    BY <2>1, Exclusive, Zenon DEF IInv, Between, DirLocked
  <2>. QED
    BY <1>2, <2>2, FS_Singleton, Zenon DEF One
<1>. QED
  BY <1>1, <1>2, Zenon

\* Whatever calls of evfs_dentry_add, _delete, _update and _read, path lookups,
\* unlinks and cache shrinks run together, for any number of tasks, inodes, names
\* and slots: every entry is covered by a link of the inode it names, but for the one
\* an update is about to change.
THEOREM LinksAlwaysCover == Spec => []LinksCoverEntries
<1>1. IInv => LinksCoverEntries
  <2>. SUFFICES ASSUME IInv, ~aborted, NEW i \in Inos
                PROVE  nlink[i] + Cardinality(Between(i)) >= Cardinality(Entries(i))
    BY Zenon DEF LinksCoverEntries
  <2>1. Covered(i) /\ nlink[i] \in Int
    BY Zenon DEF IInv, Cover, Types
  <2>2. Cardinality(Between(i)) = One(Short(i))
    BY BetweenIsOne, Zenon
  <2>. QED
    BY <2>1, <2>2, EntriesFinite DEF Covered, One
<1>. QED
  BY <1>1, Invariance, PTL

\* No entry ever names a freed inode, with or without a journal abort.
THEOREM EntriesNeverDangle == Spec => []EntriesAreLive
<1>1. IInv => EntriesAreLive
  BY Zenon DEF IInv
<1>. QED
  BY <1>1, Invariance, PTL

\* No inode without links is forgotten: it is on the orphan list, and held.
THEOREM LinklessIsOrphaned == Spec => []NoLinklessInode
<1>1. IInv => NoLinklessInode
  BY Zenon DEF IInv
<1>. QED
  BY <1>1, Invariance, PTL

=============================================================================
