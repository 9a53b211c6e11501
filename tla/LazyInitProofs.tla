--------------------------- MODULE LazyInitProofs ---------------------------
(***************************************************************************)
(* What the lazy-initialisation thread and the callers of mount, remount   *)
(* and unmount keep of the request list, for any number of volumes.        *)
(***************************************************************************)
EXTENDS LazyInit, TLAPS

PCs == {"idle", "reg_lock", "reg_touch", "reg_add", "reg_ptr", "reg_clear", "reg_out",
        "unreg_lock", "unreg_list"}
TPCs == {"none", "top", "walk", "run", "relock", "after", "sleep", "exit_lock", "exit_test"}
OPs == {"none", "mount", "remount", "fail", "umount"}

(* Where a caller holds ext4_li_mtx. *)
InLi == {"reg_touch", "reg_add", "reg_ptr", "reg_clear", "reg_out", "unreg_list"}

(* The types the argument needs. *)
Typed ==
    /\ list \in Seq(Supers)
    /\ pc \in [Supers -> PCs] /\ op \in [Supers -> OPs] /\ sb \in [Supers -> Superblock]
    /\ tpc \in TPCs
    /\ pos \in Supers \cup {None} /\ nxt \in Supers \cup {None}
    /\ reader \in Supers \cup {None}
    /\ li_mtx \in Supers \cup {Thread, None}
    /\ li_info \in BOOLEAN /\ running \in BOOLEAN
    /\ err \in BOOLEAN
    /\ unload \in {"no", "checked", "stopping", "done"}

(* Who holds which lock, and what the thread's hold of s_umount keeps. *)
Locks ==
    /\ \A s \in Supers : pc[s] \in InLi <=> li_mtx = s
    /\ tpc = "exit_test" <=> li_mtx = Thread
    /\ list_mtx = IF tpc \in {"walk", "after"} THEN Thread ELSE None
    /\ tpc \in {"run", "relock"} =>
          /\ pos \in Supers /\ reader = pos /\ pc[pos] = "idle"
          /\ sb[pos].state = "mounted" /\ ~sb[pos].frozen
    /\ tpc \notin {"run", "relock"} => reader = None

(* No request is on the list twice. *)
Distinct == \A i, j \in DOMAIN list : list[i] = list[j] => i = j

(* The list, the requests and the pointers to them. *)
Requests ==
    /\ Distinct
    /\ \A s \in Supers : OnList(s) => s \in live /\ sb[s].state # "none"
    /\ \A s \in Supers : pc[s] # "reg_ptr" => (s \in s_li_request <=> OnList(s))
    /\ \A s \in Supers : pc[s] = "reg_ptr" => OnList(s) /\ s \notin s_li_request
    /\ \A s \in Supers : pc[s] = "reg_add" => s \in live /\ ~OnList(s)

(* The thread's cursors. *)
Cursors ==
    /\ tpc \in {"walk", "after"} => \A s \in {pos, nxt} \ {None} : OnList(s)
    /\ tpc \in {"run", "relock", "after"} => OnList(pos) /\ pos \in s_li_request
    /\ tpc = "after" => nxt = Following(pos)

(* The life of ext4_li_info and of the thread. *)
Lives ==
    /\ list # <<>> => li_info
    /\ running <=> tpc # "none"
    /\ running => li_info
    /\ li_info /\ ~running => li_mtx \in Supers /\ pc[li_mtx] \in {"reg_add", "reg_ptr", "reg_clear"}
    /\ \A s \in Supers : pc[s] \in {"reg_add", "reg_ptr", "reg_clear", "unreg_list"} => li_info
    /\ \A s \in Supers : pc[s] = "reg_clear" => ~running

(* The calls and the superblocks. *)
Calls ==
    /\ \A s \in Supers : pc[s] = "idle" => sb[s].state \in {"none", "mounted"}
    /\ \A s \in Supers : pc[s] # "idle" => sb[s].state # "none"
    /\ \A s \in Supers : pc[s] = "reg_out" /\ op[s] \in {"fail", "umount"} => ~OnList(s)
    /\ \A s \in Supers : pc[s] \in {"reg_lock", "reg_touch", "reg_add", "reg_ptr"} =>
                             op[s] \in {"mount", "remount"}
    /\ unload # "no" => \A s \in Supers : pc[s] = "idle" /\ sb[s].state = "none"

IInv == Typed /\ Locks /\ Requests /\ Cursors /\ Lives /\ Calls

-----------------------------------------------------------------------------
(* The list operations, seen through membership: what the steps below use of them. *)

(* What list_del leaves of a sequence. *)
LEMMA ListDelFacts ==
    ASSUME NEW S, NEW l \in Seq(S), NEW k \in 1 .. Len(l)
    PROVE  /\ ListDel(l, k) \in Seq(S)
           /\ Len(ListDel(l, k)) = Len(l) - 1
           /\ \A i \in 1 .. Len(l) - 1 :
                 ListDel(l, k)[i] = IF i < k THEN l[i] ELSE l[i + 1]
<1>1. Len(l) - 1 \in Nat
  OBVIOUS
<1>2. \A i \in 1 .. Len(l) - 1 : (IF i < k THEN l[i] ELSE l[i + 1]) \in S
  OBVIOUS
<1> QED
  BY <1>1, <1>2 DEF ListDel

(* A request of the list is at its place. *)
LEMMA AtFacts ==
    ASSUME NEW s, OnList(s)
    PROVE  At(s) \in DOMAIN list /\ list[At(s)] = s
  BY Zenon DEF OnList, At

(* list_add: one request more. *)
LEMMA Pushed ==
    ASSUME Typed, Distinct, NEW s \in Supers, ~OnList(s), list' = <<s>> \o list
    PROVE  /\ list' \in Seq(Supers) /\ Distinct' /\ list' # <<>>
           /\ \A t \in Supers : OnList(t)' <=> OnList(t) \/ t = s
<1>1. /\ list' \in Seq(Supers) /\ Len(list') = Len(list) + 1 /\ list'[1] = s
      /\ \A i \in 2 .. Len(list) + 1 : list'[i] = list[i - 1]
  BY DEF Typed
<1>2. DOMAIN list' = 1 .. Len(list) + 1 /\ DOMAIN list = 1 .. Len(list) /\ Len(list) \in Nat
  BY <1>1 DEF Typed
<1>3. \A i \in DOMAIN list : list[i] # s
  BY Zenon DEF OnList
<1>4. Distinct'
  BY <1>1, <1>2, <1>3 DEF Distinct
<1>5. ASSUME NEW t \in Supers, OnList(t) PROVE OnList(t)'
  <2>1. PICK i \in DOMAIN list : list[i] = t
    BY <1>5, Zenon DEF OnList
  <2>2. i + 1 \in DOMAIN list' /\ list'[i + 1] = t
    BY <1>1, <1>2, <2>1
  <2> QED
    BY <2>2, Zenon DEF OnList
<1>6. ASSUME NEW t \in Supers, OnList(t)' PROVE OnList(t) \/ t = s
  <2>1. PICK i \in DOMAIN list' : list'[i] = t
    BY <1>6, Zenon DEF OnList
  <2>2. i = 1 \/ (i - 1 \in DOMAIN list /\ list[i - 1] = t)
    BY <1>1, <1>2, <2>1
  <2> QED
    BY <1>1, <2>1, <2>2, Zenon DEF OnList
<1>7. OnList(s)'
  BY <1>1, <1>2 DEF OnList
<1> QED
  BY <1>1, <1>2, <1>4, <1>5, <1>6, <1>7

(* list_del: one request less. *)
LEMMA Removed ==
    ASSUME Typed, Distinct, NEW s \in Supers, OnList(s), list' = ListDel(list, At(s))
    PROVE  /\ list' \in Seq(Supers) /\ Distinct'
           /\ \A t \in Supers : OnList(t)' <=> OnList(t) /\ t # s
<1> DEFINE k == At(s)
<1>1. k \in 1 .. Len(list) /\ list[k] = s /\ Len(list) \in Nat /\ DOMAIN list = 1 .. Len(list)
  BY AtFacts DEF Typed
<1> HIDE DEF k
<1>2. /\ list' \in Seq(Supers) /\ Len(list') = Len(list) - 1
      /\ \A i \in 1 .. Len(list) - 1 : list'[i] = IF i < k THEN list[i] ELSE list[i + 1]
  BY Zenon, <1>1, ListDelFacts DEF Typed, k
<1>3. DOMAIN list' = 1 .. Len(list) - 1
  BY <1>2
<1>4. Distinct'
  <2>1. SUFFICES ASSUME NEW i \in DOMAIN list', NEW j \in DOMAIN list', list'[i] = list'[j]
                 PROVE  i = j
    BY Zenon DEF Distinct
  <2> DEFINE f(n) == IF n < k THEN n ELSE n + 1
  <2>2. /\ f(i) \in DOMAIN list /\ list'[i] = list[f(i)]
        /\ f(j) \in DOMAIN list /\ list'[j] = list[f(j)]
    BY <1>1, <1>2, <1>3
  <2>3. f(i) = f(j)
    BY Zenon, <2>1, <2>2 DEF Distinct
  <2> QED
    BY <1>1, <1>3, <2>3
<1>5. ASSUME NEW t \in Supers, OnList(t), t # s PROVE OnList(t)'
  <2>1. PICK i \in DOMAIN list : list[i] = t
    BY <1>5, Zenon DEF OnList
  <2>2. CASE i < k
    BY <1>1, <1>2, <1>3, <2>1, <2>2 DEF OnList
  <2>3. CASE i > k
    <3>1. i - 1 \in DOMAIN list' /\ list'[i - 1] = t
      BY <1>1, <1>2, <1>3, <2>1, <2>3
    <3> QED
      BY <3>1, Zenon DEF OnList
  <2> QED
    BY <1>1, <1>5, <2>1, <2>2, <2>3
<1>6. ASSUME NEW t \in Supers, OnList(t)' PROVE OnList(t) /\ t # s
  <2>1. PICK i \in DOMAIN list' : list'[i] = t
    BY <1>6, Zenon DEF OnList
  <2>2. PICK j \in DOMAIN list : list[j] = t /\ j # k
    BY <1>1, <1>2, <1>3, <2>1
  <2> QED
    BY <1>1, <2>2, Zenon DEF OnList, Distinct
<1> QED
  BY <1>2, <1>4, <1>5, <1>6, Zenon

(* The next request of the list is on the list, and does not lead back. *)
LEMMA FollowingFacts ==
    ASSUME Typed, Distinct, NEW s
    PROVE  /\ Following(s) \in Supers \cup {None}
           /\ Following(s) # None => OnList(Following(s))
           /\ OnList(s) /\ s # None => Following(s) # s
           /\ OnList(s) /\ s # None => Following(Following(s)) # s
<1>1. list \in Seq(Supers) /\ Len(list) \in Nat /\ DOMAIN list = 1 .. Len(list)
  BY DEF Typed
<1>2. ASSUME NEW t PROVE /\ Following(t) \in Supers \cup {None}
                         /\ Following(t) # None => /\ OnList(t) /\ At(t) + 1 \in DOMAIN list
                                                   /\ Following(t) = list[At(t) + 1]
  BY <1>1, AtFacts DEF Following
<1>3. ASSUME NEW t, OnList(t) PROVE \A i \in DOMAIN list : list[i] = t => i = At(t)
  BY <1>3, AtFacts, Zenon DEF Distinct
<1>4. Following(s) # None => OnList(Following(s)) /\ At(Following(s)) = At(s) + 1
  BY <1>2, <1>3, Zenon DEF OnList
<1>5. Following(Following(s)) # None => At(Following(Following(s))) = At(s) + 2
  <2>1. ASSUME Following(Following(s)) # None PROVE Following(s) # None
    <3>1. SUFFICES ASSUME Following(s) = None PROVE FALSE
      BY Zenon
    <3>2. OnList(None)
      BY <1>2, <2>1, <3>1, Zenon
    <3>3. None \in Supers
      BY <3>2, <1>1 DEF OnList
    <3> QED
      BY <3>3, LazyInitAssumption, Zenon
  <2>2. ASSUME Following(Following(s)) # None
        PROVE At(Following(Following(s))) = At(Following(s)) + 1
    BY <1>2, <1>3, <2>2, Zenon DEF OnList
  <2>3. Following(s) # None => OnList(s) /\ At(s) \in Nat
    BY <1>1, <1>2, AtFacts
  <2> QED
    BY <1>4, <2>1, <2>2, <2>3
<1>6. OnList(s) => At(s) \in Nat
  BY <1>1, AtFacts
<1> QED
  BY <1>2, <1>4, <1>5, <1>6

(* An empty list has no request. *)
LEMMA EmptyList ==
    ASSUME Typed
    PROVE  list = <<>> <=> \A s \in Supers : ~OnList(s)
<1>1. list \in Seq(Supers) /\ Len(list) \in Nat /\ DOMAIN list = 1 .. Len(list)
  BY DEF Typed
<1>2. ASSUME list # <<>> PROVE \E s \in Supers : OnList(s)
  <2>1. 1 \in DOMAIN list /\ list[1] \in Supers
    BY <1>1, <1>2
  <2> QED
    BY <2>1, Zenon DEF OnList
<1>3. ASSUME list = <<>>, NEW s \in Supers PROVE ~OnList(s)
  BY <1>3 DEF OnList
<1> QED
  BY <1>2, <1>3, Zenon
-----------------------------------------------------------------------------
(* The steps. *)

(* The list and what is read from it stay. *)
SameList ==
    /\ list' = list /\ Distinct' = Distinct
    /\ \A t : (OnList(t)' <=> OnList(t)) /\ Following(t)' = Following(t)

(* A step that leaves the list alone leaves its requests alone. *)
LEMMA Unchanged == list' = list => SameList
  BY Zenon DEF SameList, Distinct, OnList, Following, At

(* The superblocks after one of them is given other fields. *)
LEMMA SuperTyped ==
    ASSUME sb \in [Supers -> Superblock], NEW s \in Supers, NEW r \in Superblock,
           sb' = [sb EXCEPT ![s] = r]
    PROVE  /\ sb' \in [Supers -> Superblock]
           /\ sb'[s] = r /\ \A t \in Supers \ {s} : sb'[t] = sb[t]
  BY Zenon

(* What a call leaves when it returns. *)
LEMMA Returned ==
    ASSUME Typed, NEW s \in Supers, Return(s)
    PROVE  /\ sb' \in [Supers -> Superblock] /\ pc' \in [Supers -> PCs] /\ op' \in [Supers -> OPs]
           /\ pc'[s] = "idle" /\ \A t \in Supers \ {s} : pc'[t] = pc[t]
           /\ \A t \in Supers \ {s} : op'[t] = op[t] /\ sb'[t] = sb[t]
           /\ sb'[s].state = IF op[s] \in {"fail", "umount"} THEN "none" ELSE "mounted"
<1> DEFINE r == IF op[s] \in {"fail", "umount"} THEN NoSuper ELSE [sb[s] EXCEPT !.state = "mounted"]
<1>1. r \in Superblock /\ r.state = IF op[s] \in {"fail", "umount"} THEN "none" ELSE "mounted"
  BY Zenon DEF Typed, Superblock, NoSuper
<1>2. sb' = [sb EXCEPT ![s] = r]
  BY Zenon DEF Return
<1> HIDE DEF r
<1>3. /\ sb' \in [Supers -> Superblock] /\ sb'[s] = r /\ \A t \in Supers \ {s} : sb'[t] = sb[t]
  BY <1>1, <1>2, SuperTyped, Zenon DEF Typed
<1>4. /\ pc' \in [Supers -> PCs] /\ op' \in [Supers -> OPs]
      /\ pc'[s] = "idle" /\ \A t \in Supers \ {s} : pc'[t] = pc[t] /\ op'[t] = op[t]
  BY Zenon DEF Typed, Return, Goto, PCs, OPs
<1> QED
  BY <1>1, <1>3, <1>4, Zenon

(* A mount starts. *)
LEMMA MountStep ==
    ASSUME IInv, NEW s \in Supers, Mount(s)
    PROVE  IInv'
<1>1. list' = list
  BY Zenon DEF Mount, Goto, info, thread, volume, caller
<1>2. SameList
  BY <1>1, Unchanged, Zenon
<1>3. Typed'
  <2>1. sb' \in [Supers -> Superblock]
    <3>1. PICK ro, it \in BOOLEAN :
              sb' = [sb EXCEPT ![s] = [NoSuper EXCEPT !.state = "setup", !.rdonly = ro, !.itable = it]]
      BY Zenon DEF Mount
    <3>2. [NoSuper EXCEPT !.state = "setup", !.rdonly = ro, !.itable = it] \in Superblock
      BY ZenonT(30) DEF NoSuper, Superblock
    <3> QED
      BY <3>1, <3>2, SuperTyped, Zenon DEF IInv, Typed
  <2> QED
    BY <1>1, <2>1 DEF IInv, Typed, PCs, TPCs, OPs, Mount, Goto, info, thread, volume, caller
<1>4. Locks'
  BY LazyInitAssumption
  DEF IInv, Typed, PCs, TPCs, Locks, InLi, Lives, Calls, Superblock, NoSuper, Mount, Goto, info,
      thread, volume, caller
<1>5. Requests'
  BY <1>2
  DEF IInv, Typed, Locks, InLi, Requests, Lives, Calls, SameList, Superblock, NoSuper, Mount,
      Goto, info, thread, volume, caller
<1>6. Cursors'
  BY <1>2, Zenon
  DEF IInv, Typed, Locks, Requests, Cursors, Lives, SameList, Mount, Goto, info, thread, volume,
      caller
<1>7. Lives'
  BY <1>1, LazyInitAssumption
  DEF IInv, Typed, Locks, InLi, Lives, Mount, Goto, info, thread, volume, caller
<1>8. Calls'
  BY <1>2
  DEF IInv, Typed, OPs, Locks, Requests, Calls, SameList, Superblock, NoSuper, Mount, Goto, info,
      thread, volume, caller
<1> QED
  BY <1>3, <1>4, <1>5, <1>6, <1>7, <1>8, Zenon DEF IInv

(* A remount starts. *)
LEMMA RemountStep ==
    ASSUME IInv, NEW s \in Supers, Remount(s)
    PROVE  IInv'
<1>1. list' = list
  BY Zenon DEF Remount, Goto, Exclusive, info, thread, volume, caller
<1>2. SameList
  BY <1>1, Unchanged, Zenon
<1>3. Typed'
  <2>1. sb' \in [Supers -> Superblock]
    <3>1. PICK ro, it \in BOOLEAN : sb' = [sb EXCEPT ![s] = [sb[s] EXCEPT !.rdonly = ro, !.itable = it]]
      BY Zenon DEF Remount
    <3>2. [sb[s] EXCEPT !.rdonly = ro, !.itable = it] \in Superblock
      BY ZenonT(30) DEF IInv, Typed, Superblock
    <3> QED
      BY <3>1, <3>2, SuperTyped, ZenonT(60) DEF IInv, Typed
  <2> QED
    BY <1>1, <2>1 DEF IInv, Typed, PCs, TPCs, OPs, Remount, Goto, info, thread, volume, caller
<1>4. Locks'
  BY LazyInitAssumption
  DEF IInv, Typed, PCs, TPCs, Locks, InLi, Lives, Calls, Superblock, NoSuper, Remount, Goto,
      Exclusive, info, thread, volume, caller
<1>5. Requests'
  BY <1>2
  DEF IInv, Typed, Locks, InLi, Requests, Lives, Calls, SameList, Superblock, NoSuper, Remount,
      Goto, Exclusive, info, thread, volume, caller
<1>6. Cursors'
  BY <1>2, Zenon
  DEF IInv, Typed, Locks, Requests, Cursors, Lives, SameList, Remount, Goto, Exclusive, info,
      thread, volume, caller
<1>7. Lives'
  BY <1>1, LazyInitAssumption
  DEF IInv, Typed, Locks, InLi, Lives, Remount, Goto, Exclusive, info, thread, volume, caller
<1>8. Calls'
  BY <1>2
  DEF IInv, Typed, OPs, Locks, Requests, Calls, SameList, Superblock, NoSuper, Remount, Goto,
      Exclusive, info, thread, volume, caller
<1> QED
  BY <1>3, <1>4, <1>5, <1>6, <1>7, <1>8, Zenon DEF IInv

(* An unmount starts. *)
LEMMA UmountStep ==
    ASSUME IInv, NEW s \in Supers, Umount(s)
    PROVE  IInv'
<1>1. list' = list
  BY Zenon DEF Umount, Goto, Exclusive, info, thread, volume, caller
<1>2. SameList
  BY <1>1, Unchanged, Zenon
<1>3. Typed'
  BY <1>1, LazyInitAssumption
  DEF IInv, Typed, PCs, TPCs, OPs, Umount, Goto, Exclusive, info, thread, volume, caller
<1>4. Locks'
  BY LazyInitAssumption, Zenon
  DEF IInv, Typed, PCs, TPCs, Locks, InLi, Lives, Calls, Superblock, NoSuper, Umount, Goto,
      Exclusive, info, thread, volume, caller
<1>5. Requests'
  BY <1>2
  DEF IInv, Typed, Locks, InLi, Requests, Lives, Calls, SameList, Superblock, NoSuper, Umount,
      Goto, Exclusive, info, thread, volume, caller
<1>6. Cursors'
  BY <1>2, Zenon
  DEF IInv, Typed, Locks, Requests, Cursors, Lives, SameList, Umount, Goto, Exclusive, info,
      thread, volume, caller
<1>7. Lives'
  BY <1>1, LazyInitAssumption, Zenon
  DEF IInv, Typed, Locks, InLi, Lives, Umount, Goto, Exclusive, info, thread, volume, caller
<1>8. Calls'
  BY <1>2, Zenon
  DEF IInv, Typed, OPs, Locks, Requests, Calls, SameList, Superblock, NoSuper, Umount, Goto,
      Exclusive, info, thread, volume, caller
<1> QED
  BY <1>3, <1>4, <1>5, <1>6, <1>7, <1>8, Zenon DEF IInv

(* A freeze. *)
LEMMA FreezeStep ==
    ASSUME IInv, NEW s \in Supers, Freeze(s)
    PROVE  IInv'
<1>1. list' = list
  BY Zenon DEF Freeze, Exclusive, info, thread, volume, caller
<1>2. SameList
  BY <1>1, Unchanged, Zenon
<1>3. Typed'
  <2>1. sb' \in [Supers -> Superblock]
    <3>1. [sb[s] EXCEPT !.frozen = TRUE] \in Superblock
      BY ZenonT(60) DEF IInv, Typed, Superblock
    <3> QED
      BY <3>1, SuperTyped, Zenon DEF IInv, Typed, Freeze
  <2> QED
    BY <1>1, <2>1 DEF IInv, Typed, PCs, TPCs, OPs, Freeze, Goto, info, thread, volume, caller
<1>4. Locks'
  BY LazyInitAssumption, Zenon
  DEF IInv, Typed, PCs, TPCs, Locks, InLi, Lives, Calls, Superblock, NoSuper, Freeze, Exclusive,
      info, thread, volume, caller
<1>5. Requests'
  BY <1>2
  DEF IInv, Typed, Locks, InLi, Requests, Lives, Calls, SameList, Superblock, NoSuper, Freeze,
      Exclusive, info, thread, volume, caller
<1>6. Cursors'
  BY <1>2, Zenon
  DEF IInv, Typed, Locks, Requests, Cursors, Lives, SameList, Freeze, Exclusive, info, thread,
      volume, caller
<1>7. Lives'
  BY <1>1, LazyInitAssumption, Zenon
  DEF IInv, Typed, Locks, InLi, Lives, Freeze, Exclusive, info, thread, volume, caller
<1>8. Calls'
  BY <1>2
  DEF IInv, Typed, OPs, Locks, Requests, Calls, SameList, Superblock, NoSuper, Freeze, Exclusive,
      info, thread, volume, caller
<1> QED
  BY <1>3, <1>4, <1>5, <1>6, <1>7, <1>8, Zenon DEF IInv

(* A thaw. *)
LEMMA ThawStep ==
    ASSUME IInv, NEW s \in Supers, Thaw(s)
    PROVE  IInv'
<1>1. list' = list
  BY Zenon DEF Thaw, Exclusive, info, thread, volume, caller
<1>2. SameList
  BY <1>1, Unchanged, Zenon
<1>3. Typed'
  <2>1. sb' \in [Supers -> Superblock]
    <3>1. [sb[s] EXCEPT !.frozen = FALSE] \in Superblock
      BY ZenonT(60) DEF IInv, Typed, Superblock
    <3> QED
      BY <3>1, SuperTyped, Zenon DEF IInv, Typed, Thaw
  <2> QED
    BY <1>1, <2>1 DEF IInv, Typed, PCs, TPCs, OPs, Thaw, Goto, info, thread, volume, caller
<1>4. Locks'
  BY LazyInitAssumption, Zenon
  DEF IInv, Typed, PCs, TPCs, Locks, InLi, Lives, Calls, Superblock, NoSuper, Thaw, Exclusive,
      info, thread, volume, caller
<1>5. Requests'
  BY <1>2
  DEF IInv, Typed, Locks, InLi, Requests, Lives, Calls, SameList, Superblock, NoSuper, Thaw,
      Exclusive, info, thread, volume, caller
<1>6. Cursors'
  BY <1>2, Zenon
  DEF IInv, Typed, Locks, Requests, Cursors, Lives, SameList, Thaw, Exclusive, info, thread,
      volume, caller
<1>7. Lives'
  BY <1>1, LazyInitAssumption, Zenon
  DEF IInv, Typed, Locks, InLi, Lives, Thaw, Exclusive, info, thread, volume, caller
<1>8. Calls'
  BY <1>2
  DEF IInv, Typed, OPs, Locks, Requests, Calls, SameList, Superblock, NoSuper, Thaw, Exclusive,
      info, thread, volume, caller
<1> QED
  BY <1>3, <1>4, <1>5, <1>6, <1>7, <1>8, Zenon DEF IInv

(* An error makes the volume read-only. *)
LEMMA HandleErrorStep ==
    ASSUME IInv, NEW s \in Supers, HandleError(s)
    PROVE  IInv'
<1>1. list' = list
  BY Zenon DEF HandleError, info, thread, volume, caller
<1>2. SameList
  BY <1>1, Unchanged, Zenon
<1>3. Typed'
  <2>1. sb' \in [Supers -> Superblock]
    <3>1. [sb[s] EXCEPT !.rdonly = TRUE, !.shutdown = TRUE] \in Superblock
      BY ZenonT(60) DEF IInv, Typed, Superblock
    <3> QED
      BY <3>1, SuperTyped, Zenon DEF IInv, Typed, HandleError
  <2> QED
    BY <1>1, <2>1 DEF IInv, Typed, PCs, TPCs, OPs, HandleError, Goto, info, thread, volume, caller
<1>4. Locks'
  BY LazyInitAssumption
  DEF IInv, Typed, PCs, TPCs, Locks, InLi, Lives, Calls, Superblock, NoSuper, HandleError, info,
      thread, volume, caller
<1>5. Requests'
  BY <1>2
  DEF IInv, Typed, Locks, InLi, Requests, Lives, Calls, SameList, Superblock, NoSuper,
      HandleError, info, thread, volume, caller
<1>6. Cursors'
  BY <1>2, Zenon
  DEF IInv, Typed, Locks, Requests, Cursors, Lives, SameList, HandleError, info, thread, volume,
      caller
<1>7. Lives'
  BY <1>1, LazyInitAssumption, Zenon
  DEF IInv, Typed, Locks, InLi, Lives, HandleError, info, thread, volume, caller
<1>8. Calls'
  BY <1>2
  DEF IInv, Typed, OPs, Locks, Requests, Calls, SameList, Superblock, NoSuper, HandleError, info,
      thread, volume, caller
<1> QED
  BY <1>3, <1>4, <1>5, <1>6, <1>7, <1>8, Zenon DEF IInv

(* Registration, up to the request. *)
LEMMA RegLockStep ==
    ASSUME IInv, NEW s \in Supers, RegLock(s)
    PROVE  IInv'
<1>1. list' = list
  BY Zenon DEF RegLock, Goto, RegError, info, thread, volume, caller
<1>2. SameList
  BY <1>1, Unchanged, Zenon
<1>3. Typed'
  <2>1. op' \in [Supers -> OPs]
    <3>1. CASE RegError(s)
      BY <3>1, Zenon DEF IInv, Typed, OPs, RegError
    <3>2. CASE op' = op
      BY <3>2, Zenon DEF IInv, Typed
    <3> QED
      BY <3>1, <3>2, Zenon DEF RegLock
  <2>2. pc' \in [Supers -> PCs]
    BY Zenon DEF IInv, Typed, PCs, RegLock, Goto
  <2>3. li_info' \in BOOLEAN /\ running' \in BOOLEAN
    BY Zenon DEF IInv, Typed, RegLock
  <2> QED
    BY <1>1, <2>1, <2>2, <2>3, ZenonT(60) DEF IInv, Typed, TPCs, RegLock, info, thread, volume
<1>4. Locks'
  BY LazyInitAssumption
  DEF IInv, Typed, PCs, TPCs, Locks, InLi, Lives, Calls, Superblock, NoSuper, RegLock, Goto,
      RegError, info, thread, volume, caller
<1>5. Requests'
  BY <1>2
  DEF IInv, Typed, Locks, InLi, Requests, Lives, Calls, SameList, Superblock, NoSuper, RegLock,
      Goto, RegError, info, thread, volume, caller
<1>6. Cursors'
  BY <1>2, Zenon
  DEF IInv, Typed, Locks, Requests, Cursors, Lives, SameList, RegLock, Goto, RegError, info,
      thread, volume, caller
<1>7. Lives'
  BY <1>1, LazyInitAssumption
  DEF IInv, Typed, Locks, InLi, Lives, RegLock, Goto, RegError, info, thread, volume, caller
<1>8. Calls'
  BY <1>2
  DEF IInv, Typed, OPs, Locks, Requests, Calls, SameList, Superblock, NoSuper, RegLock, Goto,
      RegError, info, thread, volume, caller
<1> QED
  BY <1>3, <1>4, <1>5, <1>6, <1>7, <1>8, Zenon DEF IInv

(* Registration of a volume that has a request. *)
LEMMA RegTouchStep ==
    ASSUME IInv, NEW s \in Supers, RegTouch(s)
    PROVE  IInv'
<1>1. list' = list
  BY Zenon DEF RegTouch, Goto, info, thread, volume, caller
<1>2. SameList
  BY <1>1, Unchanged, Zenon
<1>3. Typed'
  BY <1>1, LazyInitAssumption
  DEF IInv, Typed, PCs, TPCs, OPs, RegTouch, Goto, info, thread, volume, caller
<1>4. Locks'
  BY LazyInitAssumption, ZenonT(60)
  DEF IInv, Typed, PCs, TPCs, Locks, InLi, Lives, Calls, Superblock, NoSuper, RegTouch, Goto,
      info, thread, volume, caller
<1>5. Requests'
  BY <1>2
  DEF IInv, Typed, Locks, InLi, Requests, Lives, Calls, SameList, Superblock, NoSuper, RegTouch,
      Goto, info, thread, volume, caller
<1>6. Cursors'
  BY <1>2, Zenon
  DEF IInv, Typed, Locks, Requests, Cursors, Lives, SameList, RegTouch, Goto, info, thread,
      volume, caller
<1>7. Lives'
  BY <1>1, LazyInitAssumption, Zenon
  DEF IInv, Typed, Locks, InLi, Lives, RegTouch, Goto, info, thread, volume, caller
<1>8. Calls'
  BY <1>2, Zenon
  DEF IInv, Typed, OPs, Locks, Requests, Calls, SameList, Superblock, NoSuper, RegTouch, Goto,
      info, thread, volume, caller
<1> QED
  BY <1>3, <1>4, <1>5, <1>6, <1>7, <1>8, Zenon DEF IInv

(* Registration: the pointer and the thread. *)
LEMMA RegPtrStep ==
    ASSUME IInv, NEW s \in Supers, RegPtr(s)
    PROVE  IInv'
<1>1. list' = list
  BY Zenon DEF RegPtr, Goto, RegError, info, thread, volume, caller
<1>2. SameList
  BY <1>1, Unchanged, Zenon
<1>3. Typed'
  <2>1. op' \in [Supers -> OPs]
    <3>1. CASE RegError(s)
      BY <3>1, Zenon DEF IInv, Typed, OPs, RegError
    <3>2. CASE op' = op
      BY <3>2, Zenon DEF IInv, Typed
    <3> QED
      BY <3>1, <3>2, Zenon DEF RegPtr
  <2>2. pc' \in [Supers -> PCs]
    BY Zenon DEF IInv, Typed, PCs, RegPtr, Goto
  <2>3. li_info' \in BOOLEAN /\ running' \in BOOLEAN
    BY Zenon DEF IInv, Typed, RegPtr
  <2> QED
    BY <1>1, <2>1, <2>2, <2>3 DEF IInv, Typed, TPCs, RegPtr, info, thread, volume
<1>4. Locks'
  BY LazyInitAssumption
  DEF IInv, Typed, PCs, TPCs, Locks, InLi, Lives, Calls, Superblock, NoSuper, RegPtr, Goto,
      RegError, info, thread, volume, caller
<1>5. Requests'
  BY <1>2
  DEF IInv, Typed, Locks, InLi, Requests, Lives, Calls, SameList, Superblock, NoSuper, RegPtr,
      Goto, RegError, info, thread, volume, caller
<1>6. Cursors'
  BY <1>2, Zenon
  DEF IInv, Typed, Locks, Requests, Cursors, Lives, SameList, RegPtr, Goto, RegError, info,
      thread, volume, caller
<1>7. Lives'
  BY <1>1, LazyInitAssumption
  DEF IInv, Typed, Locks, InLi, Lives, RegPtr, Goto, RegError, info, thread, volume, caller
<1>8. Calls'
  BY <1>2
  DEF IInv, Typed, OPs, Locks, Requests, Calls, SameList, Superblock, NoSuper, RegPtr, Goto,
      RegError, info, thread, volume, caller
<1> QED
  BY <1>3, <1>4, <1>5, <1>6, <1>7, <1>8, Zenon DEF IInv

(* Registration ends. *)
LEMMA RegOutStep ==
    ASSUME IInv, NEW s \in Supers, RegOut(s)
    PROVE  IInv'
<1>1. list' = list
  BY Zenon DEF RegOut, Goto, info, thread, volume, caller
<1>2. SameList
  BY <1>1, Unchanged, Zenon
<1>a. /\ op[s] \in {"fail", "umount"} => ~OnList(s)
      /\ tpc \in {"run", "relock"} => pos # s
      /\ li_mtx = s /\ li_mtx' = None
  BY Zenon DEF RegOut, IInv, Calls, Locks, InLi
<1>3. Typed'
  <2>1. CASE Return(s)
    BY <1>1, <1>2, <1>a, <2>1, Returned, LazyInitAssumption
    DEF IInv, Typed, PCs, OPs, RegOut, info, thread, volume, caller
  <2>2. CASE ~Return(s)
    BY <1>1, <1>2, <2>2, LazyInitAssumption, ZenonT(60)
    DEF IInv, Typed, PCs, OPs, Goto, RegOut, info, thread, volume, caller
  <2> QED
    BY <2>1, <2>2, Zenon
<1>4. Locks'
  <2>1. CASE Return(s)
    BY <1>1, <1>2, <1>a, <2>1, Returned, LazyInitAssumption
    DEF IInv, Typed, Locks, InLi, RegOut, info, thread, volume, caller
  <2>2. CASE ~Return(s)
    BY <1>1, <1>2, <2>2, LazyInitAssumption
    DEF IInv, Typed, Locks, InLi, Goto, RegOut, info, thread, volume, caller
  <2> QED
    BY <2>1, <2>2, Zenon
<1>5. Requests'
  <2>1. CASE Return(s)
    BY <1>1, <1>2, <1>a, <2>1, Returned, LazyInitAssumption
    DEF IInv, Typed, Requests, SameList, RegOut, info, thread, volume, caller
  <2>2. CASE ~Return(s)
    BY <1>1, <1>2, <2>2, LazyInitAssumption, ZenonT(60)
    DEF IInv, Typed, Requests, SameList, Goto, RegOut, info, thread, volume, caller
  <2> QED
    BY <2>1, <2>2, Zenon
<1>6. Cursors'
  <2>1. CASE Return(s)
    BY <1>1, <1>2, <1>a, <2>1, Returned, LazyInitAssumption, Zenon
    DEF IInv, Locks, Cursors, SameList, RegOut, info, thread, volume, caller
  <2>2. CASE ~Return(s)
    BY <1>1, <1>2, <2>2, LazyInitAssumption, Zenon
    DEF IInv, Locks, Cursors, SameList, Goto, RegOut, info, thread, volume, caller
  <2> QED
    BY <2>1, <2>2, Zenon
<1>7. Lives'
  <2>1. CASE Return(s)
    BY <1>1, <1>2, <1>a, <2>1, Returned, LazyInitAssumption
    DEF IInv, Typed, Locks, InLi, Lives, RegOut, info, thread, volume, caller
  <2>2. CASE ~Return(s)
    BY <1>1, <1>2, <2>2, LazyInitAssumption, Zenon
    DEF IInv, Typed, Locks, InLi, Lives, Goto, RegOut, info, thread, volume, caller
  <2> QED
    BY <2>1, <2>2, Zenon
<1>8. Calls'
  <2>1. CASE Return(s)
    BY <1>1, <1>2, <1>a, <2>1, Returned, LazyInitAssumption
    DEF IInv, Typed, Calls, SameList, RegOut, info, thread, volume, caller
  <2>2. CASE ~Return(s)
    BY <1>1, <1>2, <2>2, LazyInitAssumption
    DEF IInv, Typed, Calls, SameList, Goto, RegOut, info, thread, volume, caller
  <2> QED
    BY <2>1, <2>2, Zenon
<1> QED
  BY <1>3, <1>4, <1>5, <1>6, <1>7, <1>8, Zenon DEF IInv

(* Removal takes the mutex. *)
LEMMA UnregLockStep ==
    ASSUME IInv, NEW s \in Supers, UnregLock(s)
    PROVE  IInv'
<1>1. list' = list
  BY Zenon DEF UnregLock, Goto, info, thread, volume, caller
<1>2. SameList
  BY <1>1, Unchanged, Zenon
<1>a. /\ Return(s) => ~li_info /\ ~OnList(s) /\ li_mtx' = None
      /\ tpc \in {"run", "relock"} => pos # s
  <2>1. Return(s) => ~li_info /\ li_mtx' = None
    BY Returned, Zenon DEF UnregLock, Goto, IInv, Typed
  <2> QED
    BY <2>1, EmptyList, Zenon DEF IInv, Lives, Locks, UnregLock
<1>3. Typed'
  <2>1. CASE Return(s)
    BY <1>1, <1>2, <1>a, <2>1, Returned, LazyInitAssumption, ZenonT(60)
    DEF IInv, Typed, PCs, OPs, UnregLock, info, thread, volume, caller
  <2>2. CASE ~Return(s)
    BY <1>1, <1>2, <2>2, LazyInitAssumption, Zenon
    DEF IInv, Typed, PCs, OPs, Goto, UnregLock, info, thread, volume, caller
  <2> QED
    BY <2>1, <2>2, Zenon
<1>4. Locks'
  <2>1. CASE Return(s)
    BY <1>1, <1>2, <1>a, <2>1, Returned, LazyInitAssumption
    DEF IInv, Typed, Locks, InLi, UnregLock, info, thread, volume, caller
  <2>2. CASE ~Return(s)
    BY <1>1, <1>2, <2>2, LazyInitAssumption
    DEF IInv, Typed, Locks, InLi, Goto, UnregLock, info, thread, volume, caller
  <2> QED
    BY <2>1, <2>2, Zenon
<1>5. Requests'
  <2>1. CASE Return(s)
    BY <1>1, <1>2, <1>a, <2>1, Returned, LazyInitAssumption
    DEF IInv, Typed, Requests, SameList, UnregLock, info, thread, volume, caller
  <2>2. CASE ~Return(s)
    BY <1>1, <1>2, <2>2, LazyInitAssumption, Zenon
    DEF IInv, Typed, Requests, SameList, Goto, UnregLock, info, thread, volume, caller
  <2> QED
    BY <2>1, <2>2, Zenon
<1>6. Cursors'
  <2>1. CASE Return(s)
    BY <1>1, <1>2, <1>a, <2>1, Returned, LazyInitAssumption, Zenon
    DEF IInv, Locks, Cursors, SameList, UnregLock, info, thread, volume, caller
  <2>2. CASE ~Return(s)
    BY <1>1, <1>2, <2>2, LazyInitAssumption, Zenon
    DEF IInv, Locks, Cursors, SameList, Goto, UnregLock, info, thread, volume, caller
  <2> QED
    BY <2>1, <2>2, Zenon
<1>7. Lives'
  <2>1. CASE Return(s)
    BY <1>1, <1>2, <1>a, <2>1, Returned, LazyInitAssumption
    DEF IInv, Typed, Locks, InLi, Lives, UnregLock, info, thread, volume, caller
  <2>2. CASE ~Return(s)
    BY <1>1, <1>2, <2>2, LazyInitAssumption, Zenon
    DEF IInv, Typed, Locks, InLi, Lives, Goto, UnregLock, info, thread, volume, caller
  <2> QED
    BY <2>1, <2>2, Zenon
<1>8. Calls'
  <2>1. CASE Return(s)
    BY <1>1, <1>2, <1>a, <2>1, Returned, LazyInitAssumption
    DEF IInv, Typed, Calls, SameList, UnregLock, info, thread, volume, caller
  <2>2. CASE ~Return(s)
    BY <1>1, <1>2, <2>2, LazyInitAssumption
    DEF IInv, Typed, Calls, SameList, Goto, UnregLock, info, thread, volume, caller
  <2> QED
    BY <2>1, <2>2, Zenon
<1> QED
  BY <1>3, <1>4, <1>5, <1>6, <1>7, <1>8, Zenon DEF IInv

(* Time passes. *)
LEMMA TickStep ==
    ASSUME IInv, NEW s \in Supers, Tick(s)
    PROVE  IInv'
<1>1. list' = list
  BY Zenon DEF Tick, info, thread, volume, caller
<1>2. SameList
  BY <1>1, Unchanged, Zenon
<1>3. Typed'
  BY <1>1, LazyInitAssumption DEF IInv, Typed, PCs, TPCs, OPs, Tick, info, thread, volume, caller
<1>4. Locks'
  BY LazyInitAssumption, Zenon
  DEF IInv, Typed, PCs, TPCs, Locks, InLi, Lives, Calls, Superblock, NoSuper, Tick, info, thread,
      volume, caller
<1>5. Requests'
  BY <1>2, Zenon
  DEF IInv, Typed, Locks, InLi, Requests, Lives, Calls, SameList, Superblock, NoSuper, Tick, info,
      thread, volume, caller
<1>6. Cursors'
  BY <1>2, Zenon
  DEF IInv, Typed, Locks, Requests, Cursors, Lives, SameList, Tick, info, thread, volume, caller
<1>7. Lives'
  BY <1>1, LazyInitAssumption, Zenon
  DEF IInv, Typed, Locks, InLi, Lives, Tick, info, thread, volume, caller
<1>8. Calls'
  BY <1>2, Zenon
  DEF IInv, Typed, OPs, Locks, Requests, Calls, SameList, Superblock, NoSuper, Tick, info, thread,
      volume, caller
<1> QED
  BY <1>3, <1>4, <1>5, <1>6, <1>7, <1>8, Zenon DEF IInv

(* The thread meets a volume in use. *)
LEMMA BusyStep ==
    ASSUME IInv, Busy
    PROVE  IInv'
<1>1. list' = list
  BY Zenon DEF Busy, Advance, info, thread, volume, caller
<1>2. SameList
  BY <1>1, Unchanged, Zenon
<1>3. Typed'
  <2>1. nxt' \in Supers \cup {None}
    BY Zenon, FollowingFacts DEF IInv, Requests, Busy, Advance
  <2> QED
    BY <1>1, <2>1, Zenon DEF IInv, Typed, TPCs, Busy, Advance, info, volume, caller
<1>4. Locks'
  BY LazyInitAssumption, Zenon
  DEF IInv, Typed, PCs, TPCs, Locks, InLi, Lives, Calls, Superblock, NoSuper, Busy, Advance, info,
      thread, volume, caller
<1>5. Requests'
  BY <1>2, Zenon
  DEF IInv, Typed, Locks, InLi, Requests, Lives, Calls, SameList, Superblock, NoSuper, Busy,
      Advance, info, thread, volume, caller
<1>6. Cursors'
  <2>1. nxt' # None => OnList(nxt')
    BY FollowingFacts, Zenon DEF IInv, Requests, Busy, Advance
  <2> QED
    BY Zenon, <1>2, <2>1 DEF IInv, Cursors, SameList, Busy, Advance
<1>7. Lives'
  BY <1>1, LazyInitAssumption, Zenon
  DEF IInv, Typed, Locks, InLi, Lives, Busy, Advance, info, thread, volume, caller
<1>8. Calls'
  BY <1>2, Zenon
  DEF IInv, Typed, OPs, Locks, Requests, Calls, SameList, Superblock, NoSuper, Busy, Advance,
      info, thread, volume, caller
<1> QED
  BY <1>3, <1>4, <1>5, <1>6, <1>7, <1>8, Zenon DEF IInv

(* The thread passes over a request. *)
LEMMA SkipStep ==
    ASSUME IInv, Skip
    PROVE  IInv'
<1>1. list' = list
  BY Zenon DEF Skip, Advance, info, thread, volume, caller
<1>2. SameList
  BY <1>1, Unchanged, Zenon
<1>3. Typed'
  <2>1. nxt' \in Supers \cup {None}
    BY Zenon, FollowingFacts DEF IInv, Requests, Skip, Advance
  <2> QED
    BY <1>1, <2>1, Zenon DEF IInv, Typed, TPCs, Skip, Advance, info, volume, caller
<1>4. Locks'
  BY LazyInitAssumption, Zenon
  DEF IInv, Typed, PCs, TPCs, Locks, InLi, Lives, Calls, Superblock, NoSuper, Skip, Advance, info,
      thread, volume, caller
<1>5. Requests'
  BY <1>2, Zenon
  DEF IInv, Typed, Locks, InLi, Requests, Lives, Calls, SameList, Superblock, NoSuper, Skip,
      Advance, info, thread, volume, caller
<1>6. Cursors'
  <2>1. nxt' # None => OnList(nxt')
    BY FollowingFacts, Zenon DEF IInv, Requests, Skip, Advance
  <2> QED
    BY <1>2, <2>1, Zenon DEF IInv, Cursors, SameList, Skip, Advance
<1>7. Lives'
  BY <1>1, LazyInitAssumption, Zenon
  DEF IInv, Typed, Locks, InLi, Lives, Skip, Advance, info, thread, volume, caller
<1>8. Calls'
  BY <1>2, Zenon
  DEF IInv, Typed, OPs, Locks, Requests, Calls, SameList, Superblock, NoSuper, Skip, Advance,
      info, thread, volume, caller
<1> QED
  BY <1>3, <1>4, <1>5, <1>6, <1>7, <1>8, Zenon DEF IInv

(* The thread takes a volume. *)
LEMMA TakeStep ==
    ASSUME IInv, Take
    PROVE  IInv'
<1>1. list' = list
  BY Zenon DEF Take, info, thread, volume, caller
<1>2. SameList
  BY <1>1, Unchanged, Zenon
<1>3. Typed'
  BY <1>1, LazyInitAssumption, Zenon DEF IInv, Typed, PCs, TPCs, OPs, Take, info, thread, volume, caller
<1>a. pos \in Supers /\ OnList(pos) /\ sb[pos].state = "mounted" /\ pos \in s_li_request
  BY Zenon DEF IInv, Typed, Cursors, Requests, Calls, Take
<1>4. Locks'
  BY <1>a, LazyInitAssumption, Zenon DEF IInv, Typed, TPCs, Locks, InLi, Take, volume, caller
<1>5. Requests'
  BY <1>2, Zenon
  DEF IInv, Typed, Locks, InLi, Requests, Lives, Calls, SameList, Superblock, NoSuper, Take, info,
      thread, volume, caller
<1>6. Cursors'
  BY <1>2, <1>a, Zenon DEF Cursors, SameList, Take
<1>7. Lives'
  BY <1>1, LazyInitAssumption, Zenon
  DEF IInv, Typed, Locks, InLi, Lives, Take, info, thread, volume, caller
<1>8. Calls'
  BY <1>2, Zenon
  DEF IInv, Typed, OPs, Locks, Requests, Calls, SameList, Superblock, NoSuper, Take, info, thread,
      volume, caller
<1> QED
  BY <1>3, <1>4, <1>5, <1>6, <1>7, <1>8, Zenon DEF IInv

(* The thread works on a request. *)
LEMMA RunStep ==
    ASSUME IInv, Run
    PROVE  IInv'
<1>1. list' = list
  BY Zenon DEF Run, RunPrefetch, RunItable, info, thread, volume, caller
<1>2. SameList
  BY <1>1, Unchanged, Zenon
<1>3. Typed'
  <2>1. err' \in BOOLEAN
    <3>1. CASE RunPrefetch
      BY <3>1, Zenon DEF RunPrefetch
    <3>2. CASE RunItable
      <4>1. pos \in Supers
        BY Zenon DEF IInv, Locks, Run
      <4>2. sb[pos].rdonly \in BOOLEAN
        BY <4>1, Zenon DEF IInv, Typed, Superblock
      <4> QED
        BY Zenon, <3>2, <4>2 DEF RunItable
    <3> QED
      BY <3>1, <3>2, Zenon DEF Run
  <2> QED
    BY <1>1, <2>1, Zenon DEF IInv, Typed, TPCs, Run, info, volume, caller
<1>4. Locks'
  BY LazyInitAssumption, Zenon
  DEF IInv, Typed, PCs, TPCs, Locks, InLi, Lives, Calls, Superblock, NoSuper, Run, RunPrefetch,
      RunItable, info, thread, volume, caller
<1>5. Requests'
  BY <1>2, Zenon
  DEF IInv, Typed, Locks, InLi, Requests, Lives, Calls, SameList, Superblock, NoSuper, Run,
      RunPrefetch, RunItable, info, thread, volume, caller
<1>6. Cursors'
  BY <1>2, Zenon
  DEF IInv, Typed, Locks, Requests, Cursors, Lives, SameList, Run, RunPrefetch, RunItable, info,
      thread, volume, caller
<1>7. Lives'
  BY <1>1, LazyInitAssumption, Zenon
  DEF IInv, Typed, Locks, InLi, Lives, Run, RunPrefetch, RunItable, info, thread, volume, caller
<1>8. Calls'
  BY <1>2, Zenon
  DEF IInv, Typed, OPs, Locks, Requests, Calls, SameList, Superblock, NoSuper, Run, RunPrefetch,
      RunItable, info, thread, volume, caller
<1> QED
  BY <1>3, <1>4, <1>5, <1>6, <1>7, <1>8, Zenon DEF IInv

(* The thread is back on the list. *)
LEMMA RelockStep ==
    ASSUME IInv, Relock
    PROVE  IInv'
<1>1. list' = list
  BY Zenon DEF Relock, info, thread, volume, caller
<1>2. SameList
  BY <1>1, Unchanged, Zenon
<1>3. Typed'
  <2>1. nxt' \in Supers \cup {None}
    BY Zenon, FollowingFacts DEF IInv, Requests, Relock, thread
  <2> QED
    BY <1>1, <2>1, Zenon DEF IInv, Typed, TPCs, Relock, thread, info, volume, caller
<1>4. Locks'
  BY LazyInitAssumption, Zenon
  DEF IInv, Typed, PCs, TPCs, Locks, InLi, Lives, Calls, Superblock, NoSuper, Relock, info,
      thread, volume, caller
<1>5. Requests'
  BY <1>2, Zenon
  DEF IInv, Typed, Locks, InLi, Requests, Lives, Calls, SameList, Superblock, NoSuper, Relock,
      info, thread, volume, caller
<1>6. Cursors'
  <2>1. nxt' # None => OnList(nxt')
    BY FollowingFacts, Zenon DEF IInv, Requests, Relock, thread
  <2> QED
    BY <1>2, <2>1, Zenon DEF IInv, Cursors, SameList, Relock, thread
<1>7. Lives'
  BY <1>1, LazyInitAssumption, Zenon
  DEF IInv, Typed, Locks, InLi, Lives, Relock, info, thread, volume, caller
<1>8. Calls'
  BY <1>2, Zenon
  DEF IInv, Typed, OPs, Locks, Requests, Calls, SameList, Superblock, NoSuper, Relock, info,
      thread, volume, caller
<1> QED
  BY <1>3, <1>4, <1>5, <1>6, <1>7, <1>8, Zenon DEF IInv

(* The thread goes to sleep. *)
LEMMA SleepStep ==
    ASSUME IInv, Sleep
    PROVE  IInv'
<1>1. list' = list
  BY Zenon DEF Sleep, info, thread, volume, caller
<1>2. SameList
  BY <1>1, Unchanged, Zenon
<1>3. Typed'
  BY <1>1, LazyInitAssumption, Zenon DEF IInv, Typed, PCs, TPCs, OPs, Sleep, info, thread, volume, caller
<1>4. Locks'
  BY LazyInitAssumption, Zenon
  DEF IInv, Typed, PCs, TPCs, Locks, InLi, Lives, Calls, Superblock, NoSuper, Sleep, info, thread,
      volume, caller
<1>5. Requests'
  BY <1>2, Zenon
  DEF IInv, Typed, Locks, InLi, Requests, Lives, Calls, SameList, Superblock, NoSuper, Sleep,
      info, thread, volume, caller
<1>6. Cursors'
  BY <1>2, Zenon
  DEF IInv, Typed, Locks, Requests, Cursors, Lives, SameList, Sleep, info, thread, volume, caller
<1>7. Lives'
  BY <1>1, LazyInitAssumption, Zenon
  DEF IInv, Typed, Locks, InLi, Lives, Sleep, info, thread, volume, caller
<1>8. Calls'
  BY <1>2, Zenon
  DEF IInv, Typed, OPs, Locks, Requests, Calls, SameList, Superblock, NoSuper, Sleep, info,
      thread, volume, caller
<1> QED
  BY <1>3, <1>4, <1>5, <1>6, <1>7, <1>8, Zenon DEF IInv

(* The thread wakes up. *)
LEMMA WakeStep ==
    ASSUME IInv, Wake
    PROVE  IInv'
<1>1. list' = list
  BY Zenon DEF Wake, info, thread, volume, caller
<1>2. SameList
  BY <1>1, Unchanged, Zenon
<1>3. Typed'
  BY <1>1, LazyInitAssumption, ZenonT(60) DEF IInv, Typed, PCs, TPCs, OPs, Wake, info, thread, volume, caller
<1>4. Locks'
  BY LazyInitAssumption, Zenon
  DEF IInv, Typed, PCs, TPCs, Locks, InLi, Lives, Calls, Superblock, NoSuper, Wake, info, thread,
      volume, caller
<1>5. Requests'
  BY <1>2, Zenon
  DEF IInv, Typed, Locks, InLi, Requests, Lives, Calls, SameList, Superblock, NoSuper, Wake, info,
      thread, volume, caller
<1>6. Cursors'
  BY <1>2, Zenon
  DEF IInv, Typed, Locks, Requests, Cursors, Lives, SameList, Wake, info, thread, volume, caller
<1>7. Lives'
  BY <1>1, LazyInitAssumption, Zenon
  DEF IInv, Typed, Locks, InLi, Lives, Wake, info, thread, volume, caller
<1>8. Calls'
  BY <1>2, Zenon
  DEF IInv, Typed, OPs, Locks, Requests, Calls, SameList, Superblock, NoSuper, Wake, info, thread,
      volume, caller
<1> QED
  BY <1>3, <1>4, <1>5, <1>6, <1>7, <1>8, Zenon DEF IInv

(* The thread wants to leave. *)
LEMMA ExitLockStep ==
    ASSUME IInv, ExitLock
    PROVE  IInv'
<1>1. list' = list
  BY Zenon DEF ExitLock, info, thread, volume, caller
<1>2. SameList
  BY <1>1, Unchanged, Zenon
<1>3. Typed'
  BY <1>1, LazyInitAssumption, Zenon
  DEF IInv, Typed, PCs, TPCs, OPs, ExitLock, info, thread, volume, caller
<1>4. Locks'
  BY LazyInitAssumption
  DEF IInv, Typed, PCs, TPCs, Locks, InLi, Lives, Calls, Superblock, NoSuper, ExitLock, info,
      thread, volume, caller
<1>5. Requests'
  BY <1>2, Zenon
  DEF IInv, Typed, Locks, InLi, Requests, Lives, Calls, SameList, Superblock, NoSuper, ExitLock,
      info, thread, volume, caller
<1>6. Cursors'
  BY <1>2, Zenon
  DEF IInv, Typed, Locks, Requests, Cursors, Lives, SameList, ExitLock, info, thread, volume,
      caller
<1>7. Lives'
  BY <1>1, LazyInitAssumption, Zenon
  DEF IInv, Typed, Locks, InLi, Lives, ExitLock, info, thread, volume, caller
<1>8. Calls'
  BY <1>2, Zenon
  DEF IInv, Typed, OPs, Locks, Requests, Calls, SameList, Superblock, NoSuper, ExitLock, info,
      thread, volume, caller
<1> QED
  BY <1>3, <1>4, <1>5, <1>6, <1>7, <1>8, Zenon DEF IInv

(* The module is unloaded. *)
LEMMA UnloadCheckStep ==
    ASSUME IInv, UnloadCheck
    PROVE  IInv'
<1>1. list' = list
  BY Zenon DEF UnloadCheck, info, thread, volume, caller
<1>2. SameList
  BY <1>1, Unchanged, Zenon
<1>3. Typed'
  BY <1>1, LazyInitAssumption
  DEF IInv, Typed, PCs, TPCs, OPs, UnloadCheck, info, thread, volume, caller
<1>4. Locks'
  BY LazyInitAssumption, Zenon
  DEF IInv, Typed, PCs, TPCs, Locks, InLi, Lives, Calls, Superblock, NoSuper, UnloadCheck, info,
      thread, volume, caller
<1>5. Requests'
  BY <1>2, Zenon
  DEF IInv, Typed, Locks, InLi, Requests, Lives, Calls, SameList, Superblock, NoSuper,
      UnloadCheck, info, thread, volume, caller
<1>6. Cursors'
  BY <1>2, Zenon
  DEF IInv, Typed, Locks, Requests, Cursors, Lives, SameList, UnloadCheck, info, thread, volume,
      caller
<1>7. Lives'
  BY <1>1, LazyInitAssumption, Zenon
  DEF IInv, Typed, Locks, InLi, Lives, UnloadCheck, info, thread, volume, caller
<1>8. Calls'
  BY <1>2, Zenon
  DEF IInv, Typed, OPs, Locks, Requests, Calls, SameList, Superblock, NoSuper, UnloadCheck, info,
      thread, volume, caller
<1> QED
  BY <1>3, <1>4, <1>5, <1>6, <1>7, <1>8, Zenon DEF IInv

(* The thread is told to stop. *)
LEMMA KthreadStopStep ==
    ASSUME IInv, KthreadStop
    PROVE  IInv'
<1>1. list' = list
  BY Zenon DEF KthreadStop, info, thread, volume, caller
<1>2. SameList
  BY <1>1, Unchanged, Zenon
<1>3. Typed'
  BY <1>1, LazyInitAssumption
  DEF IInv, Typed, PCs, TPCs, OPs, KthreadStop, info, thread, volume, caller
<1>4. Locks'
  BY LazyInitAssumption, Zenon
  DEF IInv, Typed, PCs, TPCs, Locks, InLi, Lives, Calls, Superblock, NoSuper, KthreadStop, info,
      thread, volume, caller
<1>5. Requests'
  BY <1>2, Zenon
  DEF IInv, Typed, Locks, InLi, Requests, Lives, Calls, SameList, Superblock, NoSuper,
      KthreadStop, info, thread, volume, caller
<1>6. Cursors'
  BY <1>2, Zenon
  DEF IInv, Typed, Locks, Requests, Cursors, Lives, SameList, KthreadStop, info, thread, volume,
      caller
<1>7. Lives'
  BY <1>1, LazyInitAssumption, Zenon
  DEF IInv, Typed, Locks, InLi, Lives, KthreadStop, info, thread, volume, caller
<1>8. Calls'
  BY <1>2, Zenon
  DEF IInv, Typed, OPs, Locks, Requests, Calls, SameList, Superblock, NoSuper, KthreadStop, info,
      thread, volume, caller
<1> QED
  BY <1>3, <1>4, <1>5, <1>6, <1>7, <1>8, Zenon DEF IInv

(* The thread has stopped. *)
LEMMA UnloadDoneStep ==
    ASSUME IInv, UnloadDone
    PROVE  IInv'
<1>1. list' = list
  BY Zenon DEF UnloadDone, info, thread, volume, caller
<1>2. SameList
  BY <1>1, Unchanged, Zenon
<1>3. Typed'
  BY <1>1, LazyInitAssumption, Zenon
  DEF IInv, Typed, PCs, TPCs, OPs, UnloadDone, info, thread, volume, caller
<1>4. Locks'
  BY LazyInitAssumption, Zenon
  DEF IInv, Typed, PCs, TPCs, Locks, InLi, Lives, Calls, Superblock, NoSuper, UnloadDone, info,
      thread, volume, caller
<1>5. Requests'
  BY <1>2, Zenon
  DEF IInv, Typed, Locks, InLi, Requests, Lives, Calls, SameList, Superblock, NoSuper, UnloadDone,
      info, thread, volume, caller
<1>6. Cursors'
  BY <1>2, Zenon
  DEF IInv, Typed, Locks, Requests, Cursors, Lives, SameList, UnloadDone, info, thread, volume,
      caller
<1>7. Lives'
  BY <1>1, LazyInitAssumption, Zenon
  DEF IInv, Typed, Locks, InLi, Lives, UnloadDone, info, thread, volume, caller
<1>8. Calls'
  BY <1>2, Zenon
  DEF IInv, Typed, OPs, Locks, Requests, Calls, SameList, Superblock, NoSuper, UnloadDone, info,
      thread, volume, caller
<1> QED
  BY <1>3, <1>4, <1>5, <1>6, <1>7, <1>8, Zenon DEF IInv

(* Registration: the request is put on the list. *)
LEMMA RegAddStep ==
    ASSUME IInv, NEW s \in Supers, RegAdd(s)
    PROVE  IInv'
<1>1. list' = <<s>> \o list /\ ~OnList(s)
  BY Zenon DEF RegAdd, IInv, Requests
<1>2. /\ list' \in Seq(Supers) /\ Distinct' /\ list' # <<>>
      /\ \A t \in Supers : OnList(t)' <=> OnList(t) \/ t = s
  BY Zenon, <1>1, Pushed DEF IInv, Requests
<1>6. Cursors'
  <2>1. tpc \notin {"walk", "after"}
    BY LazyInitAssumption, Zenon DEF IInv, Locks, RegAdd
  <2> QED
    BY <1>2, <2>1, Zenon DEF IInv, Typed, Locks, Cursors, RegAdd, thread
<1>3. Typed'
  BY <1>1, <1>2, LazyInitAssumption
  DEF IInv, Typed, PCs, TPCs, RegAdd, Goto, info, thread, volume, caller
<1>4. Locks'
  BY <1>1, <1>2, LazyInitAssumption, Zenon
  DEF IInv, Typed, Locks, InLi, RegAdd, Goto, info, thread, volume, caller
<1>5. Requests'
  BY <1>1, <1>2, LazyInitAssumption
  DEF IInv, Typed, Locks, InLi, Requests, Calls, RegAdd, Goto, info, thread, volume, caller
<1>7. Lives'
  BY <1>1, <1>2, LazyInitAssumption, Zenon
  DEF IInv, Typed, Locks, InLi, Lives, RegAdd, Goto, info, thread, volume, caller
<1>8. Calls'
  BY <1>1, <1>2, LazyInitAssumption, Zenon
  DEF IInv, Typed, Requests, Calls, RegAdd, Goto, info, thread, volume, caller
<1> QED
  BY <1>3, <1>4, <1>5, <1>6, <1>7, <1>8, Zenon DEF IInv

(* Registration without a thread: the list is cleared. *)
LEMMA RegClearStep ==
    ASSUME IInv, NEW s \in Supers, RegClear(s)
    PROVE  IInv'
<1>1. /\ list' = <<>> /\ s_li_request' = s_li_request \ {list[i] : i \in DOMAIN list}
      /\ live' = live \ {list[i] : i \in DOMAIN list}
  BY Zenon DEF RegClear, ClearRequestList, FreeRequests
<1>2. /\ list' \in Seq(Supers) /\ Distinct'
      /\ \A t \in Supers : ~OnList(t)'
      /\ \A t \in Supers : t \in s_li_request' <=> t \in s_li_request /\ ~OnList(t)
  BY <1>1 DEF Distinct, OnList
<1>c. /\ pc[s] = "reg_clear" /\ pc' = [pc EXCEPT ![s] = "reg_out"] /\ list_mtx = None
      /\ running' = running /\ li_mtx' = li_mtx /\ list_mtx' = list_mtx /\ li_info' = FALSE
  BY Zenon DEF RegClear, Goto
<1>d. /\ sb' = sb /\ op' = op /\ unload' = unload
      /\ tpc' = tpc /\ pos' = pos /\ nxt' = nxt /\ err' = err /\ reader' = reader
  BY Zenon DEF RegClear, volume, thread
<1>3. Typed'
  <2>1. pc' \in [Supers -> PCs]
    BY <1>c, Zenon DEF IInv, Typed, PCs
  <2>2. /\ list' \in Seq(Supers) /\ li_info' \in BOOLEAN /\ running' \in BOOLEAN
        /\ err' \in BOOLEAN
    BY <1>2, <1>c, <1>d, Zenon DEF IInv, Typed
  <2> QED
    BY <1>c, <1>d, <2>1, <2>2, Zenon DEF IInv, Typed
<1>4. Locks'
  BY <1>1, <1>2, <1>c, <1>d, LazyInitAssumption, Zenon
  DEF IInv, Typed, Locks, InLi
<1>5. Requests'
  BY ZenonT(30), <1>1, <1>2, <1>c, <1>d, LazyInitAssumption
  DEF IInv, Typed, Locks, InLi, Requests, Calls
<1>6. Cursors'
  BY <1>1, <1>2, <1>c, <1>d, LazyInitAssumption, ZenonT(60)
  DEF IInv, Typed, Locks, Cursors, Lives, Calls
<1>7. Lives'
  BY <1>1, <1>2, <1>c, <1>d, LazyInitAssumption, Zenon
  DEF IInv, Typed, Locks, InLi, Lives
<1>8. Calls'
  BY Zenon, <1>1, <1>2, <1>c, <1>d, LazyInitAssumption
  DEF IInv, Typed, Requests, Calls
<1> QED
  BY <1>3, <1>4, <1>5, <1>6, <1>7, <1>8, Zenon DEF IInv

(* The thread is stopped. *)
LEMMA StoppedStep ==
    ASSUME IInv, Stopped
    PROVE  IInv'
<1>1. /\ list' = <<>> /\ s_li_request' = s_li_request \ {list[i] : i \in DOMAIN list}
      /\ live' = live \ {list[i] : i \in DOMAIN list}
  BY Zenon DEF Stopped, ClearRequestList, FreeRequests
<1>2. /\ list' \in Seq(Supers) /\ Distinct'
      /\ \A t \in Supers : ~OnList(t)'
      /\ \A t \in Supers : t \in s_li_request' <=> t \in s_li_request /\ ~OnList(t)
  BY <1>1 DEF Distinct, OnList
<1>3. Typed'
  BY ZenonT(30), <1>1, <1>2, LazyInitAssumption
  DEF IInv, Typed, PCs, TPCs, Stopped, info, thread, volume, caller
<1>4. Locks'
  BY <1>1, <1>2, LazyInitAssumption, Zenon
  DEF IInv, Typed, Locks, InLi, Stopped, info, thread, volume, caller
<1>5. Requests'
  BY ZenonT(30), <1>1, <1>2, LazyInitAssumption
  DEF IInv, Typed, Locks, InLi, Requests, Calls, Stopped, info, thread, volume, caller
<1>6. Cursors'
  BY <1>1, <1>2, LazyInitAssumption, Zenon
  DEF IInv, Typed, Locks, Cursors, Lives, Calls, Stopped, info, thread, volume, caller
<1>7. Lives'
  BY <1>1, <1>2, LazyInitAssumption, Zenon
  DEF IInv, Typed, Locks, InLi, Lives, Stopped, info, thread, volume, caller
<1>8. Calls'
  BY Zenon, <1>1, <1>2, LazyInitAssumption
  DEF IInv, Typed, Requests, Calls, Stopped, info, thread, volume, caller
<1> QED
  BY <1>3, <1>4, <1>5, <1>6, <1>7, <1>8, Zenon DEF IInv

(* Removal takes the request off the list. *)
LEMMA UnregListStep ==
    ASSUME IInv, NEW s \in Supers, UnregList(s)
    PROVE  IInv'
<1>1. /\ list' \in Seq(Supers) /\ Distinct' /\ s_li_request' = s_li_request \ {s}
      /\ \A t \in Supers : OnList(t)' <=> OnList(t) /\ t # s
      /\ \A t \in Supers : OnList(t)' => t \in live'
  <2>1. CASE s \in s_li_request
    <3>1. OnList(s) /\ list' = ListDel(list, At(s)) /\ live' = live \ {s}
      BY <2>1, Zenon DEF UnregList, RemoveLiRequest, FreeRequests, IInv, Requests
    <3> QED
      BY <2>1, <3>1, Removed, Zenon DEF IInv, Requests, UnregList, RemoveLiRequest, FreeRequests
  <2>2. CASE s \notin s_li_request
    <3>1. list' = list /\ s_li_request' = s_li_request /\ live' = live /\ ~OnList(s)
      BY Zenon, <2>2 DEF UnregList, IInv, Requests
    <3> QED
      BY <2>2, <3>1, Unchanged, Zenon DEF IInv, Typed, Requests, SameList
  <2> QED
    BY <2>1, <2>2, Zenon
<1>2. Return(s)
  BY Zenon DEF UnregList
<1>a. /\ tpc \notin {"walk", "after"} /\ li_mtx = s
      /\ tpc \in {"run", "relock"} => pos # s
  BY LazyInitAssumption, Zenon DEF IInv, Typed, Locks, InLi, UnregList
<1>b. list' # <<>> => li_info
  <2>1. SUFFICES ASSUME list' # <<>> PROVE list # <<>>
    BY Zenon DEF IInv, Lives
  <2>2. 1 \in DOMAIN list' /\ list'[1] \in Supers
    BY <1>1, <2>1
  <2>3. PICK t \in Supers : t = list'[1]
    BY <2>2, Zenon
  <2>4. OnList(t)'
    BY <2>2, <2>3, Zenon DEF OnList
  <2> QED
    BY <1>1, <2>4, EmptyList, Zenon DEF IInv
<1>c. /\ pc[s] = "unreg_list" /\ list_mtx = None /\ li_mtx' = None
      /\ running' = running /\ list_mtx' = list_mtx /\ li_info' = li_info /\ unload' = unload
  BY Zenon DEF UnregList
<1>d. tpc' = tpc /\ pos' = pos /\ nxt' = nxt /\ err' = err /\ reader' = reader
  BY Zenon DEF UnregList, thread
<1>e. /\ sb' \in [Supers -> Superblock] /\ pc' \in [Supers -> PCs] /\ op' \in [Supers -> OPs]
      /\ pc'[s] = "idle" /\ \A t \in Supers \ {s} : pc'[t] = pc[t]
      /\ \A t \in Supers \ {s} : op'[t] = op[t] /\ sb'[t] = sb[t]
      /\ sb'[s].state = IF op[s] \in {"fail", "umount"} THEN "none" ELSE "mounted"
  BY Zenon, Returned DEF IInv, UnregList
<1>3. Typed'
  BY <1>1, <1>2, <1>a, <1>b, <1>c, <1>d, <1>e, LazyInitAssumption, Zenon
  DEF IInv, Typed, PCs, OPs
<1>4. Locks'
  BY <1>1, <1>2, <1>a, <1>b, <1>c, <1>d, <1>e, LazyInitAssumption, Zenon
  DEF IInv, Typed, Locks, InLi
<1>5. Requests'
  <2>1. ASSUME NEW t \in Supers, t # s
        PROVE  /\ OnList(t)' => t \in live' /\ sb'[t].state # "none"
               /\ pc'[t] # "reg_ptr" => (t \in s_li_request' <=> OnList(t)')
               /\ pc'[t] = "reg_ptr" => OnList(t)' /\ t \notin s_li_request'
               /\ pc'[t] = "reg_add" => t \in live' /\ ~OnList(t)'
    <3>1. /\ pc'[t] = pc[t] /\ sb'[t] = sb[t] /\ (t \in live' <=> t \in live)
          /\ (OnList(t)' <=> OnList(t)) /\ (t \in s_li_request' <=> t \in s_li_request)
      BY <1>1, <1>2, <2>1, Returned, Zenon DEF IInv, UnregList, RemoveLiRequest, FreeRequests
    <3> QED
      BY Zenon, <3>1 DEF IInv, Requests
  <2>2. pc'[s] = "idle" /\ ~OnList(s)' /\ s \notin s_li_request'
    BY <1>1, <1>2, <1>e, Zenon
  <2> QED
    BY ZenonT(30), <1>1, <2>1, <2>2 DEF Requests
<1>6. Cursors'
  BY ZenonT(30), <1>1, <1>2, <1>a, <1>b, <1>c, <1>d, <1>e, LazyInitAssumption
  DEF IInv, Locks, Cursors
<1>7. Lives'
  BY <1>1, <1>2, <1>a, <1>b, <1>c, <1>d, <1>e, LazyInitAssumption, Zenon
  DEF IInv, Typed, Locks, InLi, Lives
<1>8. Calls'
  BY ZenonT(30), <1>1, <1>2, <1>a, <1>b, <1>c, <1>d, <1>e, LazyInitAssumption
  DEF IInv, Typed, Calls
<1> QED
  BY <1>3, <1>4, <1>5, <1>6, <1>7, <1>8, ZenonT(60) DEF IInv

(* The thread is done with a request, and removes it or not. *)
LEMMA AfterStep ==
    ASSUME IInv, After
    PROVE  IInv'
<1>1. /\ pos \in Supers /\ OnList(pos) /\ pos \in s_li_request
      /\ nxt = Following(pos) /\ nxt' = Following(nxt) /\ pos' = nxt
      /\ pc[pos] # "reg_ptr"
  <2>1. OnList(pos) /\ pos \in s_li_request /\ nxt = Following(pos)
    BY Zenon DEF IInv, Cursors, After
  <2>2. pos \in Supers
    BY <2>1 DEF OnList, IInv, Typed
  <2> QED
    BY Zenon, <2>1, <2>2 DEF IInv, Requests, After
<1>2. /\ nxt' \in Supers \cup {None} /\ nxt' # pos
      /\ nxt' # None => OnList(nxt')
      /\ pos' \in Supers \cup {None} /\ pos' # pos
      /\ pos' # None => OnList(pos')
  BY <1>1, FollowingFacts, LazyInitAssumption, Zenon DEF IInv, Requests
<1>a. /\ list' \in Seq(Supers) /\ Distinct'
      /\ \/ SameList /\ s_li_request' = s_li_request /\ live' = live
         \/ /\ s_li_request' = s_li_request \ {pos} /\ live' = live \ {pos}
            /\ \A t \in Supers : OnList(t)' <=> OnList(t) /\ t # pos
  <2>1. CASE err
    <3>1. list' = ListDel(list, At(pos)) /\ s_li_request' = s_li_request \ {pos} /\ live' = live \ {pos}
      BY <1>1, <2>1, Zenon DEF After, RemoveLiRequest, FreeRequests
    <3> QED
      BY <1>1, <3>1, Removed, Zenon DEF IInv, Requests
  <2>2. CASE ~err
    <3>1. list' = list /\ s_li_request' = s_li_request /\ live' = live
      BY <2>2, Zenon DEF After
    <3> QED
      BY <3>1, Unchanged, Zenon DEF IInv, Typed, Requests, SameList
  <2> QED
    BY <2>1, <2>2, Zenon
<1>b. li_info
  BY Zenon DEF IInv, Lives, After
<1>3. Typed'
  BY ZenonT(30), <1>2, <1>a DEF IInv, Typed, TPCs, After, volume, caller
<1>4. Locks'
  BY Zenon DEF IInv, Typed, TPCs, Locks, After, volume, caller
<1>5. Requests'
  BY <1>1, <1>a, Zenon DEF IInv, Typed, Requests, SameList, After, volume, caller
<1>6. Cursors'
  BY ZenonT(30), <1>2, <1>a DEF IInv, Cursors, SameList, After
<1>7. Lives'
  BY <1>b, Zenon DEF IInv, Lives, After, caller
<1>8. Calls'
  BY Zenon, <1>a DEF IInv, Calls, SameList, After, volume, caller
<1> QED
  BY <1>3, <1>4, <1>5, <1>6, <1>7, <1>8, Zenon DEF IInv

(* The thread starts a round, or finds nothing to do. *)
LEMMA TopStep ==
    ASSUME IInv, Top
    PROVE  IInv'
<1>1. list' = list
  BY Zenon DEF Top, info
<1>2. SameList
  BY <1>1, Unchanged, Zenon
<1>a. ASSUME list # <<>>
      PROVE  /\ pos' \in Supers /\ OnList(pos') /\ nxt' \in Supers \cup {None}
             /\ nxt' # None => OnList(nxt')
  <2>1. 1 \in DOMAIN list /\ list[1] \in Supers
    BY <1>a DEF IInv, Typed
  <2>2. OnList(list[1])
    BY <2>1, Zenon DEF OnList
  <2> QED
    BY <1>a, <2>1, <2>2, FollowingFacts, Zenon DEF IInv, Requests, Top
<1>3. Typed'
  BY <1>1, <1>a, ZenonT(60) DEF IInv, Typed, TPCs, Top, info, volume, caller
<1>4. Locks'
  BY LazyInitAssumption, Zenon DEF IInv, Typed, TPCs, Locks, Top, volume, caller
<1>5. Requests'
  BY Zenon, <1>2 DEF IInv, Requests, SameList, Top, info, volume, caller
<1>6. Cursors'
  BY <1>2, <1>a, Zenon DEF IInv, Cursors, SameList, Top
<1>7. Lives'
  BY Zenon DEF IInv, Lives, Top, info, caller
<1>8. Calls'
  BY <1>2, Zenon DEF IInv, Calls, SameList, Top, volume, caller
<1> QED
  BY <1>3, <1>4, <1>5, <1>6, <1>7, <1>8, Zenon DEF IInv

(* The thread goes back to work or leaves. *)
LEMMA ExitTestStep ==
    ASSUME IInv, ExitTest
    PROVE  IInv'
<1>1. list' = list
  BY Zenon DEF ExitTest
<1>2. SameList
  BY <1>1, Unchanged, Zenon
<1>a. li_mtx = Thread /\ \A s \in Supers : pc[s] \notin InLi
  BY Zenon, LazyInitAssumption DEF IInv, Locks, ExitTest
<1>3. Typed'
  BY ZenonT(30), <1>1, LazyInitAssumption DEF IInv, Typed, TPCs, ExitTest, volume, caller
<1>4. Locks'
  BY <1>a, LazyInitAssumption, Zenon DEF IInv, Typed, TPCs, Locks, ExitTest, volume, caller
<1>5. Requests'
  BY <1>2, Zenon DEF IInv, Requests, SameList, ExitTest, volume, caller
<1>6. Cursors'
  BY <1>2, Zenon DEF IInv, Cursors, SameList, ExitTest
<1>7. Lives'
  BY ZenonT(30), <1>1, <1>a DEF IInv, Lives, InLi, ExitTest, caller
<1>8. Calls'
  BY <1>2, Zenon DEF IInv, Calls, SameList, ExitTest, volume, caller
<1> QED
  BY <1>3, <1>4, <1>5, <1>6, <1>7, <1>8, Zenon DEF IInv

-----------------------------------------------------------------------------
(* The inductive invariant holds at first: there is no thread, no list and no volume. *)
LEMMA InitIInv == Init => IInv
<1> SUFFICES ASSUME Init PROVE IInv
  BY Zenon
<1>0. list \in Seq(Supers) /\ DOMAIN list = {}
  BY DEF Init
<1>1. \A s : ~OnList(s)
  BY <1>0, Zenon DEF OnList
<1>2. Distinct
  BY <1>0, Zenon DEF Distinct
<1>3. NoSuper \in Superblock /\ NoSuper.state = "none"
  BY Zenon DEF NoSuper, Superblock
<1>4. Typed
  <2>1. list \in Seq(Supers) /\ sb \in [Supers -> Superblock]
    BY <1>3 DEF Init
  <2>2. pc \in [Supers -> PCs] /\ op \in [Supers -> OPs]
    BY Zenon DEF Init, PCs, OPs
  <2> QED
    BY Zenon, <2>1, <2>2 DEF Init, Typed, TPCs
<1> QED
  BY <1>1, <1>2, <1>3, <1>4, LazyInitAssumption, Zenon
  DEF Init, IInv, Locks, InLi, Requests, Cursors, Lives, Calls

(* Every step keeps it. *)
LEMMA NextIInv == IInv /\ [Next \/ Gone]_vars => IInv'
<1> SUFFICES ASSUME IInv, [Next \/ Gone]_vars PROVE IInv'
  BY Zenon
<1>1. CASE \E s \in Supers : \/ Mount(s) \/ Remount(s) \/ Umount(s) \/ Freeze(s) \/ Thaw(s)
                            \/ HandleError(s) \/ Tick(s)
  BY <1>1, MountStep, RemountStep, UmountStep, FreezeStep, ThawStep, HandleErrorStep, TickStep, Zenon
<1>2. CASE \E s \in Supers : Call(s)
  BY Zenon, <1>2, RegLockStep, RegTouchStep, RegAddStep, RegPtrStep, RegClearStep, RegOutStep,
     UnregLockStep, UnregListStep DEF Call
<1>3. CASE ThreadStep
  BY Zenon, <1>3, TopStep, SkipStep, BusyStep, TakeStep, RunStep, RelockStep, AfterStep, SleepStep,
     WakeStep, StoppedStep, ExitLockStep, ExitTestStep DEF ThreadStep
<1>4. CASE UnloadCheck \/ KthreadStop \/ UnloadDone
  BY <1>4, UnloadCheckStep, KthreadStopStep, UnloadDoneStep, Zenon
<1>5. CASE UNCHANGED vars
  <2>1. SameList
    BY <1>5, Unchanged, Zenon DEF vars, info
  <2>2. UNCHANGED <<li_info, running, list, li_mtx, list_mtx, live, s_li_request>>
    BY <1>5, Zenon DEF vars, info
  <2>3. UNCHANGED <<sb, pc, op, tpc, pos, nxt, err, reader, unload>>
    BY <1>5, Zenon DEF vars, volume, thread, caller
  <2>4. Typed' /\ Locks' /\ Lives'
    BY <2>2, <2>3 DEF IInv, Typed, Locks, Lives
  <2>5. Requests' /\ Cursors' /\ Calls'
    BY Zenon, <2>1, <2>2, <2>3 DEF IInv, Requests, Cursors, Calls, SameList, Distinct
  <2> QED
    BY <2>4, <2>5, Zenon DEF IInv
<1> QED
  BY <1>1, <1>2, <1>3, <1>4, <1>5, Zenon DEF Next, Gone

(* No request is followed after it is freed, whatever the volumes do: the thread's cursors and *)
(* the request it works on without li_list_mtx stay on the list.                               *)
THEOREM NoFreedRequest == Spec => []RequestsAlive
<1>1. IInv => RequestsAlive
  <2> SUFFICES ASSUME IInv PROVE RequestsAlive
    BY Zenon
  <2>1. ASSUME NEW i \in DOMAIN list PROVE list[i] \in live /\ sb[list[i]].state # "none"
    <3>1. list[i] \in Supers /\ OnList(list[i])
      BY DEF IInv, Typed, OnList
    <3> QED
      BY <3>1, Zenon DEF IInv, Requests
  <2> QED
    BY <2>1, Zenon DEF IInv, Locks, Cursors, Lives, RequestsAlive
<1> QED
  BY <1>1, InitIInv, NextIInv, PTL DEF Spec

(* A request on the list is never left without a thread: the thread that leaves and the mount *)
(* that registers agree through ext4_li_mtx.                                                  *)
THEOREM NoRequestForgotten == Spec => []ListServed
<1>1. IInv => ListServed
  BY LazyInitAssumption, Zenon DEF IInv, Typed, Lives, ListServed
<1> QED
  BY <1>1, InitIInv, NextIInv, PTL DEF Spec

=============================================================================
