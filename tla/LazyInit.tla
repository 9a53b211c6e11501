------------------------------ MODULE LazyInit ------------------------------
(***************************************************************************)
(* The ext4lazyinit kernel thread of super.c, which zeroes inode tables in *)
(* the background: the request list that all mounted volumes share, the    *)
(* two mutexes around it, the registration of a volume at mount and        *)
(* remount, its removal at remount and unmount, and the thread's own       *)
(* start and exit.                                                         *)
(*                                                                         *)
(* There is one caller per volume, since mount, remount and unmount hold   *)
(* s_umount for writing; the thread only ever tries for s_umount.  Time is *)
(* abstracted to `due': whether jiffies has reached lr_next_sched.         *)
(***************************************************************************)
EXTENDS Integers, Sequences

CONSTANTS
    Supers,         \* the volumes
    NGroups,        \* block groups of a volume
    Zeroed0,        \* which groups' tables may be zeroed when a volume is first mounted
    Prefetch,       \* volumes mounted without no_prefetch_block_bitmaps
    MaxCalls,       \* bound: mounts, remounts and freezes
    Thread,         \* the thread, as the owner of a mutex
    None            \* nobody, and the list head as a cursor

ASSUME LazyInitAssumption ==
    /\ NGroups \in Nat \ {0}
    /\ Zeroed0 \subseteq SUBSET (0 .. NGroups - 1)
    /\ Prefetch \subseteq Supers
    /\ MaxCalls \in Nat
    /\ Thread \notin Supers /\ None \notin Supers \cup {Thread}

Groups == 0 .. NGroups - 1

VARIABLES
    li_info,        \* ext4_li_info is allocated
    running,        \* EXT4_LAZYINIT_RUNNING
    list,           \* li_request_list, a request being named by its volume
    li_mtx,         \* owner of ext4_li_mtx
    list_mtx,       \* owner of li_list_mtx
    live,           \* volumes whose request is allocated
    elr,            \* the requests: lr_mode, lr_next_group, lr_first_not_zeroed
    due,            \* volumes whose lr_next_sched has come
    s_li_request,   \* volumes with s_li_request # NULL
    sb,             \* superblocks: see Superblock
    zeroed,         \* groups with EXT4_BG_INODE_ZEROED, on disk
    pc,             \* where each volume's caller is
    op,             \* the call it is in
    tpc,            \* where the thread is
    pos, nxt,       \* cursors of list_for_each_safe
    err,            \* result of ext4_run_li_request
    reader,         \* volume whose s_umount the thread holds
    unload,         \* how far ext4_destroy_lazyinit_thread is
    calls           \* mounts, remounts and freezes so far

info == <<li_info, running, list, live>>
thread == <<tpc, pos, nxt, err, reader>>
volume == <<sb, zeroed, calls, unload>>
caller == <<pc, op>>
vars == <<info, li_mtx, list_mtx, elr, due, s_li_request, volume, caller, thread>>

Superblock == [state : {"none", "setup", "mounted"},
               rdonly : BOOLEAN, itable : BOOLEAN, frozen : BOOLEAN, shutdown : BOOLEAN]

Mode == {"prefetch", "itable"}

TypeOK ==
    /\ li_info \in BOOLEAN /\ running \in BOOLEAN
    /\ list \in Seq(Supers)
    /\ li_mtx \in Supers \cup {Thread, None}
    /\ list_mtx \in Supers \cup {Thread, None}
    /\ live \subseteq Supers /\ due \subseteq Supers /\ s_li_request \subseteq Supers
    /\ elr \in [Supers -> [mode : Mode, next : 0 .. NGroups, first : 0 .. NGroups]]
    /\ sb \in [Supers -> Superblock]
    /\ zeroed \in [Supers -> SUBSET Groups]
    /\ pc \in [Supers -> {"idle", "reg_lock", "reg_touch", "reg_add", "reg_ptr",
                          "reg_clear", "reg_out", "unreg_lock", "unreg_list"}]
    /\ op \in [Supers -> {"none", "mount", "remount", "fail", "umount"}]
    /\ tpc \in {"none", "top", "walk", "run", "relock", "after", "sleep",
                "exit_lock", "exit_test"}
    /\ pos \in Supers \cup {None} /\ nxt \in Supers \cup {None}
    /\ err \in BOOLEAN
    /\ reader \in Supers \cup {None}
    /\ unload \in {"no", "checked", "stopping", "done"}
    /\ calls \in 0 .. MaxCalls

(* What a request not allocated and a superblock not set up are taken to hold. *)
NoRequest == [mode |-> "itable", next |-> 0, first |-> 0]
NoSuper == [state |-> "none", rdonly |-> FALSE, itable |-> TRUE, frozen |-> FALSE,
            shutdown |-> FALSE]

Init ==
    /\ li_info = FALSE /\ running = FALSE /\ list = <<>> /\ live = {}
    /\ li_mtx = None /\ list_mtx = None
    /\ elr = [s \in Supers |-> NoRequest]
    /\ due = {} /\ s_li_request = {}
    /\ sb = [s \in Supers |-> NoSuper]
    /\ zeroed \in [Supers -> Zeroed0] /\ unload = "no"
    /\ pc = [s \in Supers |-> "idle"] /\ op = [s \in Supers |-> "none"]
    /\ tpc = "none" /\ pos = None /\ nxt = None /\ err = FALSE /\ reader = None
    /\ calls = 0

-----------------------------------------------------------------------------
(* The list.  list_add inserts at the head, list_del takes one request out. *)

OnList(s) == \E i \in DOMAIN list : list[i] = s
At(s) == CHOOSE i \in DOMAIN list : list[i] = s

ListDel(l, k) == [i \in 1 .. Len(l) - 1 |-> IF i < k THEN l[i] ELSE l[i + 1]]

(* The request after s on the list, None for the head itself. *)
Following(s) == IF OnList(s) /\ At(s) < Len(list) THEN list[At(s) + 1] ELSE None

(* What is left of the requests of a set of volumes that are freed. *)
FreeRequests(S) ==
    /\ s_li_request' = s_li_request \ S
    /\ live' = live \ S /\ due' = due \ S
    /\ elr' = [s \in Supers |-> IF s \in S THEN NoRequest ELSE elr[s]]

(* ext4_remove_li_request: with li_list_mtx held, off the list and freed. *)
RemoveLiRequest(s) ==
    /\ list' = IF OnList(s) THEN ListDel(list, At(s)) ELSE list
    /\ FreeRequests({s})

(* ext4_clear_request_list *)
ClearRequestList ==
    /\ list' = <<>>
    /\ FreeRequests({list[i] : i \in DOMAIN list})

(* ext4_has_uninit_itable: the first group with an unzeroed table, or the number of groups. *)
HasUninitItable(s) ==
    IF Groups \subseteq zeroed[s] THEN NGroups
    ELSE CHOOSE g \in Groups \ zeroed[s] : \A h \in Groups \ zeroed[s] : g <= h

(* The first group from g on whose table is not zeroed yet, or the number of groups. *)
NextUninit(s, g) ==
    IF {h \in Groups : h >= g} \subseteq zeroed[s] THEN NGroups
    ELSE CHOOSE k \in Groups \ zeroed[s] :
             k >= g /\ \A h \in Groups \ zeroed[s] : h >= g => k <= h

-----------------------------------------------------------------------------
(* The callers. *)

Goto(s, l) == pc' = [pc EXCEPT ![s] = l]

(* Mount: a new superblock, s_umount held; the steps before the lazy-init registration are over. *)
Mount(s) ==
    /\ pc[s] = "idle" /\ sb[s].state = "none" /\ calls < MaxCalls /\ unload = "no"
    /\ \E ro, it \in BOOLEAN :
          sb' = [sb EXCEPT ![s] = [NoSuper EXCEPT !.state = "setup", !.rdonly = ro, !.itable = it]]
    /\ calls' = calls + 1
    /\ op' = [op EXCEPT ![s] = "mount"] /\ Goto(s, "reg_lock")
    /\ UNCHANGED <<info, li_mtx, list_mtx, elr, due, s_li_request, zeroed, unload, thread>>

(* s_umount can be taken for writing; a frozen volume is neither remounted nor shut down. *)
Exclusive(s) == pc[s] = "idle" /\ sb[s].state = "mounted" /\ reader # s

(* The end of __ext4_remount: the request follows the new flags.  The remount of a volume that is *)
(* shut down fails before that if it changes SB_RDONLY.                                          *)
Remount(s) ==
    /\ Exclusive(s) /\ ~sb[s].frozen /\ calls < MaxCalls
    /\ \E ro, it \in BOOLEAN :
          /\ sb[s].shutdown => ro = sb[s].rdonly
          /\ sb' = [sb EXCEPT ![s] = [@ EXCEPT !.rdonly = ro, !.itable = it]]
          /\ Goto(s, IF ro \/ ~it THEN "unreg_lock" ELSE "reg_lock")
    /\ calls' = calls + 1
    /\ op' = [op EXCEPT ![s] = "remount"]
    /\ UNCHANGED <<info, li_mtx, list_mtx, elr, due, s_li_request, zeroed, unload, thread>>

(* ext4_put_super is called with s_umount held. *)
Umount(s) ==
    /\ Exclusive(s) /\ ~sb[s].frozen
    /\ op' = [op EXCEPT ![s] = "umount"] /\ Goto(s, "unreg_lock")
    /\ UNCHANGED <<info, li_mtx, list_mtx, elr, due, s_li_request, volume, thread>>

Freeze(s) ==
    /\ Exclusive(s) /\ ~sb[s].frozen /\ calls < MaxCalls
    /\ sb' = [sb EXCEPT ![s] = [@ EXCEPT !.frozen = TRUE]]
    /\ calls' = calls + 1
    /\ UNCHANGED <<info, li_mtx, list_mtx, elr, due, s_li_request, zeroed, unload, caller, thread>>

Thaw(s) ==
    /\ Exclusive(s) /\ sb[s].frozen
    /\ sb' = [sb EXCEPT ![s] = [@ EXCEPT !.frozen = FALSE]]
    /\ UNCHANGED <<info, li_mtx, list_mtx, elr, due, s_li_request, zeroed, unload, calls, caller,
                   thread>>

(* ext4_handle_error shuts the volume down and makes it read-only at any time, without s_umount. *)
HandleError(s) ==
    /\ sb[s].state = "mounted" /\ ~sb[s].rdonly
    /\ sb' = [sb EXCEPT ![s] = [@ EXCEPT !.rdonly = TRUE, !.shutdown = TRUE]]
    /\ UNCHANGED <<info, li_mtx, list_mtx, elr, due, s_li_request, zeroed, unload, calls, caller,
                   thread>>

-----------------------------------------------------------------------------
(* ext4_register_li_request, one action per step between lock operations. *)

NothingToDo(s) ==
    \/ sb[s].rdonly
    \/ s \notin Prefetch /\ (HasUninitItable(s) = NGroups \/ ~sb[s].itable)

(* ext4_li_request_new; its first turn comes at a random time. *)
NewRequest(s) ==
    [mode |-> IF s \in Prefetch THEN "prefetch" ELSE "itable",
     next |-> IF s \in Prefetch THEN 0 ELSE HasUninitItable(s),
     first |-> HasUninitItable(s)]

(* A mount that cannot register fails. *)
RegError(s) == op' = [op EXCEPT ![s] = IF @ = "mount" THEN "fail" ELSE @]

(* Up to the request and ext4_li_info; either allocation may fail. *)
RegLock(s) ==
    /\ pc[s] = "reg_lock" /\ li_mtx = None
    /\ li_mtx' = s
    /\ \/ s \in s_li_request /\ Goto(s, "reg_touch") /\ UNCHANGED <<op, elr, live, li_info>>
       \/ /\ s \notin s_li_request /\ NothingToDo(s)
          /\ Goto(s, "reg_out") /\ UNCHANGED <<op, elr, live, li_info>>
       \/ /\ s \notin s_li_request /\ ~NothingToDo(s)
          /\ RegError(s) /\ Goto(s, "reg_out") /\ UNCHANGED <<elr, live, li_info>>
       \/ /\ s \notin s_li_request /\ ~NothingToDo(s)
          /\ elr' = [elr EXCEPT ![s] = NewRequest(s)]
          /\ live' = live \cup {s} /\ li_info' = TRUE
          /\ Goto(s, "reg_add") /\ UNCHANGED op
    /\ UNCHANGED <<running, list, list_mtx, due, s_li_request, volume, thread>>

(* The request found is given a new timeout, without li_list_mtx. *)
RegTouch(s) ==
    /\ pc[s] = "reg_touch"
    /\ Goto(s, "reg_out")
    /\ UNCHANGED <<info, li_mtx, list_mtx, elr, due, s_li_request, volume, op, thread>>

RegAdd(s) ==
    /\ pc[s] = "reg_add" /\ list_mtx = None
    /\ list' = <<s>> \o list
    /\ Goto(s, "reg_ptr")
    /\ UNCHANGED <<li_info, running, live, li_mtx, list_mtx, elr, due, s_li_request, volume, op, thread>>

(* s_li_request, and ext4_run_lazyinit_thread if no thread runs: kthread_run succeeds or not. *)
RegPtr(s) ==
    /\ pc[s] = "reg_ptr"
    /\ s_li_request' = s_li_request \cup {s}
    /\ \/ running /\ Goto(s, "reg_out") /\ UNCHANGED <<op, tpc, running>>
       \/ ~running /\ tpc' = "top" /\ running' = TRUE /\ Goto(s, "reg_out") /\ UNCHANGED op
       \/ ~running /\ RegError(s) /\ Goto(s, "reg_clear") /\ UNCHANGED <<tpc, running>>
    /\ UNCHANGED <<li_info, list, live, li_mtx, list_mtx, elr, due, volume, pos, nxt, err, reader>>

(* Its error path: ext4_clear_request_list, then ext4_li_info is freed. *)
RegClear(s) ==
    /\ pc[s] = "reg_clear" /\ list_mtx = None
    /\ ClearRequestList
    /\ li_info' = FALSE
    /\ Goto(s, "reg_out")
    /\ UNCHANGED <<running, li_mtx, list_mtx, volume, op, thread>>

(* The call returns and s_umount is released; a failed mount and an unmount free the superblock. *)
Return(s) ==
    /\ sb' = [sb EXCEPT ![s] = IF op[s] \in {"fail", "umount"} THEN NoSuper
                               ELSE [@ EXCEPT !.state = "mounted"]]
    /\ op' = [op EXCEPT ![s] = "none"] /\ Goto(s, "idle")

(* Out.  A remount ignores the result; a mount whose later steps fail goes on to unregister. *)
RegOut(s) ==
    /\ pc[s] = "reg_out"
    /\ li_mtx' = None
    /\ \/ Return(s)
       \/ op[s] = "mount" /\ Goto(s, "unreg_lock") /\ op' = [op EXCEPT ![s] = "fail"] /\ UNCHANGED sb
    /\ UNCHANGED <<info, list_mtx, elr, due, s_li_request, zeroed, calls, unload, thread>>

-----------------------------------------------------------------------------
(* ext4_unregister_li_request *)

UnregLock(s) ==
    /\ pc[s] = "unreg_lock" /\ li_mtx = None
    /\ \/ li_info /\ li_mtx' = s /\ Goto(s, "unreg_list") /\ UNCHANGED <<op, sb>>
       \/ ~li_info /\ Return(s) /\ UNCHANGED li_mtx
    /\ UNCHANGED <<info, list_mtx, elr, due, s_li_request, zeroed, calls, unload, thread>>

UnregList(s) ==
    /\ pc[s] = "unreg_list" /\ list_mtx = None
    /\ IF s \in s_li_request THEN RemoveLiRequest(s)
       ELSE UNCHANGED <<list, s_li_request, live, elr, due>>
    /\ li_mtx' = None
    /\ Return(s)
    /\ UNCHANGED <<li_info, running, list_mtx, zeroed, calls, unload, thread>>

-----------------------------------------------------------------------------
(* ext4_lazyinit_thread *)

(* list_for_each_safe goes on to the saved next request. *)
Advance == pos' = nxt /\ nxt' = Following(nxt)

(* cont_thread: an empty list ends the thread, otherwise the walk begins with the mutex held. *)
Top ==
    /\ tpc = "top" /\ list_mtx = None
    /\ IF list = <<>> THEN tpc' = "exit_lock" /\ UNCHANGED <<list_mtx, pos, nxt>>
       ELSE /\ list_mtx' = Thread /\ tpc' = "walk"
            /\ pos' = list[1] /\ nxt' = Following(list[1])
    /\ UNCHANGED <<info, li_mtx, elr, due, s_li_request, volume, caller, err, reader>>

(* A request whose time has not come is passed over. *)
Skip ==
    /\ tpc = "walk" /\ pos # None /\ pos \notin due
    /\ Advance
    /\ UNCHANGED <<info, li_mtx, list_mtx, elr, due, s_li_request, volume, caller, tpc, err, reader>>

(* s_umount is held for writing by the volume's caller, or writes are frozen: try again later. *)
Busy ==
    /\ tpc = "walk" /\ pos # None /\ pos \in due
    /\ pc[pos] # "idle" \/ sb[pos].frozen
    /\ due' = due \ {pos}
    /\ Advance
    /\ UNCHANGED <<info, li_mtx, list_mtx, elr, s_li_request, volume, caller, tpc, err, reader>>

(* Both trylocks succeed and li_list_mtx is dropped. *)
Take ==
    /\ tpc = "walk" /\ pos # None /\ pos \in due
    /\ pc[pos] = "idle" /\ ~sb[pos].frozen
    /\ reader' = pos
    /\ list_mtx' = None /\ tpc' = "run"
    /\ UNCHANGED <<info, li_mtx, elr, due, s_li_request, volume, caller, pos, nxt, err>>

(* ext4_mb_prefetch: one more group, from the last one back to the first. *)
MbPrefetch(g) == (g + 1) % NGroups

(* ext4_run_li_request: prefetch the next bitmap, and after the last turn to the tables. *)
RunPrefetch ==
    /\ elr[pos].mode = "prefetch"
    /\ LET next == MbPrefetch(elr[pos].next)
           over == elr[pos].next >= next
           tables == elr[pos].first # NGroups /\ ~sb[pos].rdonly /\ sb[pos].itable
       IN /\ err' = (over /\ ~tables)
          /\ elr' = IF over /\ tables
                    THEN [elr EXCEPT ![pos].mode = "itable", ![pos].next = elr[pos].first]
                    ELSE [elr EXCEPT ![pos].next = next]
    /\ UNCHANGED <<zeroed, due>>

(* ... or zero the next inode table; ext4_init_inode_table gives up on a read-only volume. *)
RunItable ==
    /\ elr[pos].mode = "itable"
    /\ LET g == NextUninit(pos, elr[pos].next)
       IN \/ g = NGroups /\ err' = TRUE /\ UNCHANGED <<zeroed, elr, due>>
          \/ /\ g < NGroups
             /\ err' = sb[pos].rdonly
             /\ zeroed' = IF sb[pos].rdonly THEN zeroed ELSE [zeroed EXCEPT ![pos] = @ \cup {g}]
             /\ elr' = [elr EXCEPT ![pos].next = g + 1]
             /\ due' = due \ {pos}

Run ==
    /\ tpc = "run"
    /\ RunPrefetch \/ RunItable
    /\ tpc' = "relock"
    /\ UNCHANGED <<info, li_mtx, list_mtx, s_li_request, sb, calls, unload, caller, pos, nxt, reader>>

\* Mutant of Relock: the next request saved before li_list_mtx was dropped is kept.
RelockStale ==
    /\ tpc = "relock" /\ list_mtx = None
    /\ list_mtx' = Thread
    /\ reader' = None
    /\ tpc' = "after"
    /\ UNCHANGED <<info, li_mtx, elr, due, s_li_request, volume, caller, pos, nxt, err>>

(* The list may have changed meanwhile: the next request is looked up again; s_umount is released. *)
Relock ==
    /\ tpc = "relock" /\ list_mtx = None
    /\ list_mtx' = Thread
    /\ nxt' = Following(pos)
    /\ reader' = None
    /\ tpc' = "after"
    /\ UNCHANGED <<info, li_mtx, elr, due, s_li_request, volume, caller, pos, err>>

\* Mutant of After: a request that is finished stays.
AfterKeeps ==
    /\ tpc = "after"
    /\ pos' = nxt /\ tpc' = "walk" /\ err' = FALSE
    /\ nxt' = Following(nxt)
    /\ UNCHANGED <<info, s_li_request, elr, due, li_mtx, list_mtx, volume, caller, reader>>

(* A request that is finished or failed goes, with li_list_mtx held but s_umount no longer. *)
After ==
    /\ tpc = "after"
    /\ pos' = nxt /\ tpc' = "walk" /\ err' = FALSE
    /\ IF err THEN RemoveLiRequest(pos) ELSE UNCHANGED <<list, s_li_request, live, elr, due>>
    /\ nxt' = Following(nxt)
    /\ UNCHANGED <<li_info, running, li_mtx, list_mtx, volume, caller, reader>>

\* Mutant of Sleep: as long as there are requests the next round begins with li_list_mtx still held.
SleepHolding ==
    /\ tpc = "walk" /\ pos = None
    /\ IF list # <<>> THEN /\ pos' = list[1] /\ nxt' = Following(list[1])
                           /\ UNCHANGED <<list_mtx, tpc>>
       ELSE list_mtx' = None /\ tpc' = "sleep" /\ UNCHANGED <<pos, nxt>>
    /\ UNCHANGED <<info, li_mtx, elr, due, s_li_request, volume, caller, err, reader>>

(* The end of the list: unlock, and sleep until the next wake-up, however short. *)
Sleep ==
    /\ tpc = "walk" /\ pos = None
    /\ list_mtx' = None /\ tpc' = "sleep"
    /\ UNCHANGED <<info, li_mtx, elr, due, s_li_request, volume, caller, pos, nxt, err, reader>>

Wake ==
    /\ tpc = "sleep"
    /\ tpc' = "top"
    /\ UNCHANGED <<info, li_mtx, list_mtx, elr, due, s_li_request, volume, caller, pos, nxt, err,
                   reader>>

(* kthread_should_stop, seen only after a sleep. *)
Stopped ==
    /\ tpc = "sleep" /\ unload = "stopping" /\ list_mtx = None
    /\ ClearRequestList
    /\ tpc' = "exit_lock"
    /\ UNCHANGED <<li_info, running, li_mtx, list_mtx, volume, caller, pos, nxt, err, reader>>

(* exit_thread: under ext4_li_mtx the list is looked at again. *)
ExitLock ==
    /\ tpc = "exit_lock" /\ li_mtx = None
    /\ li_mtx' = Thread /\ tpc' = "exit_test"
    /\ UNCHANGED <<info, list_mtx, elr, due, s_li_request, volume, caller, pos, nxt, err, reader>>

\* Mutant of ExitTest: the list is not looked at again, and ext4_li_info stays for the new request.
ExitTestOnce ==
    /\ tpc = "exit_test" /\ list_mtx = None
    /\ li_mtx' = None /\ tpc' = "none"
    /\ li_info' = (list # <<>>)
    /\ running' = (list # <<>>)
    /\ UNCHANGED <<list, live, list_mtx, elr, due, s_li_request, volume, caller, pos, nxt, err,
                   reader>>

ExitTest ==
    /\ tpc = "exit_test" /\ list_mtx = None
    /\ li_mtx' = None
    /\ IF list # <<>> THEN tpc' = "top" /\ UNCHANGED <<li_info, running>>
       ELSE tpc' = "none" /\ li_info' = FALSE /\ running' = FALSE
    /\ UNCHANGED <<list, live, list_mtx, elr, due, s_li_request, volume, caller, pos, nxt, err,
                   reader>>

(* ext4_destroy_lazyinit_thread, at module unload: an unlocked test, then kthread_stop, which *)
(* returns when the thread has left.                                                         *)
UnloadCheck ==
    /\ unload = "no" /\ \A s \in Supers : pc[s] = "idle" /\ sb[s].state = "none"
    /\ unload' = IF li_info THEN "checked" ELSE "done"
    /\ UNCHANGED <<info, li_mtx, list_mtx, elr, due, s_li_request, sb, zeroed, calls, caller, thread>>

KthreadStop ==
    /\ unload = "checked"
    /\ unload' = "stopping"
    /\ UNCHANGED <<info, li_mtx, list_mtx, elr, due, s_li_request, sb, zeroed, calls, caller, thread>>

UnloadDone ==
    /\ unload = "stopping" /\ tpc = "none"
    /\ unload' = "done"
    /\ UNCHANGED <<info, li_mtx, list_mtx, elr, due, s_li_request, sb, zeroed, calls, caller, thread>>

(* jiffies reaches a request's lr_next_sched. *)
Tick(s) ==
    /\ s \in live \ due
    /\ due' = due \cup {s}
    /\ UNCHANGED <<info, li_mtx, list_mtx, elr, s_li_request, volume, caller, thread>>

-----------------------------------------------------------------------------
Call(s) ==
    \/ RegLock(s) \/ RegTouch(s) \/ RegAdd(s) \/ RegPtr(s) \/ RegClear(s) \/ RegOut(s)
    \/ UnregLock(s) \/ UnregList(s)

ThreadStep ==
    \/ Top \/ Skip \/ Busy \/ Take \/ Run \/ Relock \/ After \/ Sleep \/ Wake \/ Stopped
    \/ ExitLock \/ ExitTest

Next ==
    \/ \E s \in Supers : \/ Mount(s) \/ Remount(s) \/ Umount(s) \/ Freeze(s) \/ Thaw(s)
                         \/ HandleError(s) \/ Call(s) \/ Tick(s)
    \/ ThreadStep
    \/ UnloadCheck \/ KthreadStop \/ UnloadDone

(* Once the module is gone nothing happens any more. *)
Gone == unload = "done" /\ UNCHANGED vars

Spec == Init /\ [][Next \/ Gone]_vars

(* The scheduler runs the thread and every caller; a mutex that is released again and again is *)
(* handed to its first waiter in the end, hence the strong fairness of the callers; time passes. *)
Fairness ==
    /\ WF_vars(ThreadStep)
    /\ \A s \in Supers : SF_vars(Call(s)) /\ WF_vars(Tick(s))

FairSpec == Spec /\ Fairness

-----------------------------------------------------------------------------
(* Every request that somebody may follow is allocated and belongs to a volume that is still *)
(* there: the ones on the list, the thread's cursors while it holds li_list_mtx, and the one *)
(* it is working on after it dropped the mutex ("We hold sb->s_umount, sb can not be removed *)
(* from the list, it is now safe to drop li_list_mtx").  Nobody uses the mutex of a freed    *)
(* ext4_li_info.                                                                             *)
RequestsAlive ==
    /\ \A i \in DOMAIN list : list[i] \in live /\ sb[list[i]].state # "none"
    /\ tpc \in {"walk", "after"} => \A s \in {pos, nxt} \ {None} : OnList(s)
    /\ tpc \in {"run", "relock"} => OnList(pos) /\ sb[pos].state = "mounted" /\ ~sb[pos].frozen
    /\ tpc # "none" => li_info
    /\ \A s \in Supers : pc[s] \in {"reg_add", "reg_ptr", "reg_clear", "unreg_list"} => li_info

(* A volume has at most one request, it is on the list exactly while s_li_request points to it, *)
(* and the thread walks each request of the list at most once in a round.                        *)
OneRequest ==
    /\ \A i, j \in DOMAIN list : list[i] = list[j] => i = j
    /\ \A s \in Supers : pc[s] \notin {"reg_ptr"} => (s \in s_li_request <=> OnList(s))

(* A request that waits has a thread that will come to it: when nobody is inside ext4_li_mtx, a *)
(* list that is not empty has a thread that has not decided to leave, and ext4_li_info says so.  *)
ListServed ==
    li_mtx = None => /\ list # <<>> => li_info
                     /\ li_info => running /\ tpc # "none"

(* No mount, remount or unmount stays in the lazy-initialisation code. *)
CallsReturn == \A s \in Supers : []<>(pc[s] = "idle")

(* A request does not stay on the list for ever, except that of a volume that stays frozen. *)
RequestsServed == \A s \in Supers : <>[](OnList(s)) => <>[](sb[s].frozen)

(* Not so: ext4_register_li_request writes to a request that is allocated.  The thread, which *)
(* has released s_umount, may free it between the test of s_li_request and the write.          *)
TouchIsSafe == \A s \in Supers : pc[s] = "reg_touch" => s \in live

(* Not so: kthread_stop is given a thread that runs ("We do not need to lock anything since this *)
(* is called on module unload"); the thread may leave after the test of ext4_li_info.            *)
UnloadIsSafe == unload = "checked" => tpc # "none"
=============================================================================
