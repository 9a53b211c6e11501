------------------------------ MODULE InodeSet ------------------------------
(***************************************************************************)
(* What the eVFS inode tracker promises its callers: one set of inode      *)
(* numbers, read and changed atomically by __evfs_inode_track,             *)
(* __evfs_inode_untrack and __evfs_inode_untrack_nolock.  A call is        *)
(* invoked, takes effect in one step, and returns its answer; concurrent   *)
(* calls of several tasks overlap.  InodeTracker implements it.            *)
(***************************************************************************)
EXTENDS Integers

CONSTANTS Threads,     \* the tasks inside an eVFS ioctl
          Inos         \* the inode numbers a call may name

VARIABLES tracked,     \* the inode numbers allocated through eVFS
          call,        \* per task, the call in progress, NoCall if none
          answer       \* per task, the answer of its latest call

vars == <<tracked, call, answer>>

Functions == {"track", "untrack", "untrack_nolock"}
Calls == [fn : Functions, nr : Inos]
NoCall == [fn |-> "none", nr |-> 0]
Answers == {"none", "OK", "EEXIST", "ENOENT", "EINVAL", "EFAULT"}

\* What a call answers: track fails on a tracked number, untrack on an
\* untracked one, untrack_nolock never looks.
Answer(fn, was) ==
    IF fn = "track" /\ was THEN "EEXIST"
    ELSE IF fn = "untrack" /\ ~was THEN "ENOENT" ELSE "OK"

TypeOK ==
    /\ tracked \in SUBSET Inos
    /\ call \in [Threads -> Calls \cup {NoCall}]
    /\ answer \in [Threads -> Answers]

Init ==
    /\ tracked = {}
    /\ call = [t \in Threads |-> NoCall]
    /\ answer = [t \in Threads |-> "none"]

Invoke(t) ==
    /\ call[t] = NoCall
    /\ \E c \in Calls : call' = [call EXCEPT ![t] = c]
    /\ answer' = [answer EXCEPT ![t] = "none"]
    /\ UNCHANGED tracked

\* No tracker, or a number beyond it: answered at once, nothing changes.
Reject(t) ==
    /\ call[t] = NoCall
    /\ \E a \in {"EINVAL", "EFAULT"} : answer' = [answer EXCEPT ![t] = a]
    /\ UNCHANGED <<tracked, call>>

Apply(t) ==
    /\ call[t] # NoCall
    /\ answer[t] = "none"
    /\ answer' = [answer EXCEPT ![t] = Answer(call[t].fn, call[t].nr \in tracked)]
    /\ tracked' = IF call[t].fn = "track" THEN tracked \cup {call[t].nr}
                                          ELSE tracked \ {call[t].nr}
    /\ UNCHANGED call

Return(t) ==
    /\ call[t] # NoCall
    /\ answer[t] # "none"
    /\ call' = [call EXCEPT ![t] = NoCall]
    /\ UNCHANGED <<tracked, answer>>

\* The tracker lives in memory only: an unmount forgets every number.
Forget ==
    /\ tracked' = {}
    /\ UNCHANGED <<call, answer>>

Next ==
    \/ \E t \in Threads : Invoke(t) \/ Reject(t) \/ Apply(t) \/ Return(t)
    \/ Forget

Spec == Init /\ [][Next]_vars
=============================================================================
