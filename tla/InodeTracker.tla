---------------------------- MODULE InodeTracker ----------------------------
(***************************************************************************)
(* The eVFS inode tracker (evfs-bmt.c) as its callers in evfs.c use it:    *)
(* an array of small bitmaps, each allocated on first use and guarded by   *)
(* its own rw_semaphore.  evfs_bit_wrapper takes the semaphore as reader,  *)
(* drops it and comes back as writer to allocate a missing bitmap,         *)
(* downgrades, and applies an atomic bit operation as reader.              *)
(***************************************************************************)
EXTENDS Integers, FiniteSets

CONSTANTS Threads,       \* tasks inside an eVFS ioctl
          NumBits,       \* es->s_inodes_count, the size given to the tracker
          BitsPerBm,     \* bits of one struct evfs_bitmap (64 in the code)
          AllocMayFail   \* whether kzalloc may return NULL

ASSUME TrackerAssumption ==
    /\ NumBits \in Nat \ {0}
    /\ BitsPerBm \in Nat \ {0}
    /\ AllocMayFail \in BOOLEAN

VARIABLES tracker,   \* sbi->s_inode_tracker: "unmounted", "null" or "live"
          present,   \* the indices at which t->bitmaps is not NULL
          bits,      \* t->bitmaps[i]->data: the bits that are 1
          readers,   \* tasks holding t->rwsems[i] as reader
          writers,   \* tasks holding t->rwsems[i] as writer
          pc,        \* where in evfs_bit_wrapper each task is
          op,        \* the call each task is making
          ret        \* what the call answers, "none" until known

vars == <<tracker, present, bits, readers, writers, pc, op, ret>>

\* Valid inode numbers start at 1; the tracker indexes its bits by them.
Inos == 1 .. NumBits

NumBitmaps == (NumBits + BitsPerBm - 1) \div BitsPerBm
Slots == 0 .. NumBitmaps - 1
Bits == 0 .. BitsPerBm - 1
Slot(nr) == nr \div BitsPerBm

Offset(nr) == nr % BitsPerBm

Functions == {"track", "untrack", "untrack_nolock"}
Calls == [fn : Functions, nr : Inos]
NoCall == [fn |-> "none", nr |-> 0]
Answers == {"none", "OK", "EEXIST", "ENOENT", "EINVAL", "EFAULT"}
Labels == {"idle", "down_read", "test", "down_write", "alloc", "bitop", "up_read", "oops"}

\* Mutant of Answer: set_bit in the place of test_and_set_bit.
AnswerBlindTrack(fn, was) ==
    IF fn = "untrack" /\ ~was THEN "ENOENT" ELSE "OK"

\* The three wrappers turn the old value of the bit into an error code.
Answer(fn, was) ==
    IF fn = "track" /\ was THEN "EEXIST"
    ELSE IF fn = "untrack" /\ ~was THEN "ENOENT" ELSE "OK"

-----------------------------------------------------------------------------

Init ==
    /\ tracker = "unmounted"
    /\ present = {}
    /\ bits = [s \in Slots |-> {}]
    /\ readers = [s \in Slots |-> {}]
    /\ writers = [s \in Slots |-> {}]
    /\ pc = [t \in Threads |-> "idle"]
    /\ op = [t \in Threads |-> NoCall]
    /\ ret = [t \in Threads |-> "none"]

\* evfs_bm_tracker_init at mount; when it fails the mount goes on without it.
evfs_bm_tracker_init ==
    /\ tracker = "unmounted"
    /\ tracker' \in {"live"} \cup (IF AllocMayFail THEN {"null"} ELSE {})
    /\ UNCHANGED <<present, bits, readers, writers, pc, op, ret>>

\* evfs_bm_tracker_final at put_super, when the VFS lets no ioctl in any more.
\* It takes every semaphore as writer, so a reader that never left blocks it.
evfs_bm_tracker_final ==
    /\ tracker # "unmounted"
    /\ \A t \in Threads : pc[t] \in {"idle", "oops"}
    /\ tracker = "live" => \A s \in Slots : readers[s] = {} /\ writers[s] = {}
    /\ tracker' = "unmounted"
    /\ present' = {}
    /\ bits' = [s \in Slots |-> {}]
    /\ UNCHANGED <<readers, writers, pc, op, ret>>

\* Entry of evfs_bit_wrapper: the two early returns.
Enter(t) ==
    /\ pc[t] = "idle"
    /\ tracker # "unmounted"
    /\ \E c \in Calls :
        IF tracker = "null" \/ Slot(c.nr) >= NumBitmaps
        THEN /\ ret' = [ret EXCEPT ![t] = IF tracker = "null" THEN "EFAULT" ELSE "EINVAL"]
             /\ UNCHANGED <<pc, op>>
        ELSE /\ ret' = [ret EXCEPT ![t] = "none"]
             /\ op' = [op EXCEPT ![t] = c]
             /\ pc' = [pc EXCEPT ![t] = "down_read"]
    /\ UNCHANGED <<tracker, present, bits, readers, writers>>

DownRead(t) ==
    LET s == Slot(op[t].nr) IN
    /\ pc[t] = "down_read"
    /\ writers[s] = {}
    /\ readers' = [readers EXCEPT ![s] = @ \cup {t}]
    /\ pc' = [pc EXCEPT ![t] = "test"]
    /\ UNCHANGED <<tracker, present, bits, writers, op, ret>>

\* Mutant of Test: the bitmap is taken for granted.
TestSkipped(t) ==
    /\ pc[t] = "test"
    /\ pc' = [pc EXCEPT ![t] = "bitop"]
    /\ UNCHANGED <<tracker, present, bits, readers, writers, op, ret>>

\* evfs_bm_test as reader; a missing bitmap releases the semaphore.
Test(t) ==
    LET s == Slot(op[t].nr) IN
    /\ pc[t] = "test"
    /\ IF s \notin present
       THEN /\ readers' = [readers EXCEPT ![s] = @ \ {t}]
            /\ pc' = [pc EXCEPT ![t] = "down_write"]
       ELSE /\ pc' = [pc EXCEPT ![t] = "bitop"]
            /\ UNCHANGED readers
    /\ UNCHANGED <<tracker, present, bits, writers, op, ret>>

\* Mutant of DownWrite: the upgrade does not wait for the other readers.
DownWriteAmongReaders(t) ==
    LET s == Slot(op[t].nr) IN
    /\ pc[t] = "down_write"
    /\ writers[s] = {}
    /\ writers' = [writers EXCEPT ![s] = {t}]
    /\ pc' = [pc EXCEPT ![t] = "alloc"]
    /\ UNCHANGED <<tracker, present, bits, readers, op, ret>>

DownWrite(t) ==
    LET s == Slot(op[t].nr) IN
    /\ pc[t] = "down_write"
    /\ readers[s] = {} /\ writers[s] = {}
    /\ writers' = [writers EXCEPT ![s] = {t}]
    /\ pc' = [pc EXCEPT ![t] = "alloc"]
    /\ UNCHANGED <<tracker, present, bits, readers, op, ret>>

\* Mutant of Alloc: no re-check of the bitmap as writer.
AllocUnchecked(t) ==
    LET s == Slot(op[t].nr) IN
    /\ pc[t] = "alloc"
    /\ present' = present \cup {s}
    /\ bits' = [bits EXCEPT ![s] = {}]
    /\ writers' = [writers EXCEPT ![s] = @ \ {t}]
    /\ readers' = [readers EXCEPT ![s] = @ \cup {t}]
    /\ pc' = [pc EXCEPT ![t] = "bitop"]
    /\ UNCHANGED <<tracker, op, ret>>

\* The bitmap is tested again, because another task may have allocated it
\* since; evfs_bm_alloc's error is not looked at.  Then downgrade_write.
Alloc(t) ==
    LET s == Slot(op[t].nr) IN
    /\ pc[t] = "alloc"
    /\ \/ /\ s \notin present
          /\ present' = present \cup {s}
          /\ bits' = [bits EXCEPT ![s] = {}]
       \/ /\ s \in present \/ AllocMayFail
          /\ UNCHANGED <<present, bits>>
    /\ writers' = [writers EXCEPT ![s] = @ \ {t}]
    /\ readers' = [readers EXCEPT ![s] = @ \cup {t}]
    /\ pc' = [pc EXCEPT ![t] = "bitop"]
    /\ UNCHANGED <<tracker, op, ret>>

\* The atomic bit operation.  On a bitmap that could not be allocated it
\* dereferences NULL and the task dies inside the semaphore.
BitOp(t) ==
    LET s == Slot(op[t].nr)
        b == Offset(op[t].nr)
    IN
    /\ pc[t] = "bitop"
    /\ IF s \notin present
       THEN /\ pc' = [pc EXCEPT ![t] = "oops"]
            /\ UNCHANGED <<bits, ret>>
       ELSE /\ bits' = [bits EXCEPT ![s] =
                             IF op[t].fn = "track" THEN @ \cup {b} ELSE @ \ {b}]
            /\ ret' = [ret EXCEPT ![t] = Answer(op[t].fn, b \in bits[s])]
            /\ pc' = [pc EXCEPT ![t] = "up_read"]
    /\ UNCHANGED <<tracker, present, readers, writers, op>>

\* Mutant of UpRead: the semaphore is not released.
UpReadForgotten(t) ==
    /\ pc[t] = "up_read"
    /\ pc' = [pc EXCEPT ![t] = "idle"]
    /\ op' = [op EXCEPT ![t] = NoCall]
    /\ UNCHANGED <<tracker, present, bits, readers, writers, ret>>

UpRead(t) ==
    LET s == Slot(op[t].nr) IN
    /\ pc[t] = "up_read"
    /\ readers' = [readers EXCEPT ![s] = @ \ {t}]
    /\ pc' = [pc EXCEPT ![t] = "idle"]
    /\ op' = [op EXCEPT ![t] = NoCall]
    /\ UNCHANGED <<tracker, present, bits, writers, ret>>

Step(t) == DownRead(t) \/ Test(t) \/ DownWrite(t) \/ Alloc(t) \/ BitOp(t) \/ UpRead(t)

Next ==
    \/ evfs_bm_tracker_init
    \/ evfs_bm_tracker_final
    \/ \E t \in Threads : Enter(t) \/ Step(t)

Spec == Init /\ [][Next]_vars

\* A task inside the call keeps running; rw_semaphore hands itself over to its
\* longest waiter, so nobody who keeps asking for it is passed over for ever.
Fairness == \A t \in Threads : SF_vars(Step(t))

FairSpec == Spec /\ Fairness

-----------------------------------------------------------------------------

\* The inode numbers whose bit is set.
Tracked == {nr \in Inos : Slot(nr) \in present /\ Offset(nr) \in bits[Slot(nr)]}

\* Every variable has its type.
TypeOK ==
    /\ tracker \in {"unmounted", "null", "live"}
    /\ present \in SUBSET Slots
    /\ bits \in [Slots -> SUBSET Bits]
    /\ readers \in [Slots -> SUBSET Threads]
    /\ writers \in [Slots -> SUBSET Threads]
    /\ pc \in [Threads -> Labels]
    /\ op \in [Threads -> Calls \cup {NoCall}]
    /\ ret \in [Threads -> Answers]

\* rwsem discipline of evfs_bit_wrapper: a writer of a bitmap is alone, and a
\* task is in a semaphore exactly while it is between taking and releasing the
\* one of its own bitmap, through the upgrade and the downgrade.
SemaphoreDiscipline ==
    \A s \in Slots :
        /\ \A t \in writers[s] : writers[s] = {t} /\ readers[s] = {}
        /\ \A t \in Threads :
            /\ t \in writers[s] <=> pc[t] = "alloc" /\ Slot(op[t].nr) = s
            /\ t \in readers[s] <=>
                 pc[t] \in {"test", "bitop", "up_read", "oops"} /\ Slot(op[t].nr) = s

\* As long as kzalloc succeeds, a task about to operate on a bit finds its
\* bitmap: it was seen as reader, or made as writer and kept by the downgrade.
ReaderSeesBitmap ==
    \A t \in Threads : pc[t] \in {"bitop", "up_read"} => Slot(op[t].nr) \in present

\* A tracked inode number is forgotten only by an untrack of that very number,
\* or by the unmount: allocating a bitmap never wipes bits set meanwhile.
NoLostBit ==
    [][\A nr \in Tracked \ Tracked' :
          \/ tracker' = "unmounted"
          \/ \E t \in Threads : /\ pc[t] = "bitop"
                                /\ op[t].fn # "track"
                                /\ op[t].nr = nr]_vars

\* Every call of the tracker returns.
CallsReturn == \A t \in Threads : pc[t] # "idle" ~> pc[t] = "idle"

\* Any inode of the filesystem can be tracked: with a tracker in place no call
\* answers that the number is out of range.
EveryInodeTrackable == \A t \in Threads : ret[t] # "EINVAL"

\* A call that finds no memory for its bitmap reports -ENOMEM to its caller
\* instead of going on without it.
OutOfMemoryReported == \A t \in Threads : pc[t] # "oops"

\* The tracker behaves as one atomic set of inode numbers.
Abstract == INSTANCE InodeSet WITH tracked <- Tracked, call <- op, answer <- ret

ImplementsInodeSet == Abstract!Spec
=============================================================================
