------------------------- MODULE InodeTrackerProofs -------------------------
(***************************************************************************)
(* Proofs about InodeTracker for any set of tasks, any inode count and any *)
(* bitmap size: the reader/writer discipline of evfs_bit_wrapper, that no  *)
(* tracked number is lost, and that the tracker implements InodeSet.       *)
(***************************************************************************)
EXTENDS InodeTracker, TLAPS

\* Where a task is determines whether it is making a call, whether the call has
\* its answer, and that the call names an existing bitmap slot.
CallsInRange ==
    \A t \in Threads :
        /\ pc[t] = "idle" <=> op[t] = NoCall
        /\ pc[t] # "idle" => op[t] \in Calls /\ Slot(op[t].nr) \in Slots
        /\ pc[t] \in {"down_read", "test", "down_write", "alloc", "bitop", "oops"}
              => ret[t] = "none"
        /\ pc[t] = "up_read" => ret[t] # "none"

\* A task past evfs_bm_test still has its bitmap, unless kzalloc may fail.
BitmapInPlace ==
    \A t \in Threads :
        pc[t] = "up_read" \/ (pc[t] = "bitop" /\ ~AllocMayFail)
            => Slot(op[t].nr) \in present

IInv == TypeOK /\ CallsInRange /\ SemaphoreDiscipline /\ BitmapInPlace

-----------------------------------------------------------------------------

\* nr / bits_per_bm and nr % bits_per_bm together identify nr.
LEMMA SlotOffsetIdentify ==
    ASSUME NEW a \in Nat, NEW b \in Nat, Slot(a) = Slot(b), Offset(a) = Offset(b)
    PROVE  a = b
<1>1. BitsPerBm \in Nat \ {0}
  BY TrackerAssumption
<1>2. a = BitsPerBm * (a \div BitsPerBm) + (a % BitsPerBm)
  BY <1>1
<1>3. b = BitsPerBm * (b \div BitsPerBm) + (b % BitsPerBm)
  BY <1>1
<1> QED BY <1>2, <1>3 DEF Slot, Offset

\* bit_offset always lies inside the bitmap, and bitmap_num is never negative.
LEMMA SlotOffsetRange ==
    ASSUME NEW nr \in Inos
    PROVE  /\ Slot(nr) \in Nat
           /\ Offset(nr) \in Bits
           /\ Slot(nr) < NumBitmaps => Slot(nr) \in Slots
<1>1. BitsPerBm \in Nat \ {0} /\ nr \in Nat /\ NumBits \in Nat
  BY TrackerAssumption DEF Inos
<1>2. nr \div BitsPerBm \in Nat /\ nr % BitsPerBm \in 0 .. BitsPerBm - 1
  BY <1>1
<1>3. NumBitmaps \in Int
  BY <1>1 DEF NumBitmaps
<1> QED BY <1>1, <1>2, <1>3 DEF Slot, Offset, Bits, Slots

\* NoCall is told apart from a call by its function.
LEMMA NoCallIsNone == NoCall \notin Calls
  BY DEF NoCall, Calls, Functions

LEMMA InitInv == Init => IInv
<1> SUFFICES ASSUME Init PROVE IInv
  OBVIOUS
<1>1. TypeOK
  BY DEF Init, TypeOK, Labels, Answers
<1>2. CallsInRange /\ BitmapInPlace
  BY DEF Init, CallsInRange, BitmapInPlace
<1>3. SemaphoreDiscipline
  BY DEF Init, SemaphoreDiscipline
<1> QED BY <1>1, <1>2, <1>3 DEF IInv

LEMMA NextInv == IInv /\ [Next]_vars => IInv'
<1> SUFFICES ASSUME IInv, [Next]_vars PROVE IInv'
  OBVIOUS
<1> USE DEF IInv
<1>1. CASE evfs_bm_tracker_init
  BY <1>1 DEF evfs_bm_tracker_init, TypeOK, CallsInRange, SemaphoreDiscipline, BitmapInPlace
<1>2. CASE evfs_bm_tracker_final
  <2>1. TypeOK' /\ CallsInRange' /\ SemaphoreDiscipline'
    BY <1>2 DEF evfs_bm_tracker_final, TypeOK, CallsInRange, SemaphoreDiscipline
  <2>2. BitmapInPlace'
    BY <1>2 DEF evfs_bm_tracker_final, BitmapInPlace
  <2> QED BY <2>1, <2>2
<1>3. ASSUME NEW t \in Threads, Enter(t) PROVE IInv'
  <2>1. PICK c \in Calls :
          IF tracker = "null" \/ Slot(c.nr) >= NumBitmaps
          THEN /\ ret' = [ret EXCEPT ![t] = IF tracker = "null" THEN "EFAULT" ELSE "EINVAL"]
               /\ UNCHANGED <<pc, op>>
          ELSE /\ ret' = [ret EXCEPT ![t] = "none"]
               /\ op' = [op EXCEPT ![t] = c]
               /\ pc' = [pc EXCEPT ![t] = "down_read"]
    BY <1>3 DEF Enter
  <2>2. /\ pc[t] = "idle"
        /\ UNCHANGED <<tracker, present, bits, readers, writers>>
    BY <1>3 DEF Enter
  <2>3. CASE tracker = "null" \/ Slot(c.nr) >= NumBitmaps
    <3>1. TypeOK'
      BY <2>1, <2>2, <2>3 DEF TypeOK, Answers
    <3>2. CallsInRange' /\ SemaphoreDiscipline' /\ BitmapInPlace'
      BY <2>1, <2>2, <2>3 DEF TypeOK, CallsInRange, SemaphoreDiscipline, BitmapInPlace
    <3> QED BY <3>1, <3>2
  <2>4. CASE ~(tracker = "null" \/ Slot(c.nr) >= NumBitmaps)
    <3>1. c.nr \in Inos
      BY DEF Calls
    <3>2. NumBitmaps \in Int
      BY TrackerAssumption DEF NumBitmaps
    <3>3. Slot(c.nr) \in Slots
      BY <2>4, <3>1, <3>2, SlotOffsetRange
    <3>4. TypeOK'
      BY <2>1, <2>2, <2>4 DEF TypeOK, Answers, Labels
    <3>5. CallsInRange'
      BY <2>1, <2>2, <2>4, <3>3, NoCallIsNone DEF TypeOK, CallsInRange
    <3>6. SemaphoreDiscipline' /\ BitmapInPlace'
      BY <2>1, <2>2, <2>4 DEF TypeOK, SemaphoreDiscipline, BitmapInPlace
    <3> QED BY <3>4, <3>5, <3>6
  <2> QED BY <2>3, <2>4
<1>4. ASSUME NEW t \in Threads, DownRead(t) PROVE IInv'
  <2>1. TypeOK' /\ CallsInRange' /\ BitmapInPlace'
    BY <1>4 DEF DownRead, TypeOK, CallsInRange, BitmapInPlace, Labels
  <2>2. SemaphoreDiscipline'
    BY <1>4 DEF DownRead, TypeOK, CallsInRange, SemaphoreDiscipline
  <2> QED BY <2>1, <2>2
<1>5. ASSUME NEW t \in Threads, Test(t) PROVE IInv'
  <2>1. TypeOK' /\ CallsInRange' /\ BitmapInPlace'
    BY <1>5 DEF Test, TypeOK, CallsInRange, BitmapInPlace, Labels
  <2>2. SemaphoreDiscipline'
    BY <1>5 DEF Test, TypeOK, CallsInRange, SemaphoreDiscipline
  <2> QED BY <2>1, <2>2
<1>6. ASSUME NEW t \in Threads, DownWrite(t) PROVE IInv'
  <2>1. TypeOK' /\ CallsInRange' /\ BitmapInPlace'
    BY <1>6 DEF DownWrite, TypeOK, CallsInRange, BitmapInPlace, Labels
  <2>2. SemaphoreDiscipline'
    BY <1>6 DEF DownWrite, TypeOK, CallsInRange, SemaphoreDiscipline
  <2> QED BY <2>1, <2>2
<1>7. ASSUME NEW t \in Threads, Alloc(t) PROVE IInv'
  <2>1. TypeOK' /\ CallsInRange' /\ BitmapInPlace'
    BY <1>7 DEF Alloc, TypeOK, CallsInRange, BitmapInPlace, Labels
  <2>2. SemaphoreDiscipline'
    BY <1>7 DEF Alloc, TypeOK, CallsInRange, SemaphoreDiscipline
  <2> QED BY <2>1, <2>2
<1>8. ASSUME NEW t \in Threads, BitOp(t) PROVE IInv'
  <2>1. /\ op[t] \in Calls /\ op[t].nr \in Inos /\ Slot(op[t].nr) \in Slots
        /\ pc[t] = "bitop"
    BY <1>8 DEF BitOp, CallsInRange, Calls
  <2>2. Offset(op[t].nr) \in Bits
    BY <2>1, SlotOffsetRange
  <2>3. CASE Slot(op[t].nr) \notin present
    BY <1>8, <2>1, <2>3 DEF BitOp, TypeOK, CallsInRange, SemaphoreDiscipline, BitmapInPlace, Labels
  <2>4. CASE Slot(op[t].nr) \in present
    <3>1. /\ pc' = [pc EXCEPT ![t] = "up_read"]
          /\ UNCHANGED <<tracker, present, readers, writers, op>>
          /\ bits' = [bits EXCEPT ![Slot(op[t].nr)] =
                        IF op[t].fn = "track" THEN @ \cup {Offset(op[t].nr)}
                                              ELSE @ \ {Offset(op[t].nr)}]
          /\ ret' = [ret EXCEPT ![t] = Answer(op[t].fn, Offset(op[t].nr) \in bits[Slot(op[t].nr)])]
      BY <1>8, <2>4 DEF BitOp
    <3>2. Answer(op[t].fn, Offset(op[t].nr) \in bits[Slot(op[t].nr)]) \in Answers \ {"none"}
      BY <2>1 DEF Answer, Answers
    <3>3. TypeOK'
      BY <2>1, <2>2, <3>1, <3>2 DEF TypeOK, Labels
    <3>4. CallsInRange' /\ SemaphoreDiscipline' /\ BitmapInPlace'
      BY <2>1, <2>4, <3>1, <3>2 DEF TypeOK, CallsInRange, SemaphoreDiscipline, BitmapInPlace
    <3> QED BY <3>3, <3>4
  <2> QED BY <2>3, <2>4
<1>9. ASSUME NEW t \in Threads, UpRead(t) PROVE IInv'
  <2>1. TypeOK' /\ CallsInRange' /\ BitmapInPlace'
    BY <1>9 DEF UpRead, TypeOK, CallsInRange, BitmapInPlace, Labels
  <2>2. SemaphoreDiscipline'
    BY <1>9 DEF UpRead, TypeOK, CallsInRange, SemaphoreDiscipline
  <2> QED BY <2>1, <2>2
<1>10. CASE UNCHANGED vars
  BY <1>10 DEF vars, TypeOK, CallsInRange, SemaphoreDiscipline, BitmapInPlace
<1> QED
  BY <1>1, <1>2, <1>3, <1>4, <1>5, <1>6, <1>7, <1>8, <1>9, <1>10 DEF Next, Step

-----------------------------------------------------------------------------

\* The inductive invariant holds in every reachable state.
THEOREM Invariance == Spec => []IInv
<1> QED BY InitInv, NextInv, PTL DEF Spec

\* Every variable of the tracker keeps its type.
THEOREM TypeCorrect == Spec => []TypeOK
<1>1. IInv => TypeOK
  BY DEF IInv
<1> QED BY <1>1, Invariance, PTL

\* A writer of a bitmap is alone in its semaphore, and every task is in exactly
\* the semaphore evfs_bit_wrapper has it hold at its place.
THEOREM SemaphoreSafe == Spec => []SemaphoreDiscipline
<1>1. IInv => SemaphoreDiscipline
  BY DEF IInv
<1> QED BY <1>1, Invariance, PTL

\* While kzalloc succeeds, a bit operation always finds its bitmap.
THEOREM BitmapFound == ASSUME ~AllocMayFail PROVE Spec => []ReaderSeesBitmap
<1>1. IInv => ReaderSeesBitmap
  BY DEF IInv, BitmapInPlace, ReaderSeesBitmap
<1> QED BY <1>1, Invariance, PTL

\* Allocating a bitmap, or finding that another task has, leaves the tracked
\* numbers alone.
LEMMA AllocTracked ==
    ASSUME IInv, NEW t \in Threads, Alloc(t)
    PROVE  Tracked' = Tracked
<1>1. pc[t] = "alloc" /\ Slot(op[t].nr) \in Slots
  BY DEF Alloc, IInv, CallsInRange
<1>2. CASE UNCHANGED <<present, bits>>
  BY <1>2 DEF Tracked
<1>3. CASE /\ Slot(op[t].nr) \notin present
           /\ present' = present \cup {Slot(op[t].nr)}
           /\ bits' = [bits EXCEPT ![Slot(op[t].nr)] = {}]
  <2>1. \A nr \in Inos : Slot(nr) \in present => Slot(nr) # Slot(op[t].nr)
    BY <1>3
  <2>2. bits \in [Slots -> SUBSET Bits] /\ present \subseteq Slots
    BY DEF IInv, TypeOK
  <2>3. \A nr \in Inos : Slot(nr) \in present' /\ Offset(nr) \in bits'[Slot(nr)]
                        <=> Slot(nr) \in present /\ Offset(nr) \in bits[Slot(nr)]
    BY <1>1, <1>3, <2>1, <2>2
  <2> QED BY <2>3 DEF Tracked
<1> QED BY <1>2, <1>3 DEF Alloc

\* A bit operation adds or removes the one number it names.
LEMMA BitOpTracked ==
    ASSUME IInv, NEW t \in Threads, BitOp(t), Slot(op[t].nr) \in present
    PROVE  Tracked' = IF op[t].fn = "track" THEN Tracked \cup {op[t].nr}
                                            ELSE Tracked \ {op[t].nr}
<1>1. pc[t] = "bitop" /\ op[t].nr \in Inos /\ Slot(op[t].nr) \in Slots
  BY DEF BitOp, IInv, CallsInRange, Calls
<1>2. CASE Slot(op[t].nr) \in present
  <2> DEFINE s == Slot(op[t].nr)
             b == Offset(op[t].nr)
  <2>1. /\ present' = present
        /\ bits' = [bits EXCEPT ![s] = IF op[t].fn = "track" THEN @ \cup {b} ELSE @ \ {b}]
    BY <1>2 DEF BitOp
  <2>2. bits \in [Slots -> SUBSET Bits] /\ present \subseteq Slots
    BY DEF IInv, TypeOK
  <2>3. ASSUME NEW nr \in Inos, nr # op[t].nr
        PROVE  Offset(nr) \in bits'[Slot(nr)] <=> Offset(nr) \in bits[Slot(nr)]
    <3>1. ~(Slot(nr) = s /\ Offset(nr) = b)
      BY <1>1, <2>3, SlotOffsetIdentify, TrackerAssumption DEF Inos
    <3> HIDE DEF s, b
    <3>2. CASE Slot(nr) = s
      BY <1>1, <2>1, <2>2, <3>1, <3>2 DEF s
    <3>3. CASE Slot(nr) # s
      BY <1>1, <2>1, <2>2, <3>3 DEF s
    <3> QED BY <3>2, <3>3
  <2>4. Offset(op[t].nr) \in bits'[Slot(op[t].nr)] <=> op[t].fn = "track"
    BY <1>1, <2>1, <2>2
  <2>5. CASE op[t].fn = "track"
    BY <1>1, <1>2, <2>1, <2>3, <2>4, <2>5 DEF Tracked
  <2>6. CASE op[t].fn # "track"
    BY <1>1, <1>2, <2>1, <2>3, <2>4, <2>6 DEF Tracked
  <2> QED BY <1>1, <1>2, <2>5, <2>6
<1> QED BY <1>2

\* What a step does to the set of tracked numbers.
LEMMA StepTracked ==
    ASSUME IInv, [Next]_vars
    PROVE  \/ tracker' = "unmounted" /\ Tracked' = {}
           \/ Tracked' = Tracked
           \/ \E t \in Threads :
                /\ pc[t] = "bitop" /\ BitOp(t)
                /\ Slot(op[t].nr) \in present
                /\ Tracked' = IF op[t].fn = "track" THEN Tracked \cup {op[t].nr}
                                                    ELSE Tracked \ {op[t].nr}
<1>1. CASE evfs_bm_tracker_final
  BY <1>1 DEF evfs_bm_tracker_final, Tracked
<1>2. ASSUME NEW t \in Threads, Alloc(t) PROVE Tracked' = Tracked
  BY <1>2, AllocTracked
<1>3. ASSUME NEW t \in Threads, BitOp(t)
      PROVE  \/ Tracked' = Tracked
             \/ /\ pc[t] = "bitop" /\ Slot(op[t].nr) \in present
                /\ Tracked' = IF op[t].fn = "track" THEN Tracked \cup {op[t].nr}
                                                    ELSE Tracked \ {op[t].nr}
  <2>1. CASE Slot(op[t].nr) \notin present
    BY <1>3, <2>1 DEF BitOp, Tracked
  <2>2. CASE Slot(op[t].nr) \in present
    BY <1>3, <2>2, BitOpTracked DEF BitOp
  <2> QED BY <2>1, <2>2
<1>4. ASSUME NEW t \in Threads,
             Enter(t) \/ DownRead(t) \/ Test(t) \/ DownWrite(t) \/ UpRead(t)
      PROVE  Tracked' = Tracked
  BY <1>4 DEF Enter, DownRead, Test, DownWrite, UpRead, Tracked
<1>5. CASE evfs_bm_tracker_init \/ UNCHANGED vars
  BY <1>5 DEF evfs_bm_tracker_init, vars, Tracked
<1> QED BY <1>1, <1>2, <1>3, <1>4, <1>5 DEF Next, Step

\* A tracked number is forgotten only by an untrack of that number or by the
\* unmount, whatever allocations of bitmaps race with it.
THEOREM BitsAreKept == Spec => NoLostBit
<1> DEFINE Kept == \A nr \in Tracked \ Tracked' :
                     \/ tracker' = "unmounted"
                     \/ \E t \in Threads : /\ pc[t] = "bitop"
                                           /\ op[t].fn # "track"
                                           /\ op[t].nr = nr
<1>1. IInv /\ [Next]_vars => [Kept]_vars
  BY StepTracked
<1>2. Spec => [][Kept]_vars
  BY <1>1, Invariance, PTL DEF Spec
<1> QED BY <1>2 DEF NoLostBit

\* The array of lazily allocated bitmaps implements one atomic set of inode
\* numbers: each call of evfs_bit_wrapper takes effect at its bit operation.
THEOREM Refinement == Spec => ImplementsInodeSet
<1>1. Init => Abstract!Init
  BY DEF Init, Abstract!Init, Tracked, Abstract!NoCall, NoCall
<1>2. IInv /\ [Next]_vars => [Abstract!Next]_(Abstract!vars)
  <2> SUFFICES ASSUME IInv, [Next]_vars
               PROVE  Abstract!Next \/ UNCHANGED Abstract!vars
    BY DEF Abstract!vars
  <2> USE DEF IInv, Abstract!NoCall, NoCall, Abstract!vars
  <2>1. CASE evfs_bm_tracker_final
    <3>1. Tracked' = {}
      BY <2>1 DEF evfs_bm_tracker_final, Tracked
    <3> QED BY <2>1, <3>1 DEF evfs_bm_tracker_final, Abstract!Next, Abstract!Forget
  <2>2. ASSUME NEW t \in Threads, Enter(t) PROVE Abstract!Next
    <3>1. Tracked' = Tracked
      BY <2>2 DEF Enter, Tracked
    <3>2. Abstract!Invoke(t) \/ Abstract!Reject(t)
      BY <2>2, <3>1 DEF Enter, CallsInRange, Abstract!Invoke, Abstract!Reject,
                        Abstract!Calls, Calls, Abstract!Functions, Functions
    <3> QED BY <3>2 DEF Abstract!Next
  <2>3. ASSUME NEW t \in Threads, DownRead(t) \/ Test(t) \/ DownWrite(t)
        PROVE  UNCHANGED Abstract!vars
    BY <2>3 DEF DownRead, Test, DownWrite, Tracked
  <2>4. ASSUME NEW t \in Threads, Alloc(t) PROVE UNCHANGED Abstract!vars
    <3>1. pc[t] = "alloc" /\ tracker' = tracker /\ op' = op /\ ret' = ret
      BY <2>4 DEF Alloc
    <3>2. Tracked' = Tracked
      BY <2>4, AllocTracked
    <3> QED BY <3>1, <3>2
  <2>5. ASSUME NEW t \in Threads, BitOp(t) PROVE Abstract!Next \/ UNCHANGED Abstract!vars
    <3>1. /\ pc[t] = "bitop" /\ op[t] \in Calls /\ op[t].nr \in Inos
          /\ ret[t] = "none" /\ op[t] # NoCall /\ op' = op
      BY <2>5, NoCallIsNone DEF BitOp, CallsInRange, Calls
    <3>2. CASE Slot(op[t].nr) \notin present
      BY <2>5, <3>2 DEF BitOp, Tracked
    <3>3. CASE Slot(op[t].nr) \in present
      <4>1. Tracked' = IF op[t].fn = "track" THEN Tracked \cup {op[t].nr}
                                             ELSE Tracked \ {op[t].nr}
        BY <2>5, <3>3, BitOpTracked
      <4>2. Offset(op[t].nr) \in bits[Slot(op[t].nr)] <=> op[t].nr \in Tracked
        BY <3>1, <3>3 DEF Tracked
      <4>3. ret' = [ret EXCEPT ![t] = Answer(op[t].fn, Offset(op[t].nr) \in bits[Slot(op[t].nr)])]
        BY <2>5, <3>3 DEF BitOp
      <4>4. Answer(op[t].fn, Offset(op[t].nr) \in bits[Slot(op[t].nr)])
              = Abstract!Answer(op[t].fn, op[t].nr \in Tracked)
        BY <4>2 DEF Answer, Abstract!Answer
      <4>5. Abstract!Apply(t)
        BY <3>1, <4>1, <4>3, <4>4 DEF Abstract!Apply
      <4> QED BY <4>5 DEF Abstract!Next
    <3> QED BY <3>2, <3>3
  <2>6. ASSUME NEW t \in Threads, UpRead(t) PROVE Abstract!Next
    <3>1. Tracked' = Tracked
      BY <2>6 DEF UpRead, Tracked
    <3>2. Abstract!Return(t)
      BY <2>6, <3>1 DEF UpRead, CallsInRange, Abstract!Return
    <3> QED BY <3>2 DEF Abstract!Next
  <2>7. CASE evfs_bm_tracker_init \/ UNCHANGED vars
    BY <2>7 DEF evfs_bm_tracker_init, vars, Tracked
  <2> QED BY <2>1, <2>2, <2>3, <2>4, <2>5, <2>6, <2>7 DEF Next, Step
<1> QED BY <1>1, <1>2, Invariance, PTL DEF Spec, ImplementsInodeSet, Abstract!Spec
=============================================================================
