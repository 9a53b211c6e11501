------------------------------- MODULE Mount -------------------------------
(***************************************************************************)
(* One ext4 volume from mount to mount: ext4_fill_super and its failure    *)
(* labels, __ext4_remount, ext4_freeze and ext4_unfreeze, ext4_put_super,  *)
(* ext4_force_shutdown, and next to them the error path and the work item  *)
(* that writes the superblock, the journal's own thread, and a crash at    *)
(* any point (fs/ext4/super.c, fs/ext4/ioctl.c).                           *)
(*                                                                         *)
(* The superblock is kept three times: on the disk, in the buffer es       *)
(* points to, and as a copy in a transaction of the log.  The calls are    *)
(* serialised by s_umount; a call is cut where its disk state changes.     *)
(***************************************************************************)
EXTENDS Integers, Sequences

CONSTANTS
    HasJournal,    \* the volumes the runs start with: with the journal feature or without
    Faults,        \* the faults of KnownFaults that may happen
    None

(* Faults after which a property below fails; a run leaves them out by name.                   *)
(*   late_ro    a remount read-only fails after it marked the volume clean                     *)
(*   sbwrite    the write of the superblock fails in freeze or thaw                            *)
(*   noload_rw  a volume mounted ro,noload over an unreplayed log is remounted read-write      *)
(*   frozen     the work writes the superblock through the journal while the volume is frozen  *)
(*   log_error  a mount replays the only record of an error                                    *)
(*   replay     a replay overwrites the error in the superblock, and it is not written back    *)
(*   resume     dquot_resume fails                                                             *)
KnownFaults == {"late_ro", "sbwrite", "noload_rw", "frozen", "log_error", "replay", "resume"}

ASSUME MountAssumption ==
    /\ HasJournal \subseteq BOOLEAN /\ HasJournal # {}
    /\ Faults \subseteq KnownFaults

VARIABLES
    jfeature,      \* the journal feature of the volume
    disk,          \* the superblock on the disk
    log,           \* what the journal on the disk holds: changes, and a copy of the superblock
    errno,         \* the journal superblock records an error
    dirty,         \* unjournalled changes: all on disk, some in memory, or torn by a crash
    es,            \* sbi->s_es, the buffer of the superblock
    mstate,        \* sbi->s_mount_state
    rdonly,        \* SB_RDONLY
    shutdown,      \* EXT4_FLAGS_SHUTDOWN
    aborted,       \* the journal is aborted
    txn,           \* the running transaction: changes, and the superblock buffer or not
    adderr,        \* s_add_error_count > 0
    work,          \* s_sb_upd_work is queued
    cont,          \* errors=continue
    quota,         \* the quota files
    frozen,        \* the VFS froze the volume
    active,        \* SB_ACTIVE
    held,          \* what the mount acquired and has not released
    pc,            \* where the call that holds s_umount is
    arg            \* its arguments and what it saved

durable == <<jfeature, disk, log, errno, dirty>>
flags == <<rdonly, shutdown, cont, frozen, active>>
journal == <<aborted, txn>>
sb == <<es, mstate, adderr>>
vars == <<durable, flags, journal, sb, work, quota, held, pc, arg>>

-----------------------------------------------------------------------------
(* The fields of the superblock the mount code reads and writes. *)
Superblock == [valid : BOOLEAN, err : BOOLEAN, recover : BOOLEAN]
NoLog == [tx |-> FALSE, copy |-> None]
NoTxn == [tx |-> FALSE, sb |-> FALSE]
NoArg == [ro |-> FALSE, noload |-> FALSE, zone |-> FALSE, old |-> FALSE, oldzone |-> FALSE,
          needrec |-> FALSE, ok |-> FALSE]
Blank == [valid |-> FALSE, err |-> FALSE, recover |-> FALSE]

(* sbi->s_journal *)
HasLog == "journal" \in held

Init ==
    /\ jfeature \in HasJournal
    /\ disk = [valid |-> TRUE, err |-> FALSE, recover |-> FALSE]
    /\ log = NoLog /\ errno = FALSE /\ dirty = "no"
    /\ es = Blank /\ mstate = [valid |-> FALSE, err |-> FALSE]
    /\ rdonly = FALSE /\ shutdown = FALSE /\ cont = FALSE /\ frozen = FALSE /\ active = FALSE
    /\ aborted = FALSE /\ txn = NoTxn /\ adderr = FALSE /\ work = FALSE
    /\ quota = "off" /\ held = {} /\ pc = "none" /\ arg = NoArg

(* Nothing of the mount is left in memory. *)
Forget ==
    /\ es' = Blank /\ mstate' = [valid |-> FALSE, err |-> FALSE]
    /\ rdonly' = FALSE /\ shutdown' = FALSE /\ cont' = FALSE /\ frozen' = FALSE /\ active' = FALSE
    /\ aborted' = FALSE /\ txn' = NoTxn /\ adderr' = FALSE
    /\ pc' = "none" /\ arg' = NoArg

Goto(l) == pc' = l

-----------------------------------------------------------------------------
(* The superblock *)

(* ext4_update_super *)
Updated(e) == [e EXCEPT !.err = @ \/ adderr]

(* ext4_commit_super of the buffer e over the disk's d: the write may fail, and a write that *)
(* fails may have reached the disk.                                                          *)
CommitOver(d, e, wrote) ==
    /\ es' = Updated(e) /\ adderr' = FALSE
    /\ disk' = IF wrote THEN Updated(e) ELSE d

CommitSuper(e, wrote) == CommitOver(disk, e, wrote)

(* What the call returns, given that the block reached the disk or not. *)
Results(wrote) == IF wrote THEN BOOLEAN ELSE {FALSE}

(* jbd2_journal_abort: an error other than ESHUTDOWN goes to the journal superblock. *)
JournalAbort(error) ==
    /\ aborted' = (aborted \/ HasLog)
    /\ errno' = (errno \/ (HasLog /\ error))

(* jbd2_journal_flush and the end of jbd2_journal_destroy: everything is committed and         *)
(* checkpointed, the superblock with it when a transaction has it.                             *)
Flushed == IF txn.sb \/ log.copy # None THEN es ELSE disk
FlushLog == log' = NoLog /\ txn' = NoTxn

(* sync_filesystem: buffers go to the disk, and ext4_sync_fs commits the running transaction. *)
Committed == [tx |-> log.tx \/ txn.tx, copy |-> IF txn.sb THEN es ELSE log.copy]
SyncFs ==
    /\ dirty' = IF dirty = "yes" THEN "no" ELSE dirty
    /\ IF HasLog /\ ~shutdown /\ ~aborted THEN log' = Committed /\ txn' = NoTxn
       ELSE UNCHANGED <<log, txn>>

(* ext4_handle_error, called with force_ro or not. *)
HandleError(force) ==
    LET continue == ~force /\ cont IN
    /\ mstate' = [mstate EXCEPT !.err = TRUE]
    /\ IF continue \/ rdonly THEN UNCHANGED <<shutdown, aborted, errno, rdonly>>
       ELSE shutdown' = TRUE /\ rdonly' = TRUE /\ JournalAbort(TRUE)
    /\ IF continue /\ HasLog THEN work' = TRUE /\ adderr' = TRUE /\ UNCHANGED <<es, disk>>
       ELSE /\ \E wrote \in BOOLEAN : CommitSuper([es EXCEPT !.err = TRUE], wrote)
            /\ UNCHANGED work

-----------------------------------------------------------------------------
(* Mounting: __ext4_fill_super *)

(* Stages that acquire one thing or fail, and the stage after each. *)
Plain == {"desc", "shrinker", "caches", "wq", "mb", "percpu", "li", "sysfs", "orphan"}
After == [desc |-> "shrinker", shrinker |-> "mmp", mmp |-> "load", caches |-> "wq", wq |-> "root",
          root |-> "setup", setup |-> "zone", zone |-> "mb", mb |-> "percpu", percpu |-> "li",
          li |-> "sysfs", sysfs |-> "orphan", orphan |-> "quota", quota |-> "recover"]

(* The label a stage that fails jumps to, and what each label releases on the way down. *)
Label == [desc |-> "3", shrinker |-> "3", mmp |-> "3a", load |-> "3a", caches |-> "wq", wq |-> "4",
          root |-> "4", setup |-> "4a", zone |-> "4a", mb |-> "5", percpu |-> "6", li |-> "6",
          sysfs |-> "7", orphan |-> "8", quota |-> "9", recover |-> "10"]
Labels == <<"10", "9", "8", "7", "6", "5", "4a", "4", "wq", "3a", "3">>
Frees(l) ==
    CASE l = "10" -> {} [] l = "9" -> {"orphan"} [] l = "8" -> {"sysfs"} [] l = "7" -> {"li"}
      [] l = "6" -> {"mb", "percpu"} [] l = "5" -> {"zone"} [] l = "4a" -> {"root"}
      [] l = "4" -> {"wq"} [] l = "wq" -> {"caches"} [] l = "3a" -> {} [] l = "3" -> {}

(* The labels from failed_mount<l> down to the destruction of the journal. *)
FailTo(l) ==
    LET at == CHOOSE i \in DOMAIN Labels : Labels[i] = l IN
    /\ held' = held \ UNION {Frees(Labels[i]) : i \in at .. Len(Labels)}
    /\ quota' = IF l = "10" THEN "off" ELSE quota
    /\ Goto(IF l \in {"3a", "3"} THEN "fail_flush" ELSE "fail_journal")

(* Where an error can be on record. *)
InLog == log.copy # None /\ log.copy.err
OnDisk == disk.err \/ errno \/ InLog

(* ext4_load_super, the options and the checks before INIT_WORK. *)
StartMount ==
    /\ pc = "none"
    /\ InLog /\ ~disk.err /\ ~errno => "log_error" \in Faults
    /\ \E ro, noload, zone, c \in BOOLEAN :
          /\ rdonly' = ro /\ cont' = c
          /\ arg' = [NoArg EXCEPT !.noload = noload, !.zone = zone]
    /\ es' = disk /\ mstate' = [valid |-> disk.valid, err |-> disk.err]
    /\ held' = {"sbi"} /\ Goto("desc")
    /\ UNCHANGED <<durable, shutdown, frozen, active, journal, adderr, work, quota>>

(* A stage that only acquires, or fails. *)
Acquire ==
    /\ pc \in Plain
    /\ \/ held' = held \cup {pc} /\ Goto(After[pc]) /\ UNCHANGED quota
       \/ FailTo(Label[pc])
    /\ UNCHANGED <<durable, flags, journal, sb, work, arg>>

(* ext4_multi_mount_protect, for a read-write mount. *)
StartMmp ==
    /\ pc = "mmp"
    /\ \/ held' = (IF rdonly THEN held ELSE held \cup {"mmpd"}) /\ Goto("load") /\ UNCHANGED quota
       \/ ~rdonly /\ FailTo(Label["mmp"])
    /\ UNCHANGED <<durable, flags, journal, sb, work, arg>>

(* The choice of journal or none, and the first half of ext4_load_journal: a log the superblock *)
(* does not ask to recover is wiped; a replay writes its copy of the superblock back into the   *)
(* buffer and to the disk.                                                                      *)
LoadJournal ==
    /\ pc = "load"
    /\ \/ /\ ~jfeature \/ arg.noload
          /\ IF arg.noload /\ ~rdonly /\ es.recover THEN FailTo(Label["load"])
             ELSE Goto("caches") /\ UNCHANGED <<held, quota>>
          /\ arg' = [arg EXCEPT !.needrec = FALSE]
          /\ UNCHANGED <<disk, log, es>>
       \/ /\ jfeature /\ ~arg.noload
          /\ arg' = [arg EXCEPT !.needrec = es.recover]
          /\ IF es.recover THEN /\ disk' = IF log.copy # None THEN log.copy ELSE disk
                               /\ es' = disk' /\ Goto("replay") /\ UNCHANGED log
             ELSE log' = NoLog /\ Goto("replay") /\ UNCHANGED <<disk, es>>
          /\ UNCHANGED <<held, quota>>
       \/ FailTo(Label["load"]) /\ UNCHANGED <<arg, disk, log, es>>
    /\ UNCHANGED <<jfeature, errno, dirty, flags, journal, mstate, adderr, work>>

(* jbd2_journal_load returns: the log is empty, or could not be read. *)
Replayed ==
    /\ pc = "replay"
    /\ \E ok \in BOOLEAN : /\ arg' = [arg EXCEPT !.ok = ok]
                           /\ log' = IF ok THEN NoLog ELSE log
    /\ Goto("restore")
    /\ UNCHANGED <<jfeature, disk, errno, dirty, flags, journal, sb, work, quota, held>>

(* "Write out restored error information to the superblock". *)
RestoreError ==
    /\ pc = "restore"
    /\ LET e == [es EXCEPT !.err = @ \/ mstate.err] IN
       \E wrote \in BOOLEAN : \E ok \in IF e = es THEN {TRUE} ELSE Results(wrote) :
          /\ IF e = es THEN wrote /\ UNCHANGED <<es, disk, adderr>> ELSE CommitSuper(e, wrote)
          /\ ~wrote => "replay" \in Faults
          /\ IF arg.ok /\ ok THEN Goto("clear_err") /\ UNCHANGED <<held, quota>>
             ELSE FailTo(Label["load"])
    /\ UNCHANGED <<jfeature, log, errno, dirty, flags, journal, mstate, work, arg>>

(* Mutant of ClearJournalErr: the journal's record goes whatever became of the superblock. *)
ClearErrFirst(recorded, wrote, ok) ==
    /\ ok \in IF recorded THEN Results(wrote) ELSE {TRUE}
    /\ IF recorded THEN CommitSuper([es EXCEPT !.err = TRUE], wrote)
       ELSE wrote /\ UNCHANGED <<es, disk, adderr>>
    /\ errno' = (errno /\ ~recorded)

(* ext4_clear_journal_err: an error the journal recorded moves to the superblock, and is cleared *)
(* in the journal once the superblock is written.                                                *)
ClearJournalErr(recorded, wrote, ok) ==
    /\ ok \in IF recorded THEN Results(wrote) ELSE {TRUE}
    /\ IF recorded THEN CommitSuper([es EXCEPT !.err = TRUE], wrote)
       ELSE wrote /\ UNCHANGED <<es, disk, adderr>>
    /\ errno' = (errno /\ ~(recorded /\ ok))

(* The journal is the volume's; its features and the data mode are settled or the mount fails. *)
TakeJournal ==
    /\ pc = "clear_err"
    /\ \E wrote, ok, features \in BOOLEAN :
          /\ ClearJournalErr(errno, wrote, ok)
          /\ mstate' = [mstate EXCEPT !.err = @ \/ errno]
          /\ IF ok /\ features
             THEN held' = held \cup {"journal"} /\ Goto("caches") /\ UNCHANGED quota
             ELSE FailTo(Label["load"])
    /\ UNCHANGED <<jfeature, log, dirty, flags, journal, work, arg>>

(* The root inode; a bad one is also reported as an error. *)
ReadRoot ==
    /\ pc = "root"
    /\ \/ /\ held' = held \cup {"root"} /\ Goto("setup")
          /\ UNCHANGED <<disk, errno, rdonly, shutdown, aborted, sb, work, quota>>
       \/ /\ FailTo(Label["root"])
          /\ UNCHANGED <<disk, errno, rdonly, shutdown, aborted, sb, work>>
       \/ HandleError(FALSE) /\ FailTo(Label["root"])
    /\ UNCHANGED <<jfeature, log, dirty, cont, frozen, active, txn, arg>>

(* ext4_setup_super on the buffer, for a read-write mount. *)
SetupBuffer(e) == [e EXCEPT !.valid = @ /\ HasLog, !.recover = @ \/ HasLog]

SetupSuper ==
    /\ pc = "setup"
    /\ \/ rdonly /\ Goto("zone") /\ UNCHANGED <<es, disk, adderr, held, quota>>
       \/ /\ ~rdonly
          /\ \E wrote \in BOOLEAN : \E ok \in Results(wrote) :
                /\ CommitSuper(SetupBuffer(es), wrote)
                /\ IF ok THEN Goto("zone") /\ UNCHANGED <<held, quota>> ELSE FailTo(Label["setup"])
    /\ UNCHANGED <<jfeature, log, errno, dirty, flags, journal, mstate, work, arg>>

(* ext4_setup_system_zone, with block_validity. *)
SetupZone ==
    /\ pc = "zone"
    /\ \/ held' = (IF arg.zone THEN held \cup {"zone"} ELSE held) /\ Goto("mb") /\ UNCHANGED quota
       \/ arg.zone /\ FailTo(Label["zone"])
    /\ UNCHANGED <<durable, flags, journal, sb, work, arg>>

(* ext4_enable_quotas, which turns off what it turned on when it fails. *)
EnableQuotas ==
    /\ pc = "quota"
    /\ \/ quota' = (IF rdonly THEN "off" ELSE "on") /\ Goto("recover") /\ UNCHANGED held
       \/ ~rdonly /\ FailTo(Label["quota"])
    /\ UNCHANGED <<durable, flags, journal, sb, work, arg>>

(* Mutant of MarkRecoveryComplete: the result of jbd2_journal_flush is not looked at. *)
MarkAnyway(flushed) ==
    IF ~flushed THEN /\ UNCHANGED <<log, txn>>
                     /\ IF rdonly /\ es.recover
                        THEN \E wrote \in BOOLEAN : CommitSuper([es EXCEPT !.recover = FALSE], wrote)
                        ELSE UNCHANGED <<es, disk, adderr>>
    ELSE /\ ~aborted /\ FlushLog
         /\ IF rdonly /\ es.recover
            THEN \E wrote \in BOOLEAN : CommitOver(Flushed, [es EXCEPT !.recover = FALSE], wrote)
            ELSE disk' = Flushed /\ UNCHANGED <<es, adderr>>

(* ext4_mark_recovery_complete: the journal is flushed, and a read-only volume is marked clean. *)
MarkRecoveryComplete(flushed) ==
    IF ~flushed THEN UNCHANGED <<log, txn, es, disk, adderr>>
    ELSE /\ ~aborted /\ FlushLog
         /\ IF rdonly /\ es.recover
            THEN \E wrote \in BOOLEAN : CommitOver(Flushed, [es EXCEPT !.recover = FALSE], wrote)
            ELSE disk' = Flushed /\ UNCHANGED <<es, adderr>>

(* The end of the mount: orphans are cleaned up in transactions, recovery is complete, and the *)
(* tracker of the inodes exists or not; the VFS makes the volume active.                       *)
CleanOrphans ==
    /\ pc = "recover" /\ arg.needrec /\ ~txn.tx /\ ~aborted /\ ~shutdown
    /\ txn' = [txn EXCEPT !.tx = TRUE]
    /\ UNCHANGED <<durable, flags, aborted, sb, work, quota, held, pc, arg>>

Recover ==
    /\ pc = "recover"
    /\ \E flushed \in BOOLEAN :
          IF arg.needrec THEN /\ MarkRecoveryComplete(flushed)
                              /\ IF flushed THEN Goto("tracker") /\ UNCHANGED <<held, quota>>
                                 ELSE FailTo(Label["recover"])
          ELSE flushed /\ Goto("tracker") /\ UNCHANGED <<log, txn, es, disk, adderr, held, quota>>
    /\ UNCHANGED <<jfeature, errno, dirty, flags, aborted, mstate, work, arg>>

Mounted ==
    /\ pc = "tracker"
    /\ held' \in {held, held \cup {"tracker"}}
    /\ active' = TRUE /\ arg' = NoArg /\ Goto("idle")
    /\ UNCHANGED <<durable, rdonly, shutdown, cont, frozen, journal, sb, work, quota>>

(* failed_mount_wq: the work is flushed before the journal is destroyed. *)
FailJournal ==
    /\ pc = "fail_journal" /\ (HasLog => ~work)
    /\ \/ HasLog /\ ~aborted /\ FlushLog /\ disk' = Flushed
       \/ UNCHANGED <<log, txn, disk>>
    /\ held' = held \ {"journal"} /\ Goto("fail_flush")
    /\ UNCHANGED <<jfeature, errno, dirty, flags, aborted, sb, work, quota, arg>>

(* failed_mount3a and below: "flush s_sb_upd_work before sbi destroy". *)
FailFlush ==
    /\ pc = "fail_flush" /\ ~work
    /\ held' = held \ {"shrinker", "mmpd", "desc", "sbi"}
    /\ Forget
    /\ UNCHANGED <<durable, work, quota>>

-----------------------------------------------------------------------------
(* Remounting: __ext4_remount *)

(* restore_opts *)
RestoreOpts ==
    /\ quota' \in IF rdonly /\ ~arg.old /\ quota = "suspended"
                  THEN {"on"} \cup (IF "resume" \in Faults THEN {"suspended"} ELSE {})
                  ELSE {quota}
    /\ rdonly' = arg.old
    /\ held' = held \ ((IF arg.oldzone THEN {} ELSE {"zone"}) \cup
                       (IF arg.old THEN {"mmpd"} ELSE {}))
    /\ arg' = NoArg /\ Goto("idle")

(* The options are applied; abort reports an error that forces the volume read-only. *)
StartRemount ==
    /\ pc = "idle" /\ ~frozen
    /\ \E ro, zone \in BOOLEAN :
          arg' = [NoArg EXCEPT !.ro = ro, !.zone = zone, !.old = rdonly,
                               !.oldzone = "zone" \in held]
    /\ \/ UNCHANGED <<disk, errno, rdonly, shutdown, aborted, sb, work>>
       \/ ~shutdown /\ HandleError(TRUE)
    /\ Goto("remount")
    /\ UNCHANGED <<jfeature, log, dirty, cont, frozen, active, txn, quota, held>>

(* The mode should change and may not: the volume is shut down, the data could not be written, *)
(* or a check before a read-write remount fails.  "Flush outstanding errors before changing fs  *)
(* state" comes first; options that do not fit together are refused before any of this.        *)
RefuseRemount ==
    /\ pc = "remount" /\ ~work /\ arg.ro # rdonly
    /\ RestoreOpts
    /\ UNCHANGED <<durable, shutdown, cont, frozen, active, journal, sb, work>>

KeepMode ==
    /\ pc = "remount" /\ ~work /\ arg.ro = rdonly
    /\ Goto("remount_zone")
    /\ UNCHANGED <<durable, flags, journal, sb, work, quota, held, arg>>

(* Read-only: the data is written, quota suspended, a state that was valid becomes valid again. *)
RemountRo ==
    /\ pc = "remount" /\ ~work /\ arg.ro /\ ~rdonly /\ ~shutdown
    /\ SyncFs
    /\ quota' = IF quota = "on" THEN "suspended" ELSE quota
    /\ rdonly' = TRUE
    /\ es' = IF ~es.valid /\ mstate.valid THEN [es EXCEPT !.valid = TRUE, !.err = mstate.err] ELSE es
    /\ Goto(IF HasLog THEN "remount_mark" ELSE "remount_zone")
    /\ UNCHANGED <<jfeature, disk, errno, shutdown, cont, frozen, active, aborted, mstate, adderr, work,
                   held, arg>>

(* "We let remount-ro finish even if marking fs as clean failed". *)
RemountMark ==
    /\ pc = "remount_mark"
    /\ \E flushed \in BOOLEAN : MarkRecoveryComplete(flushed)
    /\ Goto("remount_zone")
    /\ UNCHANGED <<jfeature, errno, dirty, flags, aborted, mstate, work, quota, held, arg>>

(* Read-write: the journal's error is noted, the state is read again, ... *)
RemountRw ==
    /\ pc = "remount" /\ ~work /\ ~arg.ro /\ rdonly /\ ~shutdown
    /\ log # NoLog /\ ~HasLog => "noload_rw" \in Faults
    /\ \E wrote, ok \in BOOLEAN :
          /\ ClearJournalErr(HasLog /\ errno, wrote, ok)
          /\ mstate' = IF ok THEN [valid |-> es'.valid, err |-> es'.err]
                        ELSE [mstate EXCEPT !.err = TRUE]
          /\ IF ok THEN Goto("remount_setup") /\ UNCHANGED <<rdonly, quota, held, arg>>
             ELSE RestoreOpts
    /\ UNCHANGED <<jfeature, log, dirty, shutdown, cont, frozen, active, journal, work>>

(* ... the superblock says so, and SB_RDONLY is cleared. *)
RemountSetup ==
    /\ pc = "remount_setup"
    /\ \E wrote \in BOOLEAN : \E ok \in Results(wrote) :
          /\ CommitSuper(SetupBuffer(es), wrote)
          /\ IF ok THEN rdonly' = FALSE /\ Goto("remount_mmp") /\ UNCHANGED <<quota, held, arg>>
             ELSE RestoreOpts
    /\ UNCHANGED <<jfeature, log, errno, dirty, shutdown, cont, frozen, active, journal, mstate, work>>

RemountMmp ==
    /\ pc = "remount_mmp"
    /\ \/ held' = held \cup {"mmpd"} /\ Goto("remount_zone") /\ UNCHANGED <<rdonly, quota, arg>>
       \/ RestoreOpts
    /\ UNCHANGED <<durable, shutdown, cont, frozen, active, journal, sb, work>>

(* The system zone, and the superblock of a volume without journal that was writable. *)
RemountZone ==
    /\ pc = "remount_zone"
    /\ \/ held' = (IF arg.zone THEN held \cup {"zone"} ELSE held)
          /\ Goto(IF ~HasLog /\ ~arg.old THEN "remount_commit" ELSE "remount_quota")
          /\ UNCHANGED <<rdonly, quota, arg>>
       \/ /\ arg.zone /\ "zone" \notin held
          /\ arg.ro /\ ~arg.old => "late_ro" \in Faults
          /\ RestoreOpts
    /\ UNCHANGED <<durable, shutdown, cont, frozen, active, journal, sb, work>>

RemountCommit ==
    /\ pc = "remount_commit"
    /\ \E wrote \in BOOLEAN : \E ok \in Results(wrote) :
          /\ arg.ro /\ ~ok => "late_ro" \in Faults
          /\ CommitSuper(es, wrote)
          /\ IF ok THEN Goto("remount_quota") /\ UNCHANGED <<rdonly, quota, held, arg>>
             ELSE RestoreOpts
    /\ UNCHANGED <<jfeature, log, errno, dirty, shutdown, cont, frozen, active, journal, mstate, work>>

(* Quota is resumed or turned on, the system zone that is not wanted is released, and kmmpd of a *)
(* read-only volume is stopped.                                                                  *)
RemountQuota ==
    /\ pc = "remount_quota"
    /\ \/ /\ quota' \in IF arg.ro \/ ~arg.old THEN {quota}
                        ELSE IF quota = "suspended"
                        THEN {"on"} \cup (IF "resume" \in Faults THEN {"suspended"} ELSE {})
                        ELSE {"on"}
          /\ held' = held \ ((IF arg.zone THEN {} ELSE {"zone"}) \cup
                             (IF rdonly THEN {"mmpd"} ELSE {}))
          /\ arg' = NoArg /\ Goto("idle") /\ UNCHANGED rdonly
       \/ ~arg.ro /\ arg.old /\ quota = "off" /\ RestoreOpts
    /\ UNCHANGED <<durable, shutdown, cont, frozen, active, journal, sb, work>>

-----------------------------------------------------------------------------
(* Freezing and shutting down *)

(* freeze_super: a read-only volume has nothing to do, another one is synced and frozen. *)
StartFreeze ==
    /\ pc = "idle" /\ ~frozen
    /\ IF rdonly THEN frozen' = TRUE /\ UNCHANGED <<dirty, log, txn, pc>>
       ELSE SyncFs /\ Goto("freeze") /\ UNCHANGED frozen
    /\ UNCHANGED <<jfeature, disk, errno, rdonly, shutdown, cont, active, aborted, sb, work, quota, held,
                   arg>>

(* ext4_freeze: "Don't clear the needs_recovery flag if we failed to flush the journal". *)
Freeze ==
    /\ pc = "freeze" /\ Goto("idle")
    /\ \/ /\ HasLog /\ UNCHANGED <<log, txn, disk, es, adderr, frozen>>
       \/ /\ HasLog => ~aborted
          /\ IF HasLog THEN FlushLog ELSE UNCHANGED <<log, txn>>
          /\ \E wrote \in BOOLEAN : \E ok \in Results(wrote) :
                /\ ~ok => "sbwrite" \in Faults
                /\ CommitOver(IF HasLog THEN Flushed ELSE disk,
                              [es EXCEPT !.recover = @ /\ ~HasLog], wrote)
                /\ frozen' = ok
    /\ UNCHANGED <<jfeature, errno, dirty, rdonly, shutdown, cont, active, aborted, mstate, work, quota,
                   held, arg>>

(* Mutant of Thaw: needs_recovery stays clear. *)
ThawBare ==
    /\ pc = "idle" /\ frozen /\ frozen' = FALSE
    /\ UNCHANGED <<durable, rdonly, shutdown, cont, active, journal, sb, work, quota, held, pc, arg>>

(* thaw_super and ext4_unfreeze: "Reset the needs_recovery flag before the fs is unlocked". *)
Thaw ==
    /\ pc = "idle" /\ frozen /\ frozen' = FALSE
    /\ IF rdonly \/ shutdown THEN UNCHANGED <<disk, es, adderr>>
       ELSE \E wrote \in BOOLEAN : /\ ~wrote => "sbwrite" \in Faults
                                   /\ CommitSuper([es EXCEPT !.recover = @ \/ HasLog], wrote)
    /\ UNCHANGED <<jfeature, log, errno, dirty, rdonly, shutdown, cont, active, journal, mstate, work,
                   quota, held, pc, arg>>

(* ext4_force_shutdown.  DEFAULT freezes and thaws the volume around setting the flag; LOGFLUSH *)
(* commits before it aborts the journal; NOLOGFLUSH does not.                                    *)
ShutdownDefault ==
    /\ pc = "idle" /\ ~frozen /\ ~shutdown
    /\ HasLog => ~aborted
    /\ shutdown' = TRUE
    /\ IF rdonly THEN UNCHANGED <<disk, log, dirty, txn, es, adderr>>
       ELSE /\ dirty' = (IF dirty = "yes" THEN "no" ELSE dirty)
            /\ IF HasLog THEN FlushLog ELSE UNCHANGED <<log, txn>>
            /\ CommitSuper([es EXCEPT !.recover = @ /\ ~HasLog], TRUE)
    /\ UNCHANGED <<jfeature, errno, rdonly, cont, frozen, active, aborted, mstate, work, quota, held, pc,
                   arg>>

ShutdownAbort ==
    /\ active /\ ~shutdown
    /\ shutdown' = TRUE
    /\ \/ HasLog /\ ~aborted /\ log' = Committed /\ txn' = NoTxn
       \/ UNCHANGED <<log, txn>>
    /\ JournalAbort(FALSE)
    /\ UNCHANGED <<jfeature, disk, dirty, rdonly, cont, frozen, active, sb, work, quota, held, pc, arg>>

-----------------------------------------------------------------------------
(* Unmounting: ext4_put_super *)

(* generic_shutdown_super: the dentries go, the data is written, SB_ACTIVE is cleared. *)
StartUmount ==
    /\ pc = "idle" /\ ~frozen
    /\ SyncFs /\ active' = FALSE /\ held' = held \ {"root"} /\ Goto("put_sysfs")
    /\ UNCHANGED <<jfeature, disk, errno, rdonly, shutdown, cont, frozen, aborted, sb, work, quota, arg>>

(* "Unregister sysfs before flush sbi->s_sb_upd_work". *)
PutSysfs ==
    /\ pc = "put_sysfs" /\ Goto("put_flush")
    /\ held' = held \ {"sysfs", "li"} /\ quota' = "off"
    /\ UNCHANGED <<durable, flags, journal, sb, work, arg>>

(* Mutant of PutFlush: the work is not waited for. *)
PutNoFlush ==
    /\ pc = "put_flush" /\ Goto("put_journal")
    /\ held' = held \ {"wq", "orphan"}
    /\ UNCHANGED <<durable, flags, journal, sb, work, quota, arg>>

(* flush_work(&sbi->s_sb_upd_work) *)
PutFlush ==
    /\ pc = "put_flush" /\ ~work /\ Goto("put_journal")
    /\ held' = held \ {"wq", "orphan"}
    /\ UNCHANGED <<durable, flags, journal, sb, work, quota, arg>>

(* jbd2_journal_destroy; a journal that could not be cleaned up is reported, unless it was      *)
(* aborted before.                                                                              *)
PutJournal ==
    /\ pc = "put_journal"
    /\ arg' = [arg EXCEPT !.ok = ~aborted]
    /\ held' = held \ {"journal"}
    /\ \/ HasLog /\ ~aborted /\ FlushLog /\ disk' = Flushed /\ Goto("put_super") /\ UNCHANGED errno
       \/ /\ HasLog /\ ~aborted /\ Goto("put_abort") /\ errno' \in {errno, TRUE}
          /\ txn' = NoTxn /\ UNCHANGED <<log, disk>>
       \/ (HasLog => aborted) /\ Goto("put_super") /\ UNCHANGED <<log, txn, disk, errno>>
    /\ UNCHANGED <<jfeature, dirty, flags, aborted, sb, work, quota>>

PutAbort ==
    /\ pc = "put_abort" /\ Goto("put_super")
    /\ IF shutdown THEN UNCHANGED <<disk, errno, rdonly, shutdown, aborted, sb, work>>
       ELSE HandleError(TRUE)
    /\ UNCHANGED <<jfeature, log, dirty, cont, frozen, active, txn, quota, held, arg>>

(* A writable volume whose journal was sound is clean; the rest is released. *)
PutSuper ==
    /\ pc = "put_super"
    /\ disk' \in IF rdonly THEN {disk}
                 ELSE {disk, Updated(IF arg.ok THEN [valid |-> mstate.valid, err |-> mstate.err,
                                                      recover |-> FALSE]
                                     ELSE es)}
    /\ held' = held \ {"shrinker", "zone", "mb", "desc", "percpu", "caches", "tracker", "mmpd", "sbi"}
    /\ Forget
    /\ UNCHANGED <<jfeature, log, errno, dirty, work, quota>>

-----------------------------------------------------------------------------
(* What goes on beside the calls *)

(* mnt_want_write: a remount that changes the mode keeps writers out, as a frozen volume does. *)
Writable ==
    /\ active /\ ~rdonly /\ ~shutdown /\ ~frozen
    /\ pc = "idle" \/ (pc # "freeze" /\ ~arg.ro /\ ~arg.old)

(* A change of the volume, in a transaction or, without journal, in a buffer. *)
Modify ==
    /\ Writable
    /\ IF HasLog THEN ~aborted /\ txn' = [txn EXCEPT !.tx = TRUE] /\ UNCHANGED dirty
       ELSE dirty' = (IF dirty = "no" THEN "yes" ELSE dirty) /\ UNCHANGED txn
    /\ UNCHANGED <<jfeature, disk, log, errno, flags, aborted, sb, work, quota, held, pc, arg>>

(* ext4_ioctl_setlabel and ext4_ioctl_setuuid: the superblock with its new name goes through   *)
(* the journal, or to the disk at once; a write that fails is an error of the volume.  The      *)
(* backups hold none of the fields kept here.                                                   *)
UpdateSuperblocks ==
    /\ Writable
    /\ \/ HasLog /\ ~aborted /\ txn' = [txn EXCEPT !.sb = TRUE]
          /\ UNCHANGED <<disk, errno, rdonly, shutdown, aborted, sb, work>>
       \/ ~HasLog /\ disk' = es /\ UNCHANGED <<errno, rdonly, shutdown, aborted, sb, work, txn>>
       \/ ~HasLog /\ HandleError(FALSE) /\ UNCHANGED txn
    /\ UNCHANGED <<jfeature, log, dirty, cont, frozen, active, quota, held, pc, arg>>

(* ext4_ioctl_checkpoint, on whatever volume has a journal. *)
IoctlCheckpoint ==
    /\ active /\ HasLog /\ ~aborted
    /\ FlushLog /\ disk' = Flushed
    /\ UNCHANGED <<jfeature, errno, dirty, flags, aborted, sb, work, quota, held, pc, arg>>

(* The journal commits; its callback, ext4_maybe_update_superblock, may queue the work. *)
Commit ==
    /\ HasLog /\ ~aborted /\ txn # NoTxn
    /\ log' = Committed /\ txn' = NoTxn
    /\ work' \in {work} \cup (IF ~rdonly /\ active THEN {TRUE} ELSE {})
    /\ UNCHANGED <<jfeature, disk, errno, dirty, flags, aborted, sb, quota, held, pc, arg>>

(* The journal checkpoints. *)
Checkpoint ==
    /\ HasLog /\ ~aborted /\ log # NoLog /\ ~txn.sb
    /\ log' = NoLog /\ disk' = Flushed
    /\ UNCHANGED <<jfeature, errno, dirty, flags, journal, sb, work, quota, held, pc, arg>>

(* The journal fails and aborts itself. *)
JournalFails ==
    /\ HasLog /\ ~aborted
    /\ JournalAbort(TRUE)
    /\ UNCHANGED <<jfeature, disk, log, dirty, flags, txn, sb, work, quota, held, pc, arg>>

(* __ext4_error, from a reader of the volume or of its files in /proc and /sys. *)
Error ==
    /\ "sysfs" \in held /\ ~shutdown
    /\ \E force \in BOOLEAN : HandleError(force)
    /\ UNCHANGED <<jfeature, log, dirty, cont, frozen, active, txn, quota, held, pc, arg>>

(* update_super_work: through the journal, or directly when the journal does not take it. *)
UpdateSuperWork ==
    /\ work /\ work' = FALSE
    /\ IF ~rdonly /\ HasLog /\ ~aborted
       THEN /\ frozen => "frozen" \in Faults
            /\ es' = Updated(es) /\ adderr' = FALSE /\ txn' = [txn EXCEPT !.sb = TRUE]
            /\ UNCHANGED disk
       ELSE /\ \E wrote \in BOOLEAN : CommitSuper(es, wrote)
            /\ UNCHANGED txn
    /\ UNCHANGED <<jfeature, log, errno, dirty, flags, aborted, mstate, quota, held, pc, arg>>

(* A crash: what was in memory is gone. *)
InReplay == pc \in {"replay", "restore"} /\ mstate.err

Crash ==
    /\ pc # "none"
    /\ InReplay /\ ~OnDisk => "replay" \in Faults
    /\ dirty' = (IF dirty = "yes" THEN "torn" ELSE dirty)
    /\ held' = {} /\ quota' = "off" /\ work' = FALSE
    /\ Forget
    /\ UNCHANGED <<jfeature, disk, log, errno>>

(* Nobody has to call. *)
Rest == pc \in {"none", "idle"} /\ UNCHANGED vars

MountStep ==
    \/ StartMount \/ Acquire \/ StartMmp \/ LoadJournal \/ Replayed \/ RestoreError \/ TakeJournal
    \/ ReadRoot \/ SetupSuper \/ SetupZone \/ EnableQuotas \/ CleanOrphans \/ Recover \/ Mounted
    \/ FailJournal \/ FailFlush
RemountStep ==
    \/ StartRemount \/ RefuseRemount \/ KeepMode \/ RemountRo \/ RemountMark \/ RemountRw
    \/ RemountSetup \/ RemountMmp \/ RemountZone \/ RemountCommit \/ RemountQuota
UmountStep == StartUmount \/ PutSysfs \/ PutFlush \/ PutJournal \/ PutAbort \/ PutSuper
FreezeStep == StartFreeze \/ Freeze \/ Thaw \/ ShutdownDefault \/ ShutdownAbort
Beside ==
    \/ Modify \/ UpdateSuperblocks \/ IoctlCheckpoint \/ Commit \/ Checkpoint \/ JournalFails
    \/ Error \/ UpdateSuperWork \/ Crash

Next == MountStep \/ RemountStep \/ UmountStep \/ FreezeStep \/ Beside \/ Rest

Spec == Init /\ [][Next]_vars

-----------------------------------------------------------------------------
(* The disk never calls clean what is not: while the log holds changes, the superblock asks for *)
(* recovery (a mount would wipe the log otherwise), and while changes made without a journal    *)
(* are not all on the disk, the volume is not marked valid; at every point of every call, and   *)
(* whenever the machine stops.                                                                  *)
CleanMeansClean ==
    /\ log.tx => disk.recover
    /\ dirty # "no" => ~disk.valid

(* An error that is on record (in the superblock, in the journal's superblock or in the log)   *)
(* stays on record through replays, remounts, unmounts and crashes; only e2fsck removes it.     *)
(* While the log is replayed over the superblock, the mount keeps the error in memory.          *)
OnRecord == OnDisk \/ InReplay
ErrorKept == [][OnRecord => OnRecord']_vars

(* Nothing outlives the mount: a mount that failed, at whatever stage, and an unmount have       *)
(* released everything, the work that uses sbi and the journal is neither queued nor running     *)
(* once they go, and what a reader reaches through /proc and /sys is there while they are.       *)
NothingOutlives ==
    /\ pc = "none" => held = {} /\ quota = "off"
    /\ work => "sbi" \in held /\ pc \notin {"put_journal", "put_abort", "put_super"}
    /\ "sysfs" \in held => {"sbi", "desc", "caches", "wq", "mb", "percpu", "li"} \subseteq held

(* A volume that takes writes has its quota on and kmmpd running, and the disk says that it is *)
(* in use.                                                                                     *)
WritableIsGuarded ==
    pc = "idle" /\ ~rdonly /\ ~shutdown =>
       /\ quota = "on" /\ "mmpd" \in held
       /\ ~frozen => IF HasLog THEN disk.recover ELSE ~disk.valid

=============================================================================
