------------------------------ MODULE Fetcher ------------------------------
(***************************************************************************)
(* update-prev-reboot-info, the reboot reason fetcher: invocations that    *)
(* run after a boot, one behind the other under flock, and hand the record *)
(* of the last reboot over, or derive a reason when there is none.  Each   *)
(* step is one change of a file that outlives the process, so that the     *)
(* process or the power can go between any two.                            *)
(***************************************************************************)
EXTENDS Naturals

CONSTANTS
    Instances,  \* invocations of the fetcher that may overlap
    Causes,     \* causes that rebootnow records
    MaxBoots    \* bound: boots after the first one

None  == "none"    \* the file does not exist
Torn  == "torn"    \* truncated by fopen "w" and not yet written
Blank == "blank"   \* a record whose fields are all empty
Hard  == "hard"    \* a derived HARD_POWER, POWER_ON or UNKNOWN_RESET
Soft  == "soft"    \* any other derived reason
Stale == "stale"   \* history: a power cut while an older record was waiting

Derived == {Hard, Soft}

FileSystems == {"tmp", "opt"}  \* of the lock and the sentinel; of the records

ASSUME NamesAssumption ==
    /\ Causes \cap ({None, Torn, Blank, Stale} \cup Derived) = {}
    /\ None \notin Instances

ASSUME BootsAssumption == MaxBoots \in Nat

VARIABLES
    rebootInfo,    \* reboot.info
    previousInfo,  \* previousreboot.info
    parodusInfo,   \* parodusreboot.info
    previousParodus,  \* previousparodusreboot.info
    hardPower,     \* hardpower.info was stamped in this boot
    stt,           \* /tmp/stt_received
    sentinel,      \* /tmp/Update_rebootInfo_invoked
    lock,          \* the holder of the flock
    pc,            \* where each invocation is
    info           \* its local rebootInfo; None once the record was renamed

(***************************************************************************)
(* History variables: no guard of the code depends on them.                *)
(***************************************************************************)
VARIABLES
    cause,     \* what really caused this boot
    started,   \* updates begun in this boot, up to 2
    finished,  \* whether one of them has run to its end
    faults,    \* where file operations failed in this boot, see FileSystems
    killed,    \* an invocation was cut short, and no reboot since
    boots

records == <<rebootInfo, previousInfo, parodusInfo, previousParodus, hardPower>>
flags   == <<stt, sentinel, lock>>
local   == <<pc, info>>
history == <<cause, started, finished, faults, killed, boots>>
vars    == <<records, flags, local, history>>

Contents == Causes \cup {None, Torn, Blank} \cup Derived
Updating == {"rename", "derive", "log", "open", "write", "parodus", "copy",
             "unlink", "hardpower", "keypress"}
Holding  == {"props", "release"} \cup Updating
States   == {"off", "lock", "sentinel"} \cup Holding

\* The type invariant.  Who works past flock holds the lock.
RecordTypes ==
    /\ rebootInfo \in Causes \cup {None} /\ previousInfo \in Contents
    /\ parodusInfo \in Causes \cup {None} /\ previousParodus \in Contents

ProcessTypes ==
    /\ lock \in Instances \cup {None}
    /\ pc \in [Instances -> States]
    /\ info \in [Instances -> {None, Blank} \cup Derived]
    /\ \A i \in Instances : pc[i] \in Holding <=> lock = i

HistoryTypes ==
    /\ cause \in Causes \cup Derived \cup {Stale}
    /\ started \in 0..2 /\ boots \in 0..MaxBoots
    /\ faults \subseteq FileSystems

TypeOK ==
    /\ RecordTypes /\ ProcessTypes /\ HistoryTypes
    /\ {hardPower, stt, sentinel, finished, killed} \subseteq BOOLEAN

\* The first boot of the device, after the power came on.
Init ==
    /\ rebootInfo = None /\ previousInfo = None /\ parodusInfo = None
    /\ previousParodus = None /\ hardPower = FALSE
    /\ stt = FALSE /\ sentinel = FALSE /\ lock = None
    /\ pc = [i \in Instances |-> "off"] /\ info = [i \in Instances |-> None]
    /\ cause = Hard /\ started = 0 /\ finished = FALSE
    /\ faults = {} /\ killed = FALSE /\ boots = 0

-----------------------------------------------------------------------------
Goto(i, from, to) == pc[i] = from /\ pc' = [pc EXCEPT ![i] = to]

Fault(where) ==
    /\ faults' = faults \cup {where}
    /\ UNCHANGED <<cause, started, finished, killed, boots>>

\* The path unit, or anything else, starts the binary.
Invoke(i) ==
    /\ Goto(i, "off", "lock")
    /\ info' = [info EXCEPT ![i] = None]
    /\ UNCHANGED <<records, flags, history>>

\* flock(LOCK_EX) waits until the lock is free.
AcquireLock(i) ==
    /\ lock = None /\ lock' = i
    /\ Goto(i, "lock", "props")
    /\ UNCHANGED <<records, stt, sentinel, info, history>>

\* The lock file cannot be opened: main returns without the sentinel.
LockFails(i) ==
    /\ Goto(i, "lock", "off")
    /\ Fault("tmp")
    /\ UNCHANGED <<records, flags, info>>

\* update_reboot_info: no STT flag, nothing to do.
SkipUpdate(i) ==
    /\ ~stt
    /\ Goto(i, "props", "release")
    /\ UNCHANGED <<records, flags, info, history>>

\* device.properties or the directory is not usable.
PropertiesFail(i) ==
    /\ Goto(i, "props", "release")
    /\ Fault("opt")
    /\ UNCHANGED <<records, flags, info>>

BeginUpdate(i) ==
    /\ stt
    /\ Goto(i, "props", "rename")
    /\ started' = IF started < 2 THEN started + 1 ELSE 2
    /\ UNCHANGED <<records, flags, info, cause, finished, faults, killed, boots>>

-----------------------------------------------------------------------------
\* Mutant: the record is removed before its copy is written.
RemoveThenCopy(i) ==
    /\ rebootInfo # None
    /\ Goto(i, "rename", "parodus")
    /\ previousInfo' = Torn /\ rebootInfo' = None
    /\ UNCHANGED <<parodusInfo, previousParodus, hardPower, flags, info, history>>

\* rename(reboot.info, previousreboot.info).
RenameRecord(i) ==
    /\ rebootInfo # None
    /\ Goto(i, "rename", "parodus")
    /\ previousInfo' = rebootInfo /\ rebootInfo' = None
    /\ UNCHANGED <<parodusInfo, previousParodus, hardPower, flags, info, history>>

\* ENOENT.
NoRecord(i) ==
    /\ rebootInfo = None
    /\ Goto(i, "rename", "derive")
    /\ UNCHANGED <<records, flags, info, history>>

\* Any other error is logged; the empty RebootInfo is persisted later on.
RenameFails(i) ==
    /\ Goto(i, "rename", "log")
    /\ info' = [info EXCEPT ![i] = Blank]
    /\ Fault("opt")
    /\ UNCHANGED <<records, flags>>

\* wait_for_backup_logs_done, the legacy sources and the classification.
Derive(i) ==
    /\ Goto(i, "derive", "log")
    /\ \E r \in Derived :
         /\ info' = [info EXCEPT ![i] = r]
         /\ cause' = IF cause \in Derived /\ started = 1 THEN r ELSE cause
    /\ UNCHANGED <<records, flags, started, finished, faults, killed, boots>>

\* Mutant: release_lock comes before the record is persisted.
ReleaseEarly(i) ==
    /\ Goto(i, "log", IF info[i] = None THEN "keypress" ELSE "open")
    /\ lock' = None
    /\ UNCHANGED <<records, stt, sentinel, info, history>>

\* update_kernel_log and update_previous_reboot_log_fields rewrite logs only.
UpdateLogFields(i) ==
    /\ Goto(i, "log", IF info[i] = None THEN "keypress" ELSE "open")
    /\ UNCHANGED <<records, flags, info, history>>

\* write_reboot_info: fopen "w", or its failure, which ends the update.
OpenPrevious(i) ==
    /\ \/ Goto(i, "open", "write") /\ previousInfo' = Torn /\ UNCHANGED history
       \/ Goto(i, "open", "release") /\ UNCHANGED previousInfo /\ Fault("opt")
    /\ UNCHANGED <<rebootInfo, parodusInfo, previousParodus, hardPower, flags, info>>

WritePrevious(i) ==
    /\ Goto(i, "write", "parodus")
    /\ previousInfo' = info[i]
    /\ UNCHANGED <<rebootInfo, parodusInfo, previousParodus, hardPower, flags,
                   info, history>>

-----------------------------------------------------------------------------
(***************************************************************************)
(* handle_parodus_reboot_file.                                             *)
(***************************************************************************)
AfterParodus(i) == IF info[i] = None THEN "log" ELSE "hardpower"

\* Mutant: the parodus record is removed although its copy could not be opened.
UnlinkAnyway(i) ==
    /\ Goto(i, "parodus", AfterParodus(i))
    /\ \/ parodusInfo = None /\ info[i] \in {None, Blank} /\ UNCHANGED <<parodusInfo, history>>
       \/ parodusInfo' = None /\ Fault("opt")
    /\ UNCHANGED <<rebootInfo, previousInfo, previousParodus, hardPower, flags, info>>

\* Neither a record nor a reason to hand over, or a file does not open.
NoParodus(i) ==
    /\ Goto(i, "parodus", AfterParodus(i))
    /\ \/ parodusInfo = None /\ info[i] \in {None, Blank} /\ UNCHANGED history
       \/ Fault("opt")
    /\ UNCHANGED <<records, flags, info>>

OpenParodus(i) ==
    /\ parodusInfo # None \/ info[i] \in Derived
    /\ Goto(i, "parodus", "copy")
    /\ previousParodus' = Torn
    /\ UNCHANGED <<rebootInfo, previousInfo, parodusInfo, hardPower, flags, info, history>>

CopyParodus(i) ==
    /\ \/ parodusInfo # None /\ Goto(i, "copy", "unlink") /\ previousParodus' = parodusInfo
       \/ parodusInfo = None /\ Goto(i, "copy", AfterParodus(i)) /\ previousParodus' = info[i]
    /\ UNCHANGED <<rebootInfo, previousInfo, parodusInfo, hardPower, flags, info, history>>

\* Mutant: the parodus record is copied and left in place.
KeepParodus(i) ==
    /\ Goto(i, "unlink", AfterParodus(i))
    /\ UNCHANGED <<records, flags, info, history>>

UnlinkParodus(i) ==
    /\ Goto(i, "unlink", AfterParodus(i))
    /\ parodusInfo' = None
    /\ UNCHANGED <<rebootInfo, previousInfo, previousParodus, hardPower, flags,
                   info, history>>

\* write_hardpower, for the reasons that stand for a power reset.
StampHardPower(i) ==
    /\ Goto(i, "hardpower", "keypress")
    /\ \/ hardPower' = (hardPower \/ info[i] = Hard) /\ UNCHANGED history
       \/ info[i] = Hard /\ UNCHANGED hardPower /\ Fault("opt")
    /\ UNCHANGED <<rebootInfo, previousInfo, parodusInfo, previousParodus, flags, info>>

\* copy_keypress_info; no record here depends on it.
CopyKeypress(i) ==
    /\ Goto(i, "keypress", "release")
    /\ finished' = TRUE
    /\ UNCHANGED <<records, flags, info, cause, started, faults, killed, boots>>

-----------------------------------------------------------------------------
\* Mutant: the descriptor is dropped and the flock stays.
ReleaseNothing(i) ==
    /\ Goto(i, "release", "sentinel")
    /\ UNCHANGED <<records, flags, info, history>>

ReleaseLock(i) ==
    /\ Goto(i, "release", "sentinel")
    /\ lock' = None
    /\ UNCHANGED <<records, stt, sentinel, info, history>>

\* Mutant: an invocation that updated nothing leaves no sentinel.
SentinelAfterUpdate(i) ==
    /\ Goto(i, "sentinel", "off")
    /\ sentinel' = finished
    /\ UNCHANGED <<records, stt, lock, info, history>>

WriteSentinel(i) ==
    /\ Goto(i, "sentinel", "off")
    /\ \/ sentinel' = TRUE /\ UNCHANGED history
       \/ UNCHANGED sentinel /\ Fault("tmp")
    /\ UNCHANGED <<records, stt, lock, info>>

\* The process is killed; the kernel drops its flock.
Kill(i) ==
    /\ pc[i] # "off"
    /\ pc' = [pc EXCEPT ![i] = "off"]
    /\ lock' = IF lock = i THEN None ELSE lock
    /\ killed' = TRUE
    /\ UNCHANGED <<records, stt, sentinel, info, cause, started, finished, faults, boots>>

-----------------------------------------------------------------------------
\* The time service has the time.
SttReceived ==
    /\ ~stt /\ stt' = TRUE
    /\ UNCHANGED <<records, sentinel, lock, local, history>>

\* /tmp and every process are gone.
NextBoot ==
    /\ boots < MaxBoots /\ boots' = boots + 1
    /\ stt' = FALSE /\ sentinel' = FALSE /\ lock' = None /\ hardPower' = FALSE
    /\ pc' = [i \in Instances |-> "off"] /\ info' = [i \in Instances |-> None]
    /\ started' = 0 /\ finished' = FALSE /\ faults' = {}

\* rebootnow has written its records and the device is down and up again.
Reboot(c) ==
    /\ NextBoot
    /\ rebootInfo' = c /\ previousInfo' = c /\ parodusInfo' = c
    /\ cause' = c /\ killed' = FALSE
    /\ UNCHANGED previousParodus

PowerCut ==
    /\ NextBoot
    /\ cause' = IF rebootInfo = None /\ parodusInfo = None THEN Hard ELSE Stale
    /\ killed' = (killed \/ \E i \in Instances : pc[i] # "off")
    /\ UNCHANGED <<rebootInfo, previousInfo, parodusInfo, previousParodus>>

Parodus(i) ==
    NoParodus(i) \/ OpenParodus(i) \/ CopyParodus(i) \/ UnlinkParodus(i)

Update(i) ==
    \/ RenameRecord(i) \/ NoRecord(i) \/ RenameFails(i) \/ Derive(i)
    \/ UpdateLogFields(i) \/ OpenPrevious(i) \/ WritePrevious(i) \/ Parodus(i)
    \/ StampHardPower(i) \/ CopyKeypress(i)

\* What an invocation does by itself once it has the lock.
Work(i) ==
    \/ SkipUpdate(i) \/ PropertiesFail(i) \/ BeginUpdate(i) \/ Update(i)
    \/ ReleaseLock(i) \/ WriteSentinel(i)

Next ==
    \/ \E i \in Instances : Invoke(i) \/ AcquireLock(i) \/ LockFails(i) \/ Work(i) \/ Kill(i)
    \/ SttReceived
    \/ \E c \in Causes : Reboot(c)
    \/ PowerCut

Spec == Init /\ [][Next]_vars

\* A process that can run does; flock serves its waiters in turn.
Fairness ==
    \A i \in Instances : WF_vars(Work(i)) /\ SF_vars(AcquireLock(i))

FairSpec == Spec /\ Fairness

-----------------------------------------------------------------------------
\* No invocation is inside and no other update has begun in this boot.
OneUpdate == started = 1 /\ lock = None /\ faults = {} /\ ~killed

\* The first update of a boot tells what caused the boot, in all three records:
\* previousreboot.info, the parodus record and the hard power stamp.  Only a
\* record that an earlier boot left behind can mislead it.
CauseTold ==
    OneUpdate /\ finished /\ cause # Stale =>
        /\ previousInfo = cause
        /\ previousParodus = cause
        /\ hardPower <=> cause = Hard
        /\ rebootInfo = None /\ parodusInfo = None

\* Until a second update of the same boot begins, the cause that rebootnow
\* recorded is not lost, wherever the first one is killed or fails: it is in
\* reboot.info or previousreboot.info, and in one of the two parodus records.
CauseNeverLost ==
    started <= 1 /\ cause \in Causes =>
        /\ cause \in {rebootInfo, previousInfo}
        /\ cause \in {parodusInfo, previousParodus}

\* HLD.md, "Only one instance can run at a time": unless one was killed there,
\* a half-written record is seen only while the holder of the lock writes it.
TornOnlyUnderLock ==
    previousInfo = Torn /\ ~killed =>
        \E i \in Instances : lock = i /\ pc[i] = "write"

\* LLD.md, "Atomic JSON writes prevent partial file states": when no invocation
\* is writing it, previousreboot.info is complete.
NoPartialRecord ==
    previousInfo = Torn => \E i \in Instances : pc[i] = "write"

\* "Write invocation sentinel so uploadstblogs can proceed": after every start
\* of the fetcher the sentinel appears, also if there was nothing to update and
\* if the update failed, unless the process is killed or /tmp is not writable.
UploadProceeds ==
    \A i \in Instances : pc[i] # "off" ~> sentinel \/ killed \/ "tmp" \in faults

-----------------------------------------------------------------------------
(***************************************************************************)
(* The two records are handed over as Handover says: reboot.info through   *)
(* rename, the parodus record through a copy that is unlinked afterwards.  *)
(***************************************************************************)
Someone(at) == \E i \in Instances : pc[i] = at

ByRename == INSTANCE Handover
              WITH pending <- rebootInfo, told <- previousInfo, writing <- Someone("write"),
                   Substitutes <- Derived \cup {Blank}

ByCopy   == INSTANCE Handover
              WITH pending <- parodusInfo, told <- previousParodus, writing <- Someone("copy"),
                   Substitutes <- Derived

\* The steps of any number of overlapping, failing and killed invocations are
\* those of one handover: reboot.info disappears only in the step in which
\* previousreboot.info becomes it, and no rename falls into a write.
RecordHandover == ByRename!Spec

\* The same of the parodus record, which is copied and unlinked in two steps: it
\* is unlinked only while its copy is complete.
ParodusHandover == ByCopy!Spec
=============================================================================
