------------------------------ MODULE RebootLog ------------------------------
(***************************************************************************)
(* /opt/logs/rebootInfo.log over the boots of a device.  rebootnow         *)
(* truncates it and appends five lines about its request; backup_logs      *)
(* moves it to PreviousLogs at the next boot; the fetcher reads it there   *)
(* and writes the Previous* lines of the new log.  Nobody locks it, and    *)
(* nothing orders the fetcher after backup_logs when there is a record.    *)
(* rebootNow.sh, around the binary, appends the same lines by itself when  *)
(* the binary fails or is refused.                                         *)
(*                                                                         *)
(* A value is the request it comes from; 0 is the empty text.              *)
(***************************************************************************)
EXTENDS Naturals, Sequences, FiniteSets, FiniteSetsExt

CONSTANTS
    MaxRequests, \* bound: requests in a behaviour
    HalRequests, \* those made in the name of HAL_SYS_Reboot
    MaxBoots,    \* bound: boots
    MaxMishaps   \* bound: races, failing calls, kills and power cuts

Requests == 1 .. MaxRequests
Values   == 0 .. MaxRequests

ASSUME HalAssumption == HalRequests \subseteq Requests

ASSUME BoundsAssumption ==
    MaxRequests \in Nat /\ MaxBoots \in Nat \ {0} /\ MaxMishaps \in Nat

\* The lines in the order both programs write them.
Order  == <<"RebootReason", "RebootInitiatedBy", "RebootTime", "CustomReason", "OtherReason">>
Fields == {Order[i] : i \in 1 .. Len(Order)}
Record == Fields \ {"RebootReason"}   \* those that are also in the JSON record

Line == [prev : BOOLEAN, field : Fields, of : Values]
Raw(f, r)      == [prev |-> FALSE, field |-> f, of |-> r]
Previous(f, r) == [prev |-> TRUE, field |-> f, of |-> r]

\* rebootInfo.log below PreviousLogs: in the directory with the last_reboot
\* marker, in PreviousLogs itself, and as bak1_rebootInfo.log to bak3_.
Slots == {"marked", "flat", "bak1", "bak2", "bak3"}
Baks  == <<"bak1", "bak2", "bak3">>

VARIABLES
    hdd,     \* backup_logs keeps one directory per boot
    files,   \* contents of the logs that exist: "log" and slots
    marker,  \* a directory holds last_reboot
    info,    \* reboot.info: the request it records, 0 if it does not exist
    backed,  \* backup_logs has run in this boot
    fpc,     \* where the fetcher is
    record,  \* previousreboot.info, what the fetcher renamed
    got,     \* infoToUse and previousReason
    out,     \* the log that the fetcher's stream writes to
    step,    \* steps that each request has made
    script   \* requests that rebootNow.sh carries out itself

(***************************************************************************)
(* History variables: no guard of the code depends on them.                *)
(***************************************************************************)
VARIABLES
    made,     \* requests so far
    boots,
    mishaps,
    cause,    \* the request that ended the last boot, 0 for a power cut
    unread,   \* the fetcher of this boot could not open the record
    windows,  \* what has happened in this boot that can mix up the next one
    carried,  \* the same, of the boot before
    seen,     \* requests that some fetcher has named as initiator
    again     \* the one named in this boot was named before

fetcher == <<fpc, record, got, out, unread>>
runs    == <<step, script, made>>
past    == <<carried, seen, again>>
vars    == <<hdd, files, marker, info, backed, fetcher, runs, boots, mishaps, cause,
             windows, past>>

Truncating == 0
Recording  == Len(Order) + 1   \* the next step writes reboot.info
Deciding   == Len(Order) + 2   \* the next step reboots, or not
Over       == Len(Order) + 3

\* raced: a request before backup_logs and the fetcher are through; early: the
\* fetcher before backup_logs; fast: more backups than find_previous_reboot_log
\* tells apart; badLog: a line, or the truncation, is missing; infoLost: so is
\* the record; concurrent: script and binary at once; pending: a record whose
\* request did not reboot; halfway: a request cut off between log and record;
\* unfetched: a boot that ended before the fetcher or backup_logs did.
Windows == {"raced", "early", "fast", "badLog", "infoLost", "concurrent", "pending",
            "halfway", "unfetched"}

FlagTypes ==
    /\ hdd \in BOOLEAN /\ marker \in BOOLEAN /\ backed \in BOOLEAN
    /\ unread \in BOOLEAN /\ again \in BOOLEAN

FileTypes ==
    /\ DOMAIN files \subseteq Slots \cup {"log"}
    /\ \A f \in DOMAIN files : files[f] \in Seq(Line)
    /\ info \in Values

FetchTypes ==
    /\ fpc \in {"start", "load", "reason", "open", "write", "done", "failed"}
    /\ record \in Values /\ got \in [Fields -> Values]
    /\ fpc = "write" => out \in DOMAIN files

RequestTypes ==
    /\ step \in [Requests -> Truncating .. Over] /\ script \subseteq Requests
    /\ made \in Values

HistoryTypes ==
    /\ boots \in 1 .. MaxBoots /\ mishaps \in 0 .. MaxMishaps /\ cause \in Values
    /\ windows \subseteq Windows /\ carried \subseteq Windows /\ seen \subseteq Requests

\* The type invariant; the fetcher's stream writes to a file that exists.
TypeOK == FlagTypes /\ FileTypes /\ FetchTypes /\ RequestTypes /\ HistoryTypes

Blank == [f \in Fields |-> 0]

Init ==
    /\ hdd \in BOOLEAN /\ files = <<>> /\ marker = FALSE
    /\ info = 0 /\ backed = FALSE
    /\ fpc = "start" /\ record = 0 /\ got = Blank /\ out = "log" /\ unread = FALSE
    /\ step = [r \in Requests |-> Over] /\ script = {}
    /\ made = 0 /\ boots = 1 /\ mishaps = 0 /\ cause = 0
    /\ windows = {} /\ carried = {} /\ seen = {} /\ again = FALSE

Put(name, text) ==
    [f \in DOMAIN files \cup {name} |-> IF f = name THEN text ELSE files[f]]
Mishap  == mishaps < MaxMishaps /\ mishaps' = mishaps + 1
Note(w) == windows' = windows \cup {w}
Live    == {r \in Requests : step[r] # Over}
Booted  == fpc \in {"done", "failed"} /\ backed

\* A step of the boot that meets a window, if the condition holds.
Meets(cond, w) ==
    IF cond /\ w \notin windows THEN Note(w) /\ Mishap ELSE UNCHANGED <<windows, mishaps>>

-----------------------------------------------------------------------------
(***************************************************************************)
(* Reading a log.  Every key is looked for with strstr, so that a key is   *)
(* also found in the Previous* line of the same field.                     *)
(***************************************************************************)
Has(line, prev, field) == line.field = field /\ (prev => line.prev)

\* find_previous_reboot_log: the slot, or "none".  The flat log has to exist
\* for the others to be looked for.
FindPreviousLog(marked, present) ==
    LET baks == {i \in 1 .. Len(Baks) : Baks[i] \in present}
    IN  IF marked /\ "marked" \in present THEN "marked"
        ELSE IF "flat" \notin present THEN "none"
        ELSE IF baks = {} THEN "flat" ELSE Baks[Min(baks)]

Found == FindPreviousLog(marker, DOMAIN files)

LastValue(text, indices) == IF indices = {} THEN 0 ELSE text[Max(indices)].of

\* resolve_hal_sys_reboot replaces initiator and other reason by those that
\* the reason line names, if there is one.
ResolveHal(rec, text, reasons) ==
    IF reasons = {} THEN rec
    ELSE [rec EXCEPT !["RebootInitiatedBy"] = LastValue(text, reasons),
                     !["OtherReason"] = LastValue(text, reasons)]

\* parse_legacy_log reads until it has four Previous* lines; the raw lines
\* count only if there is no Previous* line among those.
ParseLegacyLog(text) ==
    LET found   == {i \in 1 .. Len(text) : text[i].prev /\ text[i].field \in Record}
        scanned == {i \in 1 .. Len(text) : Cardinality({j \in found : j < i}) < 4}
        prevs   == [f \in Fields |-> {i \in scanned : Has(text[i], TRUE, f)}]
        raws    == [f \in Fields |-> {i \in scanned : ~text[i].prev /\ text[i].field = f}]
        reasons == {i \in scanned : /\ Has(text[i], FALSE, "RebootReason")
                                    /\ text[i].of \notin HalRequests}
        plain   == [f \in Fields |-> IF f \in Record THEN LastValue(text, raws[f]) ELSE 0]
    IN  IF found \cap scanned # {}
          THEN [f \in Fields |-> IF f \in Record THEN LastValue(text, prevs[f]) ELSE 0]
        ELSE IF plain["RebootInitiatedBy"] \in HalRequests
          THEN ResolveHal(plain, text, reasons)
        ELSE plain

\* load_previous_reboot_reason_line: the first one that is not a Previous* one.
ReasonLine(text) ==
    LET lines == {i \in 1 .. Len(text) : /\ Has(text[i], FALSE, "RebootReason")
                                         /\ ~Has(text[i], TRUE, "RebootReason")}
    IN  IF lines = {} THEN 0 ELSE text[Min(lines)].of

-----------------------------------------------------------------------------
(***************************************************************************)
(* Requests.                                                               *)
(***************************************************************************)
\* rebootNow.sh: the binary refuses to run while another one does; the script
\* then carries on by itself, since it looks for its own name only.
Request ==
    /\ made < MaxRequests /\ made' = made + 1
    /\ \/ /\ Live = {} /\ UNCHANGED script
          /\ step' = [step EXCEPT ![made'] = Truncating]
          /\ Meets(~Booted, "raced")
       \/ /\ Live # {} /\ Live \cap script = {}
          /\ script' = script \cup {made'}
          /\ step' = [step EXCEPT ![made'] = 1]
          /\ Meets(TRUE, "concurrent")
    /\ UNCHANGED <<hdd, files, marker, info, backed, fetcher, boots, cause, past>>

\* Mutant: the log is not truncated.
KeepLog(r) ==
    /\ step[r] = Truncating
    /\ step' = [step EXCEPT ![r] = @ + 1]
    /\ UNCHANGED <<hdd, files, marker, info, backed, fetcher, script, made, boots, mishaps,
                   windows, cause, past>>

Truncate(r) ==
    /\ step[r] = Truncating
    /\ step' = [step EXCEPT ![r] = @ + 1]
    /\ \/ files' = Put("log", <<>>) /\ UNCHANGED <<mishaps, windows>>
       \/ UNCHANGED files /\ Note("badLog") /\ Mishap
    /\ UNCHANGED <<hdd, marker, info, backed, fetcher, script, made, boots, cause, past>>

\* write_rebootinfo_log opens with "a"; main does not look at its result.
AppendLine(r) ==
    /\ step[r] \in 1 .. Len(Order)
    /\ step' = [step EXCEPT ![r] = @ + 1]
    /\ \/ /\ files' = Put("log", (IF "log" \in DOMAIN files THEN files["log"] ELSE <<>>)
                                 \o <<Raw(Order[step[r]], r)>>)
          /\ UNCHANGED <<mishaps, windows>>
       \/ UNCHANGED files /\ Note("badLog") /\ Mishap
    /\ UNCHANGED <<hdd, marker, info, backed, fetcher, script, made, boots, cause, past>>

\* reboot.info is written.  What an earlier request has left there is gone.
WriteInfo(r) ==
    /\ step[r] = Recording
    /\ step' = [step EXCEPT ![r] = @ + 1]
    /\ \/ info' = r /\ windows' = windows \ {"pending"} /\ UNCHANGED mishaps
       \/ UNCHANGED info /\ Note("infoLost") /\ Mishap
    /\ UNCHANGED <<hdd, files, marker, backed, fetcher, script, made, boots, cause, past>>

\* The policy defers the reboot, or none of the commands works: the run ends,
\* and its record stays.
NoReboot(r) ==
    /\ step[r] = Deciding
    /\ step' = [step EXCEPT ![r] = Over]
    /\ Note("pending")
    /\ UNCHANGED <<hdd, files, marker, info, backed, fetcher, script, made, boots, mishaps,
                   cause, past>>

\* The binary is killed; the script goes on with the same request.
FallBack(r) ==
    /\ r \in Live \ script /\ Live \cap script = {} /\ Mishap
    /\ script' = script \cup {r}
    /\ step' = [step EXCEPT ![r] = 1]
    /\ windows' = windows \cup (CASE step[r] = Truncating -> {"badLog"}
                                  [] step[r] = Deciding -> {"pending"}
                                  [] OTHER -> {})
    /\ UNCHANGED <<hdd, files, marker, info, backed, fetcher, made, boots, cause, past>>

\* The device goes down and comes up.
Boot(c, news) ==
    /\ boots < MaxBoots /\ boots' = boots + 1
    /\ cause' = c
    /\ carried' = windows \cup news
                    \cup (IF Booted THEN {} ELSE carried \cup {"unfetched"})
    /\ windows' = {}
    /\ step' = [r \in Requests |-> Over] /\ script' = {}
    /\ backed' = FALSE /\ fpc' = "start" /\ got' = Blank /\ unread' = FALSE
    /\ record' = 0 /\ out' = "log" /\ again' = FALSE
    /\ UNCHANGED <<hdd, files, marker, info, made, seen>>

Reboot(r) == step[r] = Deciding /\ Boot(r, {}) /\ UNCHANGED mishaps

\* The power is cut, perhaps in the middle of a request.
PowerCut ==
    /\ Boot(0, (IF \E r \in Live : step[r] = Deciding THEN {"pending"} ELSE {})
                 \cup (IF \E r \in Live : step[r] < Deciding THEN {"halfway"} ELSE {}))
    /\ Mishap

-----------------------------------------------------------------------------
(***************************************************************************)
(* backup_logs, external: it moves the log away, so that a stream that is  *)
(* open writes into the moved file.                                        *)
(***************************************************************************)
FreeSlot ==
    IF "flat" \notin DOMAIN files THEN "flat"
    ELSE LET free == {i \in 1 .. Len(Baks) : Baks[i] \notin DOMAIN files}
         IN  IF free = {} THEN "bak3" ELSE Baks[Min(free)]

MoveTo(slot) ==
    /\ files' = [f \in (DOMAIN files \ {"log"}) \cup {slot} |->
                    IF f = slot THEN files["log"] ELSE files[f]]
    /\ out' = IF fpc = "write" THEN slot ELSE out

BackupLogs ==
    /\ ~backed /\ backed' = TRUE
    /\ marker' = hdd
    /\ IF "log" \notin DOMAIN files
         THEN /\ files' = [f \in DOMAIN files \ {"marked"} |-> files[f]]
              /\ UNCHANGED <<out, windows>>
       ELSE IF hdd THEN MoveTo("marked") /\ UNCHANGED windows
       ELSE /\ MoveTo(FreeSlot)
            /\ windows' = IF FreeSlot \in {"bak2", "bak3"} THEN windows \cup {"fast"}
                                                           ELSE windows
    /\ UNCHANGED <<hdd, info, fpc, record, got, unread, runs, boots, mishaps, cause, past>>

\* The rotation some minutes after the boot.
RotateLogs ==
    /\ Booted /\ "flat" \in DOMAIN files
    /\ files' = [f \in DOMAIN files \cap {"log"} |-> files[f]]
    /\ UNCHANGED <<hdd, marker, info, backed, fetcher, runs, boots, mishaps, cause, windows,
                   past>>

-----------------------------------------------------------------------------
(***************************************************************************)
(* The fetcher.                                                            *)
(***************************************************************************)
\* Mutant: the record is copied and not renamed.
CopyRecord ==
    /\ fpc = "start"
    /\ fpc' = IF info = 0 THEN "open" ELSE "load"
    /\ record' = info
    /\ UNCHANGED <<hdd, files, marker, info, backed, got, out, unread, runs, boots, mishaps,
                   cause, windows, past>>

\* The rename, and the path that update_previous_reboot_log_fields is given.
\* Without a record it writes empty fields.
FetchRecord ==
    /\ fpc = "start"
    /\ fpc' = IF info = 0 THEN "open" ELSE "load"
    /\ record' = info /\ info' = 0
    /\ UNCHANGED <<hdd, files, marker, backed, got, out, unread, runs, boots, mishaps, cause,
                   windows, past>>

\* What the record holds, and what is used if it does not open.
FromRecord(r)       == [f \in Fields |-> IF f \in Record THEN r ELSE 0]
FromLog(slot, logs) == IF slot = "none" THEN Blank ELSE ParseLegacyLog(logs[slot])

\* Mutant: the log of this boot stands in for the record.
LoadFromNewLog ==
    /\ fpc = "load" /\ fpc' = "reason"
    /\ \/ /\ got' = FromRecord(record)
          /\ UNCHANGED unread /\ Meets(~backed, "early")
       \/ /\ got' = FromLog(IF "log" \in DOMAIN files THEN "log" ELSE "none", files)
          /\ unread' = TRUE /\ Mishap
          /\ windows' = IF backed THEN windows ELSE windows \cup {"early"}
    /\ UNCHANGED <<hdd, files, marker, info, backed, record, out, runs, boots, cause, past>>

\* The record is read, or it does not open and a log stands in for it.
LoadFields ==
    /\ fpc = "load" /\ fpc' = "reason"
    /\ \/ /\ got' = FromRecord(record)
          /\ UNCHANGED unread /\ Meets(~backed, "early")
       \/ /\ got' = FromLog(Found, files)
          /\ unread' = TRUE /\ Mishap
          /\ windows' = IF backed THEN windows ELSE windows \cup {"early"}
    /\ UNCHANGED <<hdd, files, marker, info, backed, record, out, runs, boots, cause, past>>

\* The reason line is taken from the log in either case.
WithReason(rec, slot, logs) ==
    [rec EXCEPT !["RebootReason"] = IF slot = "none" THEN 0 ELSE ReasonLine(logs[slot])]

LoadReason ==
    /\ fpc = "reason" /\ fpc' = "open"
    /\ got' = WithReason(got, Found, files)
    /\ Meets(~backed, "early")
    /\ UNCHANGED <<hdd, files, marker, info, backed, record, out, unread, runs, boots,
                   cause, past>>

\* Mutant: the log is opened for update, which does not create it.
OpenForUpdate ==
    /\ fpc = "open"
    /\ \/ /\ fpc' = "write" /\ UNCHANGED files /\ out' = "log"
          /\ Meets(~backed, "early")
       \/ fpc' = "failed" /\ Mishap /\ UNCHANGED <<files, out, windows>>
    /\ UNCHANGED <<hdd, marker, info, backed, record, got, unread, runs, boots, cause, past>>

OpenFields ==
    /\ fpc = "open"
    /\ \/ /\ fpc' = "write" /\ files' = Put("log", <<>>) /\ out' = "log"
          /\ Meets(~backed, "early")
       \/ fpc' = "failed" /\ Mishap /\ UNCHANGED <<files, out, windows>>
    /\ UNCHANGED <<hdd, marker, info, backed, record, got, unread, runs, boots, cause, past>>

\* The five lines go to the start of the file, over what others have appended
\* since; from line j on, that is left.
WriteFields(j) ==
    /\ fpc = "write" /\ fpc' = "done"
    /\ files' = Put(out, [i \in 1 .. Len(Order) |-> Previous(Order[i], got[Order[i]])]
                         \o SubSeq(files[out], j, Len(files[out])))
    /\ again' = (got["RebootInitiatedBy"] \in seen)
    /\ seen' = seen \cup ({got["RebootInitiatedBy"]} \ {0})
    /\ UNCHANGED <<hdd, marker, info, backed, record, got, out, unread, runs, boots, mishaps,
                   cause, windows, carried>>

Next ==
    \/ Request \/ PowerCut \/ BackupLogs \/ RotateLogs
    \/ \E r \in Requests : \/ Truncate(r) \/ AppendLine(r) \/ WriteInfo(r)
                           \/ NoReboot(r) \/ Reboot(r) \/ FallBack(r)
    \/ FetchRecord \/ LoadFields \/ LoadReason \/ OpenFields
    \/ fpc = "write" /\ \E j \in 1 .. Len(files[out]) + 1 : WriteFields(j)

Spec == Init /\ [][Next]_vars

-----------------------------------------------------------------------------
(***************************************************************************)
(* Properties.                                                             *)
(***************************************************************************)
Told(w) == fpc = "done" /\ (carried \cup windows) \cap w = {}

\* The fetcher names the request that took the device down, and nobody after a
\* power cut; also when the JSON record does not open and parse_legacy_log has
\* to find the same in an old log.  Outside this are the races of request,
\* backup_logs and fetcher, a record that outlives its request or is not
\* written, and, for the old log, a missing line and more than one fast reboot.
ToldCause ==
    Told({"raced", "early", "concurrent", "pending", "infoLost", "unfetched"}
           \cup (IF unread THEN {"badLog", "fast"} ELSE {})) =>
        \A f \in Record : got[f] = cause

\* The PreviousRebootReason line, which comes from the old log, is about the
\* same request as the other four, which come from the record: also when that
\* request was deferred.
FieldsAgree ==
    Told({"raced", "early", "concurrent", "halfway", "infoLost", "unfetched", "badLog",
          "fast"}) =>
        \A f, g \in Fields : got[f] = got[g]

\* No request is named as the initiator on two boots, whatever is lost, killed
\* or deferred, unless request, fetcher and backup_logs overtake each other; a log
\* that stands in for the record also has to have been started anew, which the
\* script does not do when the binary refuses to run.
ToldOnce ==
    Told({"raced", "early"} \cup (IF unread THEN {"fast", "badLog", "concurrent"} ELSE {}))
        => ~again
=============================================================================
