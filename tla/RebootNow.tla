----------------------------- MODULE RebootNow -----------------------------
(***************************************************************************)
(* The life of a device as the rebootnow binary sees it: one rebootnow run *)
(* at a time (PidGuard is about that), from the accepted request through   *)
(* the records it writes, the cyclic reboot policy, and the reboot, over   *)
(* any number of boots.  Every write to a file that outlives the process   *)
(* is a step of its own, so that a power cut, the death of the process or  *)
(* a run of the reason fetcher can fall between any two of them.           *)
(*                                                                         *)
(* A cause stands for the four strings that the policy compares: source,   *)
(* reason, customReason and otherReason.                                   *)
(***************************************************************************)
EXTENDS Integers

CONSTANTS
    Causes,       \* the causes a reboot can be requested with
    CyclicCause,  \* the cause of the cron entry, source "CyclicReboot"
    Maintenance,  \* causes that main() classifies as MAINTENANCE_REBOOT
    ReadBack,     \* what extract_json_value makes of a recorded cause
    Threshold,    \* REBOOT_CYCLE_THRESHOLD
    MaxFaults     \* bound: how many faults a behaviour may contain

None    == "none"      \* the file does not exist
Torn    == "torn"      \* truncated by fopen "w" and not yet written
Derived == "derived"   \* a reason the fetcher derived from other sources
Garbled == "garbled"   \* a text cut at a quote or at the buffer's end

ASSUME CausesAssumption ==
    /\ CyclicCause \in Causes
    /\ Maintenance \subseteq Causes
    /\ Causes \cap {None, Torn, Derived, Garbled} = {}

ASSUME ReadBackAssumption == ReadBack \in [Causes -> Causes \cup {Garbled}]

ASSUME BoundsAssumption == Threshold \in Nat /\ MaxFaults \in Nat

\* Causes whose text the JSON records do not give back: a quote in it, or a
\* field that is longer than the buffer it is read into.
Lossy == {c \in Causes : ReadBack[c] # c}

VARIABLES
    rebootInfo,     \* reboot.info
    previousInfo,   \* previousreboot.info
    parodusInfo,    \* parodusreboot.info
    markers,        \* the marker files that exist
    rebootCounter,  \* rebootCounter; a missing or empty file reads as 0
    settings,       \* what is switched on outside: cron entry and RFCs
    uptime,         \* "inWindow" (at most 10 minutes) or "outside"
    pc,             \* where the rebootnow run is
    req,            \* the cause it was called with
    count,          \* local of handle_cyclic_reboot
    proceed         \* proceed_reboot of main()

(***************************************************************************)
(* History variables: no guard of the code depends on them.                *)
(***************************************************************************)
VARIABLES
    faults,     \* faults so far
    lastCause,  \* the cause of the last shutdown, None if it was no rebootnow
    streak,     \* consecutive reboots for lastCause, each inside the window
    intact      \* the aspects below that nothing has disturbed

\* rebootNow: the last reboot came from here; rebootStop: stop mode;
\* maintenance: the reboot is a maintenance reboot.
Markers == {"rebootNow", "rebootStop", "maintenance"}

\* The rebootnow cron entry, RebootStop.Enable and RebootStop.Detection.
Settings == {"cron", "enable", "detection"}

\* records: the last reboot's records are as it left them;
\* run:     every file operation of this run has succeeded;
\* streak:  completing this run lengthens the streak;
\* counter: since the last reset nothing has made the counter stale;
\* stop:    since the last reset no fault has hit the stop-mode state.
Aspects == {"records", "run", "streak", "counter", "stop"}

\* Bound: longer streaks are not told apart.
StreakCap == Threshold + 2

records == <<rebootInfo, previousInfo, parodusInfo>>
local   == <<req, count, proceed>>
history == <<faults, lastCause, streak, intact>>
vars    == <<records, markers, rebootCounter, settings, uptime, pc, local, history>>

PcIdle      == "idle"
Recording   == {"info", "infoWrite", "parodus", "cyclic"}
Policy      == {"compare", "countOpen", "countWrite", "stopTouch", "stopRfc",
                "stopCronDel", "stopCronAdd", "haltTouch", "resetRfc",
                "resetCount", "resetStop", "resetCron", "prevOpen", "prevWrite"}
Rebooting   == {"soft", "systemctl", "force"}
AfterRecord == {"maint", "flag"} \cup Rebooting

FileTypes ==
    /\ rebootInfo \in Causes \cup {None, Torn}
    /\ previousInfo \in Causes \cup {None, Torn, Derived}
    /\ parodusInfo \in Causes \cup {None}
    /\ markers \subseteq Markers
    /\ rebootCounter \in 0..Threshold
    /\ settings \subseteq Settings

RunTypes ==
    /\ pc \in {PcIdle} \cup Recording \cup Policy \cup AfterRecord
    /\ req \in Causes \cup {None}
    /\ (pc = PcIdle) <=> (req = None)
    /\ count \in 0..Threshold
    /\ pc \in {"countOpen", "countWrite"} => count < Threshold
    /\ proceed \in BOOLEAN
    /\ uptime \in {"inWindow", "outside"}

HistoryTypes ==
    /\ faults \in 0..MaxFaults
    /\ lastCause \in Causes \cup {None}
    /\ streak \in 0..StreakCap

IntactTypes == intact \subseteq Aspects

\* The type invariant.  rebootCounter never exceeds the threshold, and a
\* request is remembered exactly while a run is under way.
TypeOK == FileTypes /\ RunTypes /\ HistoryTypes /\ IntactTypes

\* A device that has never rebooted through rebootnow.
Init ==
    /\ rebootInfo = None /\ previousInfo = None /\ parodusInfo = None
    /\ markers = {} /\ rebootCounter = 0
    /\ settings \in {{}, {"detection"}}
    /\ uptime = "inWindow"
    /\ pc = PcIdle /\ req = None /\ count = 0 /\ proceed = TRUE
    /\ faults = 0 /\ lastCause = None /\ streak = 0
    /\ intact = {"counter", "stop"}

-----------------------------------------------------------------------------
(***************************************************************************)
(* Steps and faults.                                                       *)
(***************************************************************************)
Goto(from, to) == pc = from /\ pc' = to

\* One more fault, while the bound allows it.
CountFault == faults < MaxFaults /\ faults' = faults + 1

\* A file operation fails; the code logs it or ignores it and goes on.
FileFault == CountFault /\ intact' = {}

\* A call to RBUS or to the cron script fails; the code ignores it.
ServiceFault == CountFault /\ intact' = intact \ {"stop"}

FileStep(Done, Skipped) ==
    /\ \/ Done /\ UNCHANGED <<faults, intact>>
       \/ Skipped /\ FileFault
    /\ UNCHANGED <<lastCause, streak>>

Touch(m)  == FileStep(markers' = markers \cup {m}, UNCHANGED markers)
Unlink(m) == FileStep(markers' = markers \ {m}, UNCHANGED markers)

\* A setting is switched on or off, or the call fails.
ServiceStep(new) ==
    /\ \/ settings' = new /\ UNCHANGED <<faults, intact>>
       \/ UNCHANGED settings /\ ServiceFault
    /\ UNCHANGED <<lastCause, streak>>

\* The run is over; the device stays up or boots again.
RunEnds == pc' = PcIdle /\ req' = None /\ count' = 0 /\ proceed' = TRUE

-----------------------------------------------------------------------------
(***************************************************************************)
(* main(): the request and its records.                                    *)
(***************************************************************************)

\* Arguments accepted, request classified, rebootInfo.log rewritten.
Request(c) ==
    /\ Goto(PcIdle, "info")
    /\ req' = c
    /\ intact' = (intact \ {"streak"}) \cup {"run"}
    /\ UNCHANGED <<records, markers, rebootCounter, settings, uptime, count,
                   proceed, faults, lastCause, streak>>

\* fopen(REBOOT_INFO_FILE, "w").
OpenRebootInfo ==
    /\ FileStep(Goto("info", "infoWrite") /\ rebootInfo' = Torn,
                Goto("info", "parodus") /\ UNCHANGED rebootInfo)
    /\ UNCHANGED <<previousInfo, parodusInfo, markers, rebootCounter, settings,
                   uptime, local>>

\* The JSON reaches the file at fclose.  If the fetcher has renamed the file
\* meanwhile, the stream is the one of previousreboot.info by now.
WriteRebootInfo ==
    /\ Goto("infoWrite", "parodus")
    /\ IF rebootInfo = Torn
       THEN rebootInfo' = req /\ UNCHANGED previousInfo
       ELSE previousInfo' = req /\ UNCHANGED rebootInfo
    /\ UNCHANGED <<parodusInfo, markers, rebootCounter, settings, uptime, local,
                   history>>

WriteParodusInfo ==
    /\ Goto("parodus", "cyclic")
    /\ FileStep(parodusInfo' = req, UNCHANGED parodusInfo)
    /\ UNCHANGED <<rebootInfo, previousInfo, markers, rebootCounter, settings,
                   uptime, local>>

-----------------------------------------------------------------------------
(***************************************************************************)
(* handle_cyclic_reboot().                                                 *)
(***************************************************************************)

\* The rebootNow flag is there and detection is on, or could not be read,
\* which counts as on.  The flag is removed.
Evaluate ==
    /\ "rebootNow" \in markers
    /\ Goto("cyclic", "compare")
    /\ Unlink("rebootNow")
    /\ UNCHANGED <<records, rebootCounter, settings, uptime, local>>

\* No flag, or detection off: proceed and leave every loop file alone.
Bypass ==
    /\ "rebootNow" \notin markers \/ "detection" \notin settings
    /\ Goto("cyclic", "prevOpen")
    /\ intact' = IF streak > 1 THEN intact \ {"counter"} ELSE intact
    /\ UNCHANGED <<records, markers, rebootCounter, settings, uptime, local,
                   faults, lastCause, streak>>

\* What read_previous_reboot_info makes of the record.
PreviousCause ==
    IF previousInfo \in Causes THEN ReadBack[previousInfo] ELSE previousInfo

\* The record is readable, the uptime is within the window and all four
\* fields are equal.
SameCauseInWindow ==
    /\ previousInfo \notin {None, Torn}
    /\ uptime = "inWindow"
    /\ PreviousCause = req

\* The request is taken for a repetition of another cause, whose text was cut
\* in the record to that of this one: the counter goes on from the other's.
Mistaken == SameCauseInWindow /\ req # lastCause

\* Whether the request really repeats the last reboot, for the history.
JudgeStreak ==
    /\ intact' = (IF Mistaken THEN intact \ {"counter"} ELSE intact) \cup
                 (IF "records" \in intact /\ uptime = "inWindow" /\ req = lastCause
                  THEN {"streak"} ELSE {})
    /\ UNCHANGED faults

CompareKeeps == UNCHANGED <<records, markers, rebootCounter, settings, uptime,
                            req, proceed, lastCause, streak>>

\* Already in stop mode.
HaltAgain ==
    /\ SameCauseInWindow /\ "rebootStop" \in markers
    /\ Goto("compare", "haltTouch")
    /\ JudgeStreak /\ UNCHANGED count /\ CompareKeeps

\* The counter has reached the threshold.
DetectLoop ==
    /\ SameCauseInWindow /\ "rebootStop" \notin markers
    /\ rebootCounter >= Threshold
    /\ Goto("compare", "stopTouch")
    /\ JudgeStreak /\ UNCHANGED count /\ CompareKeeps

\* Mutant: the threshold is compared with <=.
CountRebootPastThreshold ==
    /\ SameCauseInWindow /\ "rebootStop" \notin markers
    /\ rebootCounter <= Threshold
    /\ Goto("compare", "countOpen")
    /\ count' = rebootCounter
    /\ JudgeStreak /\ CompareKeeps

CountReboot ==
    /\ SameCauseInWindow /\ "rebootStop" \notin markers
    /\ rebootCounter < Threshold
    /\ Goto("compare", "countOpen")
    /\ count' = rebootCounter
    /\ JudgeStreak /\ CompareKeeps

\* A different cause, outside the window, no usable record; or, as a fault,
\* /proc/uptime or the record cannot be read.
NotInLoop ==
    /\ Goto("compare", "resetRfc")
    /\ \/ ~SameCauseInWindow /\ JudgeStreak
       \/ FileFault
    /\ UNCHANGED count /\ CompareKeeps

\* write_rebootcounter: fopen "w" empties the file, fclose fills it.
OpenCounter ==
    /\ FileStep(Goto("countOpen", "countWrite") /\ rebootCounter' = 0,
                Goto("countOpen", "prevOpen") /\ UNCHANGED rebootCounter)
    /\ UNCHANGED <<records, markers, settings, uptime, local>>

\* Mutant: the counter is incremented twice.
WriteCounterTwice ==
    /\ Goto("countWrite", "prevOpen")
    /\ rebootCounter' = count + 2
    /\ UNCHANGED <<records, markers, settings, uptime, local, history>>

WriteCounter ==
    /\ Goto("countWrite", "prevOpen")
    /\ rebootCounter' = count + 1
    /\ UNCHANGED <<records, markers, settings, uptime, local, history>>

StopTouch ==
    /\ Goto("stopTouch", "stopRfc")
    /\ Touch("rebootStop")
    /\ UNCHANGED <<records, rebootCounter, settings, uptime, local>>

StopRfc ==
    /\ Goto("stopRfc", "stopCronDel")
    /\ ServiceStep(settings \cup {"enable"})
    /\ UNCHANGED <<records, markers, rebootCounter, uptime, local>>

StopCronRemove ==
    /\ Goto("stopCronDel", "stopCronAdd")
    /\ ServiceStep(settings \ {"cron"})
    /\ UNCHANGED <<records, markers, rebootCounter, uptime, local>>

StopCronAdd ==
    /\ Goto("stopCronAdd", "haltTouch")
    /\ ServiceStep(settings \cup {"cron"})
    /\ UNCHANGED <<records, markers, rebootCounter, uptime, local>>

\* Mutant: the rebootNow flag is not restored when the reboot is deferred.
HaltNoTouch ==
    /\ Goto("haltTouch", "prevOpen")
    /\ proceed' = FALSE
    /\ UNCHANGED <<records, markers, rebootCounter, settings, uptime, req, count,
                   history>>

\* touch_file(REBOOTNOW_FLAG); return 0.
HaltTouch ==
    /\ Goto("haltTouch", "prevOpen")
    /\ proceed' = FALSE
    /\ Touch("rebootNow")
    /\ UNCHANGED <<records, rebootCounter, settings, uptime, req, count>>

ResetRfc ==
    /\ Goto("resetRfc", "resetCount")
    /\ ServiceStep(settings \ {"enable"})
    /\ UNCHANGED <<records, markers, rebootCounter, uptime, local>>

\* Mutant: a reset leaves the counter alone.
ResetNoCounter ==
    /\ Goto("resetCount", "resetStop")
    /\ UNCHANGED <<records, markers, rebootCounter, settings, uptime, local, history>>

ResetCounter ==
    /\ Goto("resetCount", "resetStop")
    /\ FileStep(rebootCounter' = 0, UNCHANGED rebootCounter)
    /\ UNCHANGED <<records, markers, settings, uptime, local>>

ResetStop ==
    /\ Goto("resetStop", "resetCron")
    /\ Unlink("rebootStop")
    /\ UNCHANGED <<records, rebootCounter, settings, uptime, local>>

\* What a reset without a fault makes good again.
Repaired ==
    (IF "run" \in intact THEN {"counter"} ELSE {}) \cup
    (IF "run" \in intact /\ "enable" \notin settings THEN {"stop"} ELSE {})

\* Mutant: a reset leaves the cron entry behind.
ResetNoCron ==
    /\ Goto("resetCron", "prevOpen")
    /\ intact' = intact \cup Repaired
    /\ UNCHANGED <<records, markers, rebootCounter, settings, uptime, local,
                   faults, lastCause, streak>>

\* The last step of a reset.
ResetCron ==
    /\ Goto("resetCron", "prevOpen")
    /\ \/ /\ settings' = settings \ {"cron"}
          /\ intact' = intact \cup Repaired
          /\ UNCHANGED faults
       \/ UNCHANGED settings /\ ServiceFault
    /\ UNCHANGED <<records, markers, rebootCounter, uptime, local, lastCause, streak>>

-----------------------------------------------------------------------------
(***************************************************************************)
(* main(): after the policy.                                               *)
(***************************************************************************)

\* fopen(PREVIOUS_REBOOT_INFO_FILE, "w").  A deferred request whose fopen
\* fails returns here.
OpenPrevious ==
    /\ \/ /\ Goto("prevOpen", "prevWrite") /\ previousInfo' = Torn
          /\ UNCHANGED <<local, faults, intact>>
       \/ /\ proceed /\ Goto("prevOpen", "maint") /\ FileFault
          /\ UNCHANGED <<local, previousInfo>>
       \/ /\ ~proceed /\ pc = "prevOpen" /\ RunEnds /\ FileFault
          /\ UNCHANGED previousInfo
    /\ UNCHANGED <<rebootInfo, parodusInfo, markers, rebootCounter, settings,
                   uptime, lastCause, streak>>

\* If the fetcher has renamed reboot.info over the file meanwhile, the text
\* goes to the unlinked one.
SavedPrevious == IF previousInfo \in {Torn, Derived} THEN req ELSE previousInfo

WritePrevious ==
    /\ proceed /\ Goto("prevWrite", "maint")
    /\ previousInfo' = SavedPrevious
    /\ UNCHANGED <<rebootInfo, parodusInfo, markers, rebootCounter, settings,
                   uptime, local, history>>

\* The same write in a run that then returns without a reboot.
Defer ==
    /\ ~proceed /\ pc = "prevWrite" /\ RunEnds
    /\ previousInfo' = SavedPrevious
    /\ intact' = intact \ {"run", "streak"}
    /\ UNCHANGED <<rebootInfo, parodusInfo, markers, rebootCounter, settings,
                   uptime, faults, lastCause, streak>>

\* Mutant: a stale maintenance flag is not removed.
OnlySetMaintenanceFlag ==
    /\ Goto("maint", "flag")
    /\ IF req \in Maintenance
       THEN Touch("maintenance")
       ELSE UNCHANGED <<markers, history>>
    /\ UNCHANGED <<records, rebootCounter, settings, uptime, local>>

\* update_maintenance_reboot_flag; then the notification and cleanup_services,
\* which touch nothing that is modelled here.
UpdateMaintenanceFlag ==
    /\ Goto("maint", "flag")
    /\ IF req \in Maintenance THEN Touch("maintenance") ELSE Unlink("maintenance")
    /\ UNCHANGED <<records, rebootCounter, settings, uptime, local>>

TouchRebootNow ==
    /\ Goto("flag", "soft")
    /\ Touch("rebootNow")
    /\ UNCHANGED <<records, rebootCounter, settings, uptime, local>>

\* reboot has not worked within 90 seconds; systemctl reboot neither.
RebootIgnored ==
    /\ Goto("soft", "systemctl") \/ Goto("systemctl", "force")
    /\ UNCHANGED <<records, markers, rebootCounter, settings, uptime, local, history>>

\* reboot -f returned: main returns 0 and the device is still up.
RebootFailed ==
    /\ pc = "force" /\ RunEnds
    /\ intact' = intact \cap {"stop"}
    /\ UNCHANGED <<records, markers, rebootCounter, settings, uptime, faults,
                   lastCause, streak>>

\* One of the three reboot commands takes the device down and it boots again.
GoDown ==
    /\ pc \in Rebooting /\ RunEnds
    /\ uptime' = "inWindow"
    /\ lastCause' = req
    /\ streak' = IF "streak" \notin intact THEN 1
                 ELSE IF streak < StreakCap THEN streak + 1 ELSE StreakCap
    /\ intact' = (intact \cap {"counter", "stop"}) \cup
                 (IF "run" \in intact THEN {"records"} ELSE {})
    /\ UNCHANGED <<records, markers, rebootCounter, settings, faults>>

-----------------------------------------------------------------------------
(***************************************************************************)
(* The environment.                                                        *)
(***************************************************************************)

\* The cron daemon starts the scheduled reboot.
CronFires == "cron" \in settings /\ Request(CyclicCause)

WindowExpires ==
    /\ uptime = "inWindow" /\ uptime' = "outside"
    /\ UNCHANGED <<records, markers, rebootCounter, settings, pc, local, history>>

SetDetection ==
    /\ \/ "detection" \in settings /\ settings' = settings \ {"detection"}
       \/ "detection" \notin settings /\ settings' = settings \cup {"detection"}
    /\ UNCHANGED <<records, markers, rebootCounter, uptime, pc, local, history>>

\* A run of update-prev-reboot-info, as one step: reboot.info becomes
\* previousreboot.info, or else a derived reason is written there; the parodus
\* record is handed over and removed.
Fetch ==
    /\ previousInfo' = IF rebootInfo = None THEN Derived ELSE rebootInfo
    /\ rebootInfo' = None /\ parodusInfo' = None
    /\ intact' = {a \in intact :
                    /\ a = "records" => previousInfo' = lastCause
                    /\ a = "run" /\ pc \in AfterRecord => previousInfo' = req
                    /\ a = "counter" => pc = PcIdle}
    /\ UNCHANGED <<markers, rebootCounter, settings, uptime, pc, local, faults,
                   lastCause, streak>>

\* The crontab is rebuilt without the entry.
CronLost ==
    /\ "cron" \in settings /\ settings' = settings \ {"cron"}
    /\ ServiceFault
    /\ UNCHANGED <<records, markers, rebootCounter, uptime, pc, local, lastCause, streak>>

\* The rebootnow process is killed.
ProcessDies ==
    /\ pc # PcIdle /\ RunEnds
    /\ FileFault
    /\ UNCHANGED <<records, markers, rebootCounter, settings, uptime, lastCause, streak>>

PowerLoss ==
    /\ RunEnds
    /\ CountFault
    /\ uptime' = "inWindow"
    /\ lastCause' = None /\ streak' = 0
    /\ intact' = IF pc = PcIdle THEN intact \cap {"stop"} ELSE {}
    /\ UNCHANGED <<records, markers, rebootCounter, settings>>

-----------------------------------------------------------------------------
RecordSteps == OpenRebootInfo \/ WriteRebootInfo \/ WriteParodusInfo

PolicySteps ==
    \/ Evaluate \/ Bypass
    \/ HaltAgain \/ DetectLoop \/ CountReboot \/ NotInLoop
    \/ OpenCounter \/ WriteCounter
    \/ StopTouch \/ StopRfc \/ StopCronRemove \/ StopCronAdd \/ HaltTouch
    \/ ResetRfc \/ ResetCounter \/ ResetStop \/ ResetCron

RebootSteps ==
    \/ OpenPrevious \/ WritePrevious \/ Defer
    \/ UpdateMaintenanceFlag \/ TouchRebootNow
    \/ RebootIgnored \/ RebootFailed \/ GoDown

Run == RecordSteps \/ PolicySteps \/ RebootSteps

Environment ==
    \/ CronFires \/ WindowExpires \/ SetDetection \/ Fetch
    \/ CronLost \/ ProcessDies \/ PowerLoss

Next ==
    \/ \E c \in Causes \ {CyclicCause} : Request(c)
    \/ Run
    \/ Environment

Spec == Init /\ [][Next]_vars

\* A started run goes on; time passes; the cron entry is daily, so a firing
\* that finds another rebootnow at work is repeated.
Fairness ==
    /\ WF_vars(Run)
    /\ WF_vars(WindowExpires)
    /\ SF_vars(CronFires)

FairSpec == Spec /\ Fairness

-----------------------------------------------------------------------------
(***************************************************************************)
(* Properties.                                                             *)
(***************************************************************************)

\* handle_cyclic_reboot stops a reboot storm: a device whose records are not
\* disturbed between two reboots never reboots more than Threshold + 1 times
\* in a row for one cause inside the window.  RBUS and cron failures, and any
\* fault before the streak began, do not weaken the bound.
StormBound == lastCause \notin Lossy => streak <= Threshold + 1

\* README.md, "The cyclic logic prevents repeated reboot storms for the same
\* cause", read as it stands: the bound holds for every cause, also for one
\* whose text read_previous_reboot_info does not give back.
StormBoundEveryCause == streak <= Threshold + 1

\* The counter is neither stale nor short: unless something disturbed it since
\* the last reset, it is the number of repetitions of the last cause, so that
\* stop mode is entered for a real loop of this cause and for nothing else.  A
\* request that was mistaken for a repetition is such a disturbance.
CounterExact ==
    pc = PcIdle /\ "counter" \in intact /\ lastCause \notin Lossy =>
        rebootCounter = IF streak = 0 THEN 0 ELSE streak - 1

\* Between runs, the marker file of stop mode, the published RFC and the cron
\* entry that ends it are all there or all absent, and the rebootNow flag that
\* makes the next request be recognised is there in stop mode.  A completed
\* reset repairs whatever a fault has broken before.
StopModeCoherent ==
    pc = PcIdle /\ "stop" \in intact =>
        /\ "rebootStop" \in markers <=> "cron" \in settings
        /\ "rebootStop" \in markers <=> "enable" \in settings
        /\ "rebootStop" \in markers => "rebootNow" \in markers

\* When the reboot commands run and no file operation of the run has failed,
\* every record of the reboot names this request, whatever the fetcher did
\* meanwhile.
RecordsAgreeAtReboot ==
    pc \in Rebooting /\ "run" \in intact =>
        /\ previousInfo = req
        /\ rebootInfo \in {req, None}
        /\ parodusInfo \in {req, None}
        /\ "maintenance" \in markers <=> req \in Maintenance
        /\ "rebootNow" \in markers

\* Stop mode ends: once the deferred reboot is scheduled, stop mode is left, or
\* the cron entry is lost, or detection is switched off.
HaltEnds ==
    ({"cron", "detection"} \subseteq settings /\ "rebootStop" \in markers)
      ~> (\/ "rebootStop" \notin markers
          \/ ~({"cron", "detection"} \subseteq settings))
=============================================================================
