---------------------------- MODULE SystemCleanup ----------------------------
(***************************************************************************)
(* cleanup_services, what rebootnow does between its records and the       *)
(* reboot: signals, RDM applications, device scripts, the logs and the     *)
(* clock that move from memory to disk, services, sync.  Meanwhile others  *)
(* go on logging, calls fail, the process or the power goes, and a reboot  *)
(* that did not come is requested again.                                   *)
(*                                                                         *)
(* The lines of a log file are numbered in the order they are written.     *)
(* The temporary file holds those from cut + 1 to written.                 *)
(***************************************************************************)
EXTENDS Text, FiniteSets

CONSTANTS
    Files,        \* names in TEMP_LOG_PATH
    Supported,    \* those that end in .txt or .log
    MaxLines,     \* bound: lines that are written to a file
    Entries,      \* what is under /media/apps
    Dirs,         \* the directories among them
    Below,        \* the entries below an entry, at any depth
    Images,       \* texts an image name file can hold
    Environments, \* sets of conditions the device can be in, see Conditions
    Services,     \* the services to stop, in order; syslog-ng is the last one
    MaxFaults,    \* bound: faults in a behaviour
    MaxRuns       \* bound: runs of rebootnow

None == "none"   \* the file does not exist
Torn == "torn"   \* truncated by fopen "wb" and not yet written
Old  == "old"    \* a clock saved by an earlier reboot
Now  == "now"

NoImage == <<None>>   \* an image name file that does not open

Lines == 1 .. MaxLines

\* persistent, temp, log: the path is set in the environment; same: the two
\* log paths are equal; killSwitch: .lightsleepKillSwitchEnable exists;
\* systime: TEMP_LOG_PATH/.systime exists; manifest: rdm-manifest.xml exists;
\* bluetooth: BLUETOOTH_ENABLED is "true".
Conditions == {"persistent", "temp", "log", "same", "killSwitch", "systime", "manifest",
               "bluetooth"}

ASSUME FilesAssumption == Supported \subseteq Files /\ None \notin Files

ASSUME EntriesAssumption ==
    /\ Dirs \subseteq Entries
    /\ Below \in [Entries -> SUBSET Entries]
    /\ \A e \in Entries \ Dirs : Below[e] = {}

ASSUME BoundsAssumption ==
    /\ MaxLines \in Nat /\ MaxFaults \in Nat /\ MaxRuns \in Nat
    /\ Images \subseteq Seq(STRING)
    /\ Environments \subseteq SUBSET Conditions

ASSUME ServicesAssumption ==
    /\ Services \in Seq(STRING)
    /\ \A i, j \in 1 .. Len(Services) : Services[i] = Services[j] => i = j

VARIABLES
    env,       \* the conditions that hold
    image,     \* contents of the two image name files
    pc,        \* where the rebootnow run is
    signalled, \* who has been sent its signal
    apps,      \* entries under /media/apps
    stuck,     \* entries that this run could not remove
    written,   \* lines written so far, per file
    cut,       \* lines that are no longer in the temporary file
    copies,    \* how often each line is in the log under LOG_PATH
    durable,   \* lines that are on the disk and not only in the page cache
    todo,      \* names that readdir has not returned yet
    file,      \* the file being copied
    pos,       \* lines of it that fread has returned
    flushed,   \* lines of it that have left the buffer of the output stream
    copyOk,    \* copy_ok
    clock,     \* PERSISTENT_PATH/.systime
    active,    \* services that run
    svc        \* the next one to stop

(***************************************************************************)
(* History variables: no guard of the code depends on them.                *)
(***************************************************************************)
VARIABLES
    faults,    \* faults so far
    runs,      \* runs so far
    intact,    \* nothing has failed in this run
    mark,      \* lines there were when this run was called, per file
    excused,   \* lines that a window of the code may lose, see LinesKept
    again      \* lines that may be copied once more, see CopiedOnce

tree     == <<apps, stuck>>
temp     == <<written, cut>>
disk     == <<copies, durable>>
cursor   == <<todo, file, pos, flushed, copyOk>>
services == <<active, svc>>
history  == <<faults, runs, intact, mark, excused, again>>
vars     == <<env, image, pc, signalled, tree, temp, disk, cursor, clock, services,
              history>>

Copying == {"copy", "close", "truncate"}
States  == {"idle", "signal", "image", "apps", "scripts", "sync", "next", "clock",
            "clockWrite", "stop", "flush", "reboot"} \cup Copying

\* The type invariant.  While a file is copied, the stream's position and what
\* has left its buffer lie within the temporary file.
LogTypes ==
    /\ written \in [Files -> 0..MaxLines] /\ cut \in [Files -> 0..MaxLines]
    /\ \A f \in Files : cut[f] <= written[f]
    /\ copies \in [Files -> [Lines -> Nat]]
    /\ durable \in [Files -> SUBSET Lines]

StreamTypes ==
    /\ todo \subseteq Files /\ pos \in 0..MaxLines /\ flushed \in 0..MaxLines
    /\ pc \in Copying =>
         /\ file \in Supported /\ cut[file] <= flushed
         /\ flushed <= pos /\ pos <= written[file]

OtherTypes ==
    /\ env \in Environments /\ pc \in States
    /\ signalled \subseteq {"telemetry2_0", "parodus"}
    /\ apps \subseteq Entries /\ stuck \subseteq Entries
    /\ clock \in {None, Torn, Old, Now} /\ svc \in Nat

HistoryTypes ==
    /\ faults \in 0..MaxFaults /\ runs \in 0..MaxRuns
    /\ mark \in [Files -> 0..MaxLines]
    /\ excused \in [Files -> SUBSET Lines] /\ again \in [Files -> SUBSET Lines]

FlagTypes == copyOk \in BOOLEAN /\ intact \in BOOLEAN

TypeOK == LogTypes /\ StreamTypes /\ OtherTypes /\ HistoryTypes /\ FlagTypes

All(i) == {Services[k] : k \in i .. Len(Services)}

Init ==
    /\ env \in Environments
    /\ image \in [flashed : Images \cup {NoImage}, running : Images \cup {NoImage}]
    /\ "manifest" \notin env => image = [flashed |-> NoImage, running |-> NoImage]
    /\ pc = "idle" /\ signalled = {}
    /\ apps = Entries /\ stuck = {}
    /\ written = [f \in Files |-> 0] /\ cut = [f \in Files |-> 0]
    /\ copies = [f \in Files |-> [n \in Lines |-> 0]]
    /\ durable = [f \in Files |-> {}]
    /\ todo = {} /\ file = None /\ pos = 0 /\ flushed = 0 /\ copyOk = FALSE
    /\ clock \in {None, Old}
    /\ active = All(1) /\ svc = 1
    /\ faults = 0 /\ runs = 0 /\ intact = TRUE
    /\ mark = [f \in Files |-> 0]
    /\ excused = [f \in Files |-> {}] /\ again = [f \in Files |-> {}]

-----------------------------------------------------------------------------
Goto(from, to) == pc = from /\ pc' = to

\* A call fails; the code logs that, if anything, and goes on.
Fault ==
    /\ faults < MaxFaults /\ faults' = faults + 1
    /\ intact' = FALSE

NoFault == UNCHANGED <<faults, intact>>

Add(h, f, lines) == [h EXCEPT ![f] = @ \cup lines]

\* rebootnow calls cleanup_services.
Call ==
    /\ Goto("idle", "signal")
    /\ runs < MaxRuns /\ runs' = runs + 1
    /\ intact' = TRUE /\ signalled' = {} /\ stuck' = {} /\ svc' = 1
    /\ mark' = written
    /\ UNCHANGED <<env, image, apps, temp, disk, cursor, clock, active, faults,
                   excused, again>>

\* send_signalcleanup, for both services; /proc may not open.
SignalServices ==
    /\ Goto("signal", "image")
    /\ \/ signalled' = {"telemetry2_0", "parodus"} /\ NoFault
       \/ signalled' \in {{"telemetry2_0"}, {"parodus"}, {}} /\ Fault
    /\ UNCHANGED <<env, image, tree, temp, disk, cursor, clock, services, runs, mark,
                   excused, again>>

-----------------------------------------------------------------------------
(***************************************************************************)
(* RDM applications.                                                       *)
(***************************************************************************)
ImageKnown == "manifest" \in env /\ NoImage \notin {image.flashed, image.running}

\* Mutant: the running image is looked for in itself.
NeverUpgraded == ImageKnown /\ ~Contains(image.running, image.running)

\* strstr on what read_file_to_buf returned, newlines included.
Upgraded == ImageKnown /\ ~Contains(image.flashed, image.running)

\* What rebootNow.sh tests: the shell drops the newlines of $(cat ...), and a
\* file that does not open is an empty text.
InShell(text)    == IF text = NoImage THEN <<>> ELSE Chomp(text)
UpgradedInScript ==
    "manifest" \in env /\ ~Contains(InShell(image.flashed), InShell(image.running))

\* The second alternative: /media/apps does not open.
CheckImage ==
    /\ \/ Upgraded /\ Goto("image", "apps") /\ NoFault
       \/ Upgraded /\ Goto("image", "scripts") /\ Fault
       \/ ~Upgraded /\ Goto("image", "scripts") /\ NoFault
    /\ UNCHANGED <<env, image, signalled, tree, temp, disk, cursor, clock, services,
                   runs, mark, excused, again>>

Top == {e \in Entries : \A d \in Entries : e \notin Below[d]}

\* clear_subdirectory descends into directories and leaves the rest alone.
Doomed == Entries \ (Top \ Dirs)

\* remove_dir_at has gone through the entry and could not empty it.
GivenUp(e) == e \in stuck \/ Below[e] \cap stuck # {}

\* unlinkat of a file, of a link, or of a directory that is empty by now.
RemoveEntry(e) ==
    /\ pc = "apps" /\ e \in Doomed \cap apps /\ ~GivenUp(e)
    /\ Below[e] \cap apps = {}
    /\ \/ apps' = apps \ {e} /\ UNCHANGED stuck /\ NoFault
       \/ stuck' = stuck \cup {e} /\ UNCHANGED apps /\ Fault
    /\ UNCHANGED <<env, image, pc, signalled, temp, disk, cursor, clock, services, runs,
                   mark, excused, again>>

\* A directory does not open: nothing below it is tried, nor its removal.
OpenDirFails(e) ==
    /\ pc = "apps" /\ e \in Dirs \cap apps /\ ~GivenUp(e)
    /\ stuck' = stuck \cup {e} \cup Below[e]
    /\ Fault
    /\ UNCHANGED <<env, image, pc, signalled, apps, temp, disk, cursor, clock, services,
                   runs, mark, excused, again>>

\* Everything has been tried; the result is only logged.
AppsDone ==
    /\ Goto("apps", "scripts")
    /\ \A e \in Doomed \cap apps : GivenUp(e)
    /\ UNCHANGED <<env, image, signalled, tree, temp, disk, cursor, clock, services,
                   history>>

\* eMMC_Upgrade.sh, aps4_reset.sh and update_www-backup.sh; results ignored.
RunScripts ==
    /\ Goto("scripts", "sync")
    /\ UNCHANGED <<env, image, signalled, tree, temp, disk, cursor, clock, services,
                   history>>

-----------------------------------------------------------------------------
(***************************************************************************)
(* sync_logs_from_temp.                                                    *)
(***************************************************************************)
SyncEnabled == "persistent" \in env /\ "killSwitch" \notin env
SyncNeeded  == SyncEnabled /\ {"temp", "log"} \subseteq env /\ "same" \notin env

\* The second alternative: opendir fails.
StartSync ==
    /\ \/ SyncNeeded /\ Goto("sync", "next") /\ todo' = Files /\ NoFault
       \/ SyncNeeded /\ Goto("sync", "clock") /\ Fault /\ UNCHANGED todo
       \/ SyncEnabled /\ ~SyncNeeded /\ Goto("sync", "clock") /\ NoFault /\ UNCHANGED todo
       \/ ~SyncEnabled /\ Goto("sync", "stop") /\ NoFault /\ UNCHANGED todo
    /\ UNCHANGED <<env, image, signalled, tree, temp, disk, file, pos, flushed, copyOk,
                   clock, services, runs, mark, excused, again>>

\* Mutant: a name may end in anything.
AnySuffix(f) == f \in Files

IsSupported(f) == f \in Supported

\* readdir returns f, which is copied if its name is supported and both files
\* open; otherwise the loop goes on.
ReadDir(f) ==
    /\ pc = "next" /\ f \in todo
    /\ todo' = todo \ {f}
    /\ \/ /\ IsSupported(f)
          /\ pc' = "copy" /\ file' = f /\ copyOk' = TRUE
          /\ pos' = cut[f] /\ flushed' = cut[f]
          /\ NoFault
       \/ IsSupported(f) /\ Fault /\ UNCHANGED <<pc, file, pos, flushed, copyOk>>
       \/ ~IsSupported(f) /\ NoFault /\ UNCHANGED <<pc, file, pos, flushed, copyOk>>
    /\ UNCHANGED <<env, image, signalled, tree, temp, disk, clock, services, runs, mark,
                   excused, again>>

EndOfDir ==
    /\ Goto("next", "clock") /\ todo = {}
    /\ UNCHANGED <<env, image, signalled, tree, temp, disk, cursor, clock, services,
                   history>>

\* Lines a + 1 .. b of the file reach the log.
Reach(a, b) ==
    copies' = [copies EXCEPT ![file] =
                 [n \in Lines |-> IF n \in a + 1 .. b THEN @[n] + 1 ELSE @[n]]]

\* fread returns a chunk and fwrite takes it; the stream's buffer may overflow
\* into the log.
CopyChunk(p, k) ==
    /\ pc = "copy" /\ pos < p /\ p <= written[file] /\ flushed <= k /\ k <= p
    /\ pos' = p /\ flushed' = k /\ Reach(flushed, k)
    /\ UNCHANGED <<env, image, pc, signalled, tree, temp, durable, todo, file, copyOk,
                   clock, services, history>>

\* fwrite takes less than the chunk.
WriteFails(p, k) ==
    /\ Goto("copy", "close") /\ pos < p /\ p <= written[file] /\ flushed <= k /\ k < p
    /\ copyOk' = FALSE
    /\ pos' = k /\ flushed' = k /\ Reach(flushed, k)
    /\ again' = Add(again, file, cut[file] + 1 .. k)
    /\ Fault
    /\ UNCHANGED <<env, image, signalled, tree, temp, durable, todo, file, clock,
                   services, runs, mark, excused>>

\* fread returns 0: at the end of the file, or for an error that is not told
\* from it.
EndOfFile ==
    /\ Goto("copy", "close")
    /\ \/ pos = written[file] /\ NoFault /\ UNCHANGED excused
       \/ /\ pos < written[file] /\ Fault
          /\ excused' = Add(excused, file, pos + 1 .. written[file])
    /\ UNCHANGED <<env, image, signalled, tree, temp, disk, cursor, clock, services, runs,
                   mark, again>>

\* Mutant: the source is truncated whatever became of the copy.
TruncatesAnyway == "truncate"

\* if (!copy_ok) continue.
AfterClose == IF copyOk THEN "truncate" ELSE "next"

\* fclose writes what is left in the buffer, up to k; its result is not read.
CloseLog(k) ==
    /\ Goto("close", AfterClose)
    /\ flushed <= k /\ k <= pos
    /\ flushed' = k /\ Reach(flushed, k)
    /\ \/ k = pos /\ NoFault /\ UNCHANGED excused
       \/ /\ k < pos /\ Fault
          /\ excused' = IF copyOk THEN Add(excused, file, k + 1 .. pos) ELSE excused
    /\ UNCHANGED <<env, image, signalled, tree, temp, durable, todo, file, pos, copyOk,
                   clock, services, runs, mark, again>>

\* Mutant: the file is left as it is.
NoTruncate ==
    /\ Goto("truncate", "next")
    /\ UNCHANGED <<env, image, signalled, tree, temp, disk, cursor, clock, services,
                   history>>

\* fopen of the source with "w"; a failure is ignored.
Truncate ==
    /\ Goto("truncate", "next")
    /\ \/ /\ cut' = [cut EXCEPT ![file] = written[file]]
          /\ NoFault /\ UNCHANGED again
       \/ /\ again' = Add(again, file, cut[file] + 1 .. flushed)
          /\ Fault /\ UNCHANGED cut
    /\ UNCHANGED <<env, image, signalled, tree, written, disk, cursor, clock, services,
                   runs, mark, excused>>

-----------------------------------------------------------------------------
(***************************************************************************)
(* The clock, the services, sync and the reboot.                           *)
(***************************************************************************)
\* Both files are opened before either result is looked at: the destination
\* may be truncated for a source that does not open.
OpenClock ==
    /\ \/ /\ {"temp", "systime"} \subseteq env
          /\ \/ Goto("clock", "clockWrite") /\ clock' = Torn /\ NoFault
             \/ Goto("clock", "stop") /\ clock' \in {Torn, clock} /\ Fault
       \/ /\ ~({"temp", "systime"} \subseteq env)
          /\ Goto("clock", "stop") /\ NoFault /\ UNCHANGED clock
    /\ UNCHANGED <<env, image, signalled, tree, temp, disk, cursor, services, runs, mark,
                   excused, again>>

WriteClock ==
    /\ Goto("clockWrite", "stop")
    /\ \/ clock' = Now /\ NoFault
       \/ UNCHANGED clock /\ Fault
    /\ UNCHANGED <<env, image, signalled, tree, temp, disk, cursor, services, runs, mark,
                   excused, again>>

\* Mutant: the loop ends one service early.
LastButOne == Len(Services) - 1

LastService == Len(Services)

StopService ==
    /\ pc = "stop" /\ "bluetooth" \in env /\ svc <= LastService
    /\ svc' = svc + 1
    /\ \/ active' = active \ {Services[svc]} /\ NoFault
       \/ Services[svc] \in active /\ UNCHANGED active /\ Fault
    /\ UNCHANGED <<env, image, pc, signalled, tree, temp, disk, cursor, clock, runs, mark,
                   excused, again>>

ServicesDone ==
    /\ Goto("stop", "flush")
    /\ "bluetooth" \notin env \/ svc > LastService
    /\ UNCHANGED <<env, image, signalled, tree, temp, disk, cursor, clock, services,
                   history>>

\* Mutant: no sync().
NoSync ==
    /\ Goto("flush", "reboot")
    /\ UNCHANGED <<env, image, signalled, tree, temp, disk, cursor, clock, services,
                   history>>

\* sync(), the last thing cleanup_services does.
Sync ==
    /\ Goto("flush", "reboot")
    /\ durable' = [f \in Files |-> {n \in Lines : copies[f][n] > 0}]
    /\ UNCHANGED <<env, image, signalled, tree, temp, copies, cursor, clock, services,
                   history>>

\* The device goes down: what is in memory is gone, and so are the lines of the
\* log that have not reached the disk.
GoDown ==
    /\ pc' = "idle"
    /\ copies' = [f \in Files |-> [n \in Lines |-> IF n \in durable[f] THEN copies[f][n] ELSE 0]]
    /\ cut' = written
    /\ excused' = [f \in Files |-> 1 .. written[f]]
    /\ clock' = IF clock = Now THEN Old ELSE clock
    /\ active' = All(1) /\ svc' = 1 /\ signalled' = {}
    /\ UNCHANGED <<env, image, tree, written, durable, cursor, runs, mark, again>>

Reboot == pc = "reboot" /\ GoDown /\ NoFault

\* reboot_main.c: none of the ways to reboot works, and the program returns.
RebootFails ==
    /\ Goto("reboot", "idle")
    /\ UNCHANGED <<env, image, signalled, tree, temp, disk, cursor, clock, services,
                   history>>

-----------------------------------------------------------------------------
(***************************************************************************)
(* Everybody else.                                                         *)
(***************************************************************************)
\* Some process adds a line to a log.  A line that comes after the end of the
\* file was seen, and before the truncation, may be lost.
WriteLine(f) ==
    /\ written[f] < MaxLines
    /\ written' = [written EXCEPT ![f] = @ + 1]
    /\ excused' = IF pc \in {"close", "truncate"} /\ copyOk /\ file = f
                    THEN Add(excused, f, {written[f] + 1}) ELSE excused
    /\ UNCHANGED <<env, image, pc, signalled, tree, cut, disk, cursor, clock, services,
                   faults, runs, intact, mark, again>>

\* rebootnow is killed; what is in the stream's buffer is gone.
Die ==
    /\ pc \notin {"idle", "reboot"} /\ pc' = "idle"
    /\ again' = IF pc \in Copying THEN Add(again, file, cut[file] + 1 .. flushed)
                                  ELSE again
    /\ Fault
    /\ UNCHANGED <<env, image, signalled, tree, temp, disk, cursor, clock, services, runs,
                   mark, excused>>

PowerLoss == pc # "idle" /\ GoDown /\ Fault

CopyFile ==
    \/ \E p \in Lines, k \in 0 .. MaxLines : CopyChunk(p, k) \/ WriteFails(p, k)
    \/ EndOfFile
    \/ \E k \in 0 .. MaxLines : CloseLog(k)
    \/ Truncate

Next ==
    \/ Call \/ SignalServices
    \/ CheckImage \/ AppsDone \/ RunScripts
    \/ \E e \in Entries : RemoveEntry(e) \/ OpenDirFails(e)
    \/ StartSync \/ EndOfDir \/ CopyFile
    \/ \E f \in Files : ReadDir(f) \/ WriteLine(f)
    \/ OpenClock \/ WriteClock \/ StopService \/ ServicesDone
    \/ Sync \/ Reboot \/ RebootFails \/ Die \/ PowerLoss

Spec == Init /\ [][Next]_vars

-----------------------------------------------------------------------------
(***************************************************************************)
(* Properties.                                                             *)
(***************************************************************************)
\* A line that has left the temporary log is in the log on disk: a source file
\* is truncated only when all that was read from it has been written, whatever
\* fails on the way.  The windows that remain are lines written between the end
\* of the file and the truncation, an error of fread or of fclose, neither of
\* which the code looks at, and the device going down.
LinesKept ==
    \A f \in Files : \A n \in Lines :
        n <= cut[f] => copies[f][n] > 0 \/ n \in excused[f]

\* A line is twice in the log only if its copy was interrupted or the source
\* could not be truncated: a second request after a reboot that did not come
\* does not repeat the logs.
CopiedOnce ==
    \A f \in Files : \A n \in Lines : copies[f][n] > 1 => n \in again[f]

\* When cleanup_services returns and nothing failed in it, the lines that were
\* in the supported logs when it was called are on the disk, not just in cache.
SyncedBeforeReboot ==
    pc = "reboot" /\ intact /\ SyncNeeded =>
        \A f \in Supported : \A n \in 1 .. mark[f] : n \in durable[f] \cup excused[f]

\* When nothing failed, the RDM applications are gone exactly if the image was
\* upgraded, in the sense of the script the program replaces; what lies beside
\* the application directories stays in any case.  (A name file that ends in a
\* newline is compared with it: see the README.)
AppsFollowImage ==
    /\ Top \ Dirs \subseteq apps
    /\ pc = "reboot" /\ runs = 1 /\ intact /\ ImageKnown /\ ~EndsInNewLine(image.running) =>
         IF UpgradedInScript THEN Doomed \cap apps = {} ELSE apps = Entries

\* When nothing failed, the device goes down with the clock saved and with all
\* services stopped, and syslog-ng never stops before the others have.
ReadyToReboot ==
    /\ pc = "reboot" /\ intact =>
         /\ "bluetooth" \in env => active = {}
         /\ SyncEnabled /\ {"temp", "systime"} \subseteq env => clock = Now
    /\ faults = 0 /\ active # {} => Services[Len(Services)] \in active
=============================================================================
