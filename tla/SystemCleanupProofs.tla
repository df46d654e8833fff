------------------------- MODULE SystemCleanupProofs -------------------------
(***************************************************************************)
(* Proofs about SystemCleanup, for any files, lines, applications and      *)
(* services, any number of faults and any number of runs.                  *)
(***************************************************************************)
EXTENDS SystemCleanup, SequenceTheorems, TLAPS

(***************************************************************************)
(* The inductive invariants.                                               *)
(***************************************************************************)

\* The steps between the signals and the loop over the services, and those
\* after the logs and the clock.
BeforeStop == {"signal", "image", "apps", "scripts", "sync", "next", "clock",
               "clockWrite"} \cup Copying
Synced     == {"clock", "clockWrite", "stop", "flush"}

\* While a file is copied, the lines that have left the stream's buffer are in
\* the log; once its end was seen, every later line is excused; once the log is
\* closed, so is what did not leave the buffer.  The source is truncated only
\* if no write failed.
ReachedInv ==
    pc \in Copying =>
        \A n \in Lines : cut[file] < n /\ n <= flushed => copies[file][n] > 0

EndSeenInv ==
    pc \in {"close", "truncate"} /\ copyOk =>
        \A n \in Lines : pos < n /\ n <= written[file] => n \in excused[file]

ClosedInv ==
    pc = "truncate" =>
        \A n \in Lines : flushed < n /\ n <= pos => n \in excused[file]

CopyOkInv == pc \in {"copy", "truncate"} => copyOk

KeptInv == ReachedInv /\ EndSeenInv /\ ClosedInv /\ CopyOkInv /\ LinesKept

\* Line n of file f has left the buffer of the copy that is being made.
InCopy(f, n) == pc \in Copying /\ file = f /\ n <= flushed

\* A line that is still in the temporary file is in the log only if it belongs
\* to the copy being made, or may be copied once more.
PendingInv ==
    \A f \in Files : \A n \in Lines :
        cut[f] < n /\ copies[f][n] > 0 => InCopy(f, n) \/ n \in again[f]

\* A failed write ends the copy, and its lines may be copied once more.
FailedInv ==
    pc \in Copying /\ ~copyOk =>
        /\ pos = flushed
        /\ \A n \in Lines : cut[file] < n /\ n <= flushed => n \in again[file]

OnceInv == PendingInv /\ FailedInv /\ CopiedOnce

\* While nothing has failed, the lines there were at the call have left the
\* temporary file of every supported name that readdir has gone through.
MarkInv == \A f \in Files : mark[f] <= written[f]

MovedInv ==
    intact =>
        /\ pc \in Copying => copyOk
        /\ SyncNeeded /\ pc \in {"next"} \cup Copying =>
             \A f \in Supported :
                 mark[f] <= cut[f] \/ f \in todo \/ (pc \in Copying /\ file = f)
        /\ SyncNeeded /\ pc \in Synced => \A f \in Supported : mark[f] <= cut[f]

SyncInv == MarkInv /\ MovedInv /\ SyncedBeforeReboot

\* The applications of a first run in which nothing has failed: all there up to
\* the comparison of the images, and afterwards as its result wants them.
ImageTypes ==
    image \in [flashed : Images \cup {NoImage}, running : Images \cup {NoImage}]

BesideInv == Top \ Dirs \subseteq apps

TriedInv ==
    /\ runs = 0 => pc = "idle" /\ apps = Entries
    /\ runs = 1 /\ intact =>
         /\ pc \in {"signal", "image"} => apps = Entries /\ stuck = {}
         /\ pc = "apps" => Upgraded /\ stuck = {}
         /\ pc \in {"scripts", "sync", "next", "reboot"} \cup Copying \cup Synced =>
              IF Upgraded THEN Doomed \cap apps = {} ELSE apps = Entries

AppsInv == ImageTypes /\ BesideInv /\ TriedInv

\* The services that run are those that the loop has not come to.
LoopInv ==
    /\ svc >= 1 /\ active \subseteq All(1)
    /\ pc \in BeforeStop => svc = 1
    /\ pc = "stop" /\ "bluetooth" \notin env => svc = 1
    /\ intact /\ "bluetooth" \in env =>
         /\ pc = "stop" => active \subseteq All(svc)
         /\ pc \in {"flush", "reboot"} => active = {}

OrderInv ==
    faults = 0 /\ active # {} => active = All(svc) /\ (pc # "stop" => svc = 1)

\* The clock is saved once it has been written.
ClockInv ==
    intact /\ SyncEnabled /\ {"temp", "systime"} \subseteq env /\
      pc \in {"stop", "flush", "reboot"} => clock = Now

ReadyInv == LoopInv /\ OrderInv /\ ClockInv

-----------------------------------------------------------------------------
(***************************************************************************)
(* Type correctness.                                                       *)
(***************************************************************************)

\* What a window of the code may lose or repeat stays a set of lines per file.
LEMMA AddTyped ==
    ASSUME NEW h \in [Files -> SUBSET Lines], NEW f \in Files, NEW lines \in SUBSET Lines
    PROVE  Add(h, f, lines) \in [Files -> SUBSET Lines]
BY DEF Add

\* Every step of cleanup_services, of those who write logs and of the power
\* supply keeps the variables in their types; in particular the copy stays
\* within the temporary file, which grows meanwhile.
LEMMA TypeStep ==
    TypeOK /\ [Next]_vars => TypeOK'
<1> SUFFICES ASSUME TypeOK, [Next]_vars PROVE TypeOK'
  OBVIOUS
<1> USE FilesAssumption, EntriesAssumption, BoundsAssumption DEF TypeOK, LogTypes,
    StreamTypes, FlagTypes, OtherTypes, HistoryTypes, Lines, States, Copying,
    None, Torn, Old, Now, tree, temp, disk, cursor, services, history
<1>1. CASE Call
  <2>1. LogTypes'
    BY <1>1 DEF Call, Goto
  <2>2. StreamTypes'
    BY <1>1 DEF Call, Goto
  <2>3. OtherTypes'
    BY <1>1 DEF Call, Goto
  <2>4. HistoryTypes'
    BY <1>1 DEF Call, Goto
  <2>5. FlagTypes'
    BY <1>1 DEF Call, Goto
  <2> QED BY <2>1, <2>2, <2>3, <2>4, <2>5 DEF TypeOK
<1>2. CASE SignalServices
  <2>1. LogTypes'
    BY <1>2 DEF SignalServices, Goto, NoFault, Fault
  <2>2. StreamTypes'
    BY <1>2 DEF SignalServices, Goto, NoFault, Fault
  <2>3. OtherTypes'
    BY <1>2 DEF SignalServices, Goto, NoFault, Fault
  <2>4. HistoryTypes'
    BY <1>2 DEF SignalServices, Goto, NoFault, Fault
  <2>5. FlagTypes'
    BY <1>2 DEF SignalServices, Goto, NoFault, Fault
  <2> QED BY <2>1, <2>2, <2>3, <2>4, <2>5 DEF TypeOK
<1>3. CASE CheckImage
  <2>1. LogTypes'
    BY <1>3 DEF CheckImage, Goto, NoFault, Fault
  <2>2. StreamTypes'
    BY <1>3 DEF CheckImage, Goto, NoFault, Fault
  <2>3. OtherTypes'
    BY <1>3 DEF CheckImage, Goto, NoFault, Fault
  <2>4. HistoryTypes'
    BY <1>3 DEF CheckImage, Goto, NoFault, Fault
  <2>5. FlagTypes'
    BY <1>3 DEF CheckImage, Goto, NoFault, Fault
  <2> QED BY <2>1, <2>2, <2>3, <2>4, <2>5 DEF TypeOK
<1>4. CASE AppsDone
  <2>1. LogTypes'
    BY <1>4 DEF AppsDone, Goto
  <2>2. StreamTypes'
    BY <1>4 DEF AppsDone, Goto
  <2>3. OtherTypes'
    BY <1>4 DEF AppsDone, Goto
  <2>4. HistoryTypes'
    BY <1>4 DEF AppsDone, Goto
  <2>5. FlagTypes'
    BY <1>4 DEF AppsDone, Goto
  <2> QED BY <2>1, <2>2, <2>3, <2>4, <2>5 DEF TypeOK
<1>5. CASE RunScripts
  <2>1. LogTypes'
    BY <1>5 DEF RunScripts, Goto
  <2>2. StreamTypes'
    BY <1>5 DEF RunScripts, Goto
  <2>3. OtherTypes'
    BY <1>5 DEF RunScripts, Goto
  <2>4. HistoryTypes'
    BY <1>5 DEF RunScripts, Goto
  <2>5. FlagTypes'
    BY <1>5 DEF RunScripts, Goto
  <2> QED BY <2>1, <2>2, <2>3, <2>4, <2>5 DEF TypeOK
<1>6. ASSUME NEW e \in Entries, RemoveEntry(e) PROVE TypeOK'
  <2>1. LogTypes'
    BY <1>6 DEF RemoveEntry, NoFault, Fault
  <2>2. StreamTypes'
    BY <1>6 DEF RemoveEntry, NoFault, Fault
  <2>3. OtherTypes'
    BY <1>6 DEF RemoveEntry, NoFault, Fault
  <2>4. HistoryTypes'
    BY <1>6 DEF RemoveEntry, NoFault, Fault
  <2>5. FlagTypes'
    BY <1>6 DEF RemoveEntry, NoFault, Fault
  <2> QED BY <2>1, <2>2, <2>3, <2>4, <2>5 DEF TypeOK
<1>7. ASSUME NEW e \in Entries, OpenDirFails(e) PROVE TypeOK'
  <2>1. LogTypes'
    BY <1>7 DEF OpenDirFails, NoFault, Fault
  <2>2. StreamTypes'
    BY <1>7 DEF OpenDirFails, NoFault, Fault
  <2>3. OtherTypes'
    BY <1>7 DEF OpenDirFails, NoFault, Fault
  <2>4. HistoryTypes'
    BY <1>7 DEF OpenDirFails, NoFault, Fault
  <2>5. FlagTypes'
    BY <1>7 DEF OpenDirFails, NoFault, Fault
  <2> QED BY <2>1, <2>2, <2>3, <2>4, <2>5 DEF TypeOK
<1>8. CASE StartSync
  <2>1. LogTypes'
    BY <1>8 DEF StartSync, Goto, NoFault, Fault
  <2>2. StreamTypes'
    BY <1>8 DEF StartSync, Goto, NoFault, Fault
  <2>3. OtherTypes'
    BY <1>8 DEF StartSync, Goto, NoFault, Fault
  <2>4. HistoryTypes'
    BY <1>8 DEF StartSync, Goto, NoFault, Fault
  <2>5. FlagTypes'
    BY <1>8 DEF StartSync, Goto, NoFault, Fault
  <2> QED BY <2>1, <2>2, <2>3, <2>4, <2>5 DEF TypeOK
<1>9. CASE EndOfDir
  <2>1. LogTypes'
    BY <1>9 DEF EndOfDir, Goto
  <2>2. StreamTypes'
    BY <1>9 DEF EndOfDir, Goto
  <2>3. OtherTypes'
    BY <1>9 DEF EndOfDir, Goto
  <2>4. HistoryTypes'
    BY <1>9 DEF EndOfDir, Goto
  <2>5. FlagTypes'
    BY <1>9 DEF EndOfDir, Goto
  <2> QED BY <2>1, <2>2, <2>3, <2>4, <2>5 DEF TypeOK
<1>10. ASSUME NEW p \in Lines, NEW k \in 0 .. MaxLines, CopyChunk(p, k) PROVE
    TypeOK'
  <2>1. LogTypes'
    BY <1>10 DEF CopyChunk, Reach
  <2>2. StreamTypes'
    BY <1>10 DEF CopyChunk, Reach
  <2>3. OtherTypes'
    BY <1>10 DEF CopyChunk, Reach
  <2>4. HistoryTypes'
    BY <1>10 DEF CopyChunk, Reach
  <2>5. FlagTypes'
    BY <1>10 DEF CopyChunk, Reach
  <2> QED BY <2>1, <2>2, <2>3, <2>4, <2>5 DEF TypeOK
<1>11. ASSUME NEW p \in Lines, NEW k \in 0 .. MaxLines, WriteFails(p, k) PROVE
    TypeOK'
  <2>1. LogTypes'
    BY <1>11 DEF WriteFails, Goto, Reach, Add, Fault
  <2>2. StreamTypes'
    BY <1>11 DEF WriteFails, Goto, Reach, Add, Fault
  <2>3. OtherTypes'
    BY <1>11 DEF WriteFails, Goto, Reach, Add, Fault
  <2>4. HistoryTypes'
    BY <1>11 DEF WriteFails, Goto, Reach, Add, Fault
  <2>5. FlagTypes'
    BY <1>11 DEF WriteFails, Goto, Reach, Add, Fault
  <2> QED BY <2>1, <2>2, <2>3, <2>4, <2>5 DEF TypeOK
<1>12. CASE EndOfFile
  <2>1. LogTypes'
    BY <1>12 DEF EndOfFile, Goto, Add, NoFault, Fault
  <2>2. StreamTypes'
    BY <1>12 DEF EndOfFile, Goto, Add, NoFault, Fault
  <2>3. OtherTypes'
    BY <1>12 DEF EndOfFile, Goto, Add, NoFault, Fault
  <2>4. HistoryTypes'
    <3>1. file \in Files /\ pos + 1 .. written[file] \subseteq Lines
      BY <1>12 DEF EndOfFile, Goto
    <3>2. Add(excused, file, pos + 1 .. written[file]) \in [Files -> SUBSET Lines]
      BY <3>1, AddTyped
    <3>3. excused' = excused \/ excused' = Add(excused, file, pos + 1 .. written[file])
      BY <1>12 DEF EndOfFile
    <3>4. excused' \in [Files -> SUBSET Lines]
      BY <3>2, <3>3
    <3>5. UNCHANGED <<runs, mark, again>> /\ faults' \in 0..MaxFaults
      BY <1>12 DEF EndOfFile, NoFault, Fault
    <3> QED BY <3>4, <3>5
  <2>5. FlagTypes'
    BY <1>12 DEF EndOfFile, Goto, Add, NoFault, Fault
  <2> QED BY <2>1, <2>2, <2>3, <2>4, <2>5 DEF TypeOK
<1>13. ASSUME NEW k \in 0 .. MaxLines, CloseLog(k) PROVE TypeOK'
  <2>1. LogTypes'
    BY <1>13 DEF CloseLog, Goto, AfterClose, Reach, Add, NoFault, Fault
  <2>2. StreamTypes'
    BY <1>13 DEF CloseLog, Goto, AfterClose, Reach, Add, NoFault, Fault
  <2>3. OtherTypes'
    BY <1>13 DEF CloseLog, Goto, AfterClose, Reach, Add, NoFault, Fault
  <2>4. HistoryTypes'
    <3>1. file \in Files /\ k + 1 .. pos \subseteq Lines
      BY <1>13 DEF CloseLog, Goto
    <3>2. Add(excused, file, k + 1 .. pos) \in [Files -> SUBSET Lines]
      BY <3>1, AddTyped
    <3>3. excused' = excused \/ excused' = Add(excused, file, k + 1 .. pos)
      BY <1>13 DEF CloseLog
    <3>4. excused' \in [Files -> SUBSET Lines]
      BY <3>2, <3>3
    <3>5. UNCHANGED <<runs, mark, again>> /\ faults' \in 0..MaxFaults
      BY <1>13 DEF CloseLog, NoFault, Fault
    <3> QED BY <3>4, <3>5
  <2>5. FlagTypes'
    BY <1>13 DEF CloseLog, Goto, AfterClose, Reach, Add, NoFault, Fault
  <2> QED BY <2>1, <2>2, <2>3, <2>4, <2>5 DEF TypeOK
<1>14. CASE Truncate
  <2>1. LogTypes'
    <3>1. file \in Files /\ UNCHANGED <<written, disk>>
      BY <1>14 DEF Truncate, Goto
    <3>2. CASE UNCHANGED cut
      BY <3>1, <3>2
    <3>3. CASE cut' = [cut EXCEPT ![file] = written[file]]
      BY <3>1, <3>3
    <3> QED BY <1>14, <3>2, <3>3 DEF Truncate
  <2>2. StreamTypes'
    BY <1>14 DEF Truncate, Goto, Add, NoFault, Fault
  <2>3. OtherTypes'
    BY <1>14 DEF Truncate, Goto, Add, NoFault, Fault
  <2>4. HistoryTypes'
    <3>1. file \in Files /\ cut[file] + 1 .. flushed \subseteq Lines
      BY <1>14 DEF Truncate, Goto
    <3>2. Add(again, file, cut[file] + 1 .. flushed) \in [Files -> SUBSET Lines]
      BY <3>1, AddTyped
    <3>3. again' = again \/ again' = Add(again, file, cut[file] + 1 .. flushed)
      BY <1>14 DEF Truncate
    <3> QED BY <1>14, <3>2, <3>3 DEF Truncate, NoFault, Fault
  <2>5. FlagTypes'
    BY <1>14 DEF Truncate, Goto, Add, NoFault, Fault
  <2> QED BY <2>1, <2>2, <2>3, <2>4, <2>5 DEF TypeOK
<1>15. ASSUME NEW f \in Files, ReadDir(f) PROVE TypeOK'
  <2>1. LogTypes'
    BY <1>15 DEF ReadDir, IsSupported, NoFault, Fault
  <2>2. StreamTypes'
    BY <1>15 DEF ReadDir, IsSupported, NoFault, Fault
  <2>3. OtherTypes'
    BY <1>15 DEF ReadDir, IsSupported, NoFault, Fault
  <2>4. HistoryTypes'
    BY <1>15 DEF ReadDir, IsSupported, NoFault, Fault
  <2>5. FlagTypes'
    BY <1>15 DEF ReadDir, IsSupported, NoFault, Fault
  <2> QED BY <2>1, <2>2, <2>3, <2>4, <2>5 DEF TypeOK
<1>16. ASSUME NEW f \in Files, WriteLine(f) PROVE TypeOK'
  <2>1. LogTypes'
    <3>1. written' \in [Files -> 0..MaxLines]
      <4>1. written[f] + 1 \in 0..MaxLines
        BY <1>16 DEF WriteLine
      <4> QED BY <1>16, <4>1 DEF WriteLine
    <3>2. \A g \in Files : cut[g] <= written'[g]
      BY <1>16 DEF WriteLine
    <3> QED BY <1>16, <3>1, <3>2 DEF WriteLine
  <2>2. StreamTypes'
    BY <1>16 DEF WriteLine, Add
  <2>3. OtherTypes'
    BY <1>16 DEF WriteLine, Add
  <2>4. HistoryTypes'
    <3>1. {written[f] + 1} \subseteq Lines
      BY <1>16 DEF WriteLine
    <3>2. excused' \in [Files -> SUBSET Lines]
      BY <1>16, <3>1, AddTyped DEF WriteLine
    <3> QED BY <1>16, <3>2 DEF WriteLine
  <2>5. FlagTypes'
    BY <1>16 DEF WriteLine, Add
  <2> QED BY <2>1, <2>2, <2>3, <2>4, <2>5 DEF TypeOK
<1>17. CASE OpenClock
  <2>1. LogTypes'
    BY <1>17 DEF OpenClock, Goto, NoFault, Fault
  <2>2. StreamTypes'
    BY <1>17 DEF OpenClock, Goto, NoFault, Fault
  <2>3. OtherTypes'
    BY <1>17 DEF OpenClock, Goto, NoFault, Fault
  <2>4. HistoryTypes'
    BY <1>17 DEF OpenClock, Goto, NoFault, Fault
  <2>5. FlagTypes'
    BY <1>17 DEF OpenClock, Goto, NoFault, Fault
  <2> QED BY <2>1, <2>2, <2>3, <2>4, <2>5 DEF TypeOK
<1>18. CASE WriteClock
  <2>1. LogTypes'
    BY <1>18 DEF WriteClock, Goto, NoFault, Fault
  <2>2. StreamTypes'
    BY <1>18 DEF WriteClock, Goto, NoFault, Fault
  <2>3. OtherTypes'
    BY <1>18 DEF WriteClock, Goto, NoFault, Fault
  <2>4. HistoryTypes'
    BY <1>18 DEF WriteClock, Goto, NoFault, Fault
  <2>5. FlagTypes'
    BY <1>18 DEF WriteClock, Goto, NoFault, Fault
  <2> QED BY <2>1, <2>2, <2>3, <2>4, <2>5 DEF TypeOK
<1>19. CASE StopService
  <2>1. LogTypes'
    BY <1>19 DEF StopService, LastService, NoFault, Fault
  <2>2. StreamTypes'
    BY <1>19 DEF StopService, LastService, NoFault, Fault
  <2>3. OtherTypes'
    BY <1>19 DEF StopService, LastService, NoFault, Fault
  <2>4. HistoryTypes'
    BY <1>19 DEF StopService, LastService, NoFault, Fault
  <2>5. FlagTypes'
    BY <1>19 DEF StopService, LastService, NoFault, Fault
  <2> QED BY <2>1, <2>2, <2>3, <2>4, <2>5 DEF TypeOK
<1>20. CASE ServicesDone
  <2>1. LogTypes'
    BY <1>20 DEF ServicesDone, Goto, LastService
  <2>2. StreamTypes'
    BY <1>20 DEF ServicesDone, Goto, LastService
  <2>3. OtherTypes'
    BY <1>20 DEF ServicesDone, Goto, LastService
  <2>4. HistoryTypes'
    BY <1>20 DEF ServicesDone, Goto, LastService
  <2>5. FlagTypes'
    BY <1>20 DEF ServicesDone, Goto, LastService
  <2> QED BY <2>1, <2>2, <2>3, <2>4, <2>5 DEF TypeOK
<1>21. CASE Sync
  <2>1. LogTypes'
    BY <1>21 DEF Sync, Goto
  <2>2. StreamTypes'
    BY <1>21 DEF Sync, Goto
  <2>3. OtherTypes'
    BY <1>21 DEF Sync, Goto
  <2>4. HistoryTypes'
    BY <1>21 DEF Sync, Goto
  <2>5. FlagTypes'
    BY <1>21 DEF Sync, Goto
  <2> QED BY <2>1, <2>2, <2>3, <2>4, <2>5 DEF TypeOK
<1>22. CASE Reboot
  <2>1. LogTypes'
    BY <1>22 DEF Reboot, GoDown, NoFault
  <2>2. StreamTypes'
    BY <1>22 DEF Reboot, GoDown, NoFault
  <2>3. OtherTypes'
    BY <1>22 DEF Reboot, GoDown, NoFault
  <2>4. HistoryTypes'
    BY <1>22 DEF Reboot, GoDown, NoFault
  <2>5. FlagTypes'
    BY <1>22 DEF Reboot, GoDown, NoFault
  <2> QED BY <2>1, <2>2, <2>3, <2>4, <2>5 DEF TypeOK
<1>23. CASE RebootFails
  <2>1. LogTypes'
    BY <1>23 DEF RebootFails, Goto
  <2>2. StreamTypes'
    BY <1>23 DEF RebootFails, Goto
  <2>3. OtherTypes'
    BY <1>23 DEF RebootFails, Goto
  <2>4. HistoryTypes'
    BY <1>23 DEF RebootFails, Goto
  <2>5. FlagTypes'
    BY <1>23 DEF RebootFails, Goto
  <2> QED BY <2>1, <2>2, <2>3, <2>4, <2>5 DEF TypeOK
<1>24. CASE Die
  <2>1. LogTypes'
    BY <1>24 DEF Die, Add, Fault
  <2>2. StreamTypes'
    BY <1>24 DEF Die, Add, Fault
  <2>3. OtherTypes'
    BY <1>24 DEF Die, Add, Fault
  <2>4. HistoryTypes'
    BY <1>24 DEF Die, Add, Fault
  <2>5. FlagTypes'
    BY <1>24 DEF Die, Add, Fault
  <2> QED BY <2>1, <2>2, <2>3, <2>4, <2>5 DEF TypeOK
<1>25. CASE PowerLoss
  <2>1. LogTypes'
    BY <1>25 DEF PowerLoss, GoDown, Fault
  <2>2. StreamTypes'
    BY <1>25 DEF PowerLoss, GoDown, Fault
  <2>3. OtherTypes'
    BY <1>25 DEF PowerLoss, GoDown, Fault
  <2>4. HistoryTypes'
    BY <1>25 DEF PowerLoss, GoDown, Fault
  <2>5. FlagTypes'
    BY <1>25 DEF PowerLoss, GoDown, Fault
  <2> QED BY <2>1, <2>2, <2>3, <2>4, <2>5 DEF TypeOK
<1>26. CASE UNCHANGED vars
  <2>1. LogTypes'
    BY <1>26 DEF vars
  <2>2. StreamTypes'
    BY <1>26 DEF vars
  <2>3. OtherTypes'
    BY <1>26 DEF vars
  <2>4. HistoryTypes'
    BY <1>26 DEF vars
  <2>5. FlagTypes'
    BY <1>26 DEF vars
  <2> QED BY <2>1, <2>2, <2>3, <2>4, <2>5 DEF TypeOK
<1> QED BY <1>1, <1>2, <1>3, <1>4, <1>5, <1>6, <1>7, <1>8, <1>9, <1>10, <1>11,
    <1>12, <1>13, <1>14, <1>15, <1>16, <1>17, <1>18, <1>19, <1>20, <1>21, <1>22,
    <1>23, <1>24, <1>25, <1>26 DEF Next, CopyFile

\* The type invariant holds in every state that cleanup_services can reach: in
\* particular only supported files are copied, and the position in the source
\* and what has left the buffer stay within the file.
THEOREM TypeCorrect == Spec => []TypeOK
<1>1. Init => TypeOK
  <2> SUFFICES ASSUME Init PROVE TypeOK
    OBVIOUS
  <2>1. LogTypes
    BY BoundsAssumption DEF Init, LogTypes, Lines
  <2>2. StreamTypes
    BY BoundsAssumption DEF Init, StreamTypes, Copying
  <2>3. OtherTypes
    BY DEF Init, OtherTypes, States
  <2>4. HistoryTypes
    BY BoundsAssumption DEF Init, HistoryTypes, Lines
  <2>5. FlagTypes
    BY DEF Init, FlagTypes
  <2> QED BY <2>1, <2>2, <2>3, <2>4, <2>5 DEF TypeOK
<1> QED BY <1>1, TypeStep, PTL DEF Spec

-----------------------------------------------------------------------------
(***************************************************************************)
(* No line is lost, and none is repeated.                                  *)
(***************************************************************************)

\* The steps that have nothing to do with the copy of a file.
Elsewhere ==
    \/ Call \/ SignalServices \/ CheckImage \/ AppsDone \/ RunScripts
    \/ \E e \in Entries : RemoveEntry(e) \/ OpenDirFails(e)
    \/ StartSync \/ EndOfDir \/ OpenClock \/ WriteClock \/ StopService \/ ServicesDone
    \/ RebootFails \/ UNCHANGED vars

\* They leave the logs, the stream and what is said about the lines alone, and
\* begin and end outside the copy of a file.
CopyUntouched ==
    /\ UNCHANGED <<temp, disk, file, pos, flushed, copyOk, excused, again>>
    /\ pc' = pc \/ (pc \notin Copying /\ pc' \notin Copying)

LEMMA ElsewhereKeeps == Elsewhere => CopyUntouched
<1> USE DEF CopyUntouched, Copying, tree, temp, disk, cursor, services, history
<1>1. Call => CopyUntouched
  BY DEF Call, Goto
<1>2. SignalServices => CopyUntouched
  BY DEF SignalServices, Goto
<1>3. CheckImage => CopyUntouched
  BY DEF CheckImage, Goto
<1>4. AppsDone => CopyUntouched
  BY DEF AppsDone, Goto
<1>5. RunScripts => CopyUntouched
  BY DEF RunScripts, Goto
<1>6. ASSUME NEW e \in Entries, RemoveEntry(e) PROVE CopyUntouched
  BY <1>6 DEF RemoveEntry
<1>7. ASSUME NEW e \in Entries, OpenDirFails(e) PROVE CopyUntouched
  BY <1>7 DEF OpenDirFails
<1>8. StartSync => CopyUntouched
  BY DEF StartSync, Goto
<1>9. EndOfDir => CopyUntouched
  BY DEF EndOfDir, Goto
<1>10. OpenClock => CopyUntouched
  BY DEF OpenClock, Goto
<1>11. WriteClock => CopyUntouched
  BY DEF WriteClock, Goto
<1>12. StopService => CopyUntouched
  BY DEF StopService, LastService
<1>13. ServicesDone => CopyUntouched
  BY DEF ServicesDone, Goto, LastService
<1>14. RebootFails => CopyUntouched
  BY DEF RebootFails, Goto
<1>15. UNCHANGED vars => CopyUntouched
  BY DEF vars
<1> QED BY <1>1, <1>2, <1>3, <1>4, <1>5, <1>6, <1>7, <1>8, <1>9, <1>10, <1>11,
    <1>12, <1>13, <1>14, <1>15 DEF Elsewhere

\* Marking lines of one file takes nothing back.
LEMMA AddKeeps ==
    ASSUME NEW h \in [Files -> SUBSET Lines], NEW f \in Files, NEW lines \in SUBSET Lines
    PROVE  /\ \A g \in Files : h[g] \subseteq Add(h, f, lines)[g]
           /\ lines \subseteq Add(h, f, lines)[f]
BY DEF Add

\* The lines that leave the buffer are once more in the log, no other line is.
LEMMA ReachCounts ==
    ASSUME LogTypes, file \in Files, flushed \in Nat, NEW k \in Nat, Reach(flushed, k)
    PROVE  /\ \A g \in Files, n \in Lines : copies[g][n] \in Nat
           /\ \A n \in Lines :
                flushed < n /\ n <= k => copies'[file][n] = copies[file][n] + 1
           /\ \A g \in Files, n \in Lines :
                ~(g = file /\ flushed < n /\ n <= k) => copies'[g][n] = copies[g][n]
<1> USE BoundsAssumption DEF LogTypes, Reach, Lines
<1>1. \A g \in Files, n \in Lines : copies[g][n] \in Nat
  OBVIOUS
<1>2. ASSUME NEW n \in Lines, flushed < n, n <= k
      PROVE  copies'[file][n] = copies[file][n] + 1
  <2>1. n \in flushed + 1 .. k
    BY <1>2
  <2> QED BY <2>1
<1>3. ASSUME NEW g \in Files, NEW n \in Lines, ~(g = file /\ flushed < n /\ n <= k)
      PROVE  copies'[g][n] = copies[g][n]
  <2>1. CASE g # file
    BY <2>1
  <2>2. CASE n \notin flushed + 1 .. k
    BY <2>2
  <2> QED BY <1>3, <2>1, <2>2
<1> QED BY <1>1, <1>2, <1>3

\* What has left the buffer is in the log.
LEMMA ReachedStep ==
    TypeOK /\ ReachedInv /\ [Next]_vars => ReachedInv'
<1> SUFFICES ASSUME TypeOK, ReachedInv, [Next]_vars PROVE ReachedInv'
  OBVIOUS
<1> USE FilesAssumption, BoundsAssumption DEF ReachedInv, TypeOK, LogTypes,
    StreamTypes, HistoryTypes, Lines, Copying, tree, temp, disk, cursor, services,
    history
<1>1. ASSUME NEW p \in Lines, NEW k \in 0 .. MaxLines, CopyChunk(p, k) PROVE
    ReachedInv'
  BY <1>1 DEF CopyChunk, Reach
<1>2. ASSUME NEW p \in Lines, NEW k \in 0 .. MaxLines, WriteFails(p, k) PROVE
    ReachedInv'
  BY <1>2 DEF WriteFails, Goto, Reach, Add, Fault
<1>3. CASE EndOfFile
  BY <1>3 DEF EndOfFile, Goto, Add, NoFault, Fault
<1>4. ASSUME NEW k \in 0 .. MaxLines, CloseLog(k) PROVE ReachedInv'
  BY <1>4 DEF CloseLog, Goto, AfterClose, Reach, Add, NoFault, Fault
<1>5. CASE Truncate
  BY <1>5 DEF Truncate, Goto, Add, NoFault, Fault
<1>6. ASSUME NEW f \in Files, ReadDir(f) PROVE ReachedInv'
  BY <1>6 DEF ReadDir, IsSupported, NoFault, Fault
<1>7. ASSUME NEW f \in Files, WriteLine(f) PROVE ReachedInv'
  BY <1>7 DEF WriteLine, Add
<1>8. CASE Sync
  BY <1>8 DEF Sync, Goto
<1>9. CASE Reboot
  BY <1>9 DEF Reboot, GoDown, NoFault
<1>10. CASE Die
  BY <1>10 DEF Die, Add, Fault
<1>11. CASE PowerLoss
  BY <1>11 DEF PowerLoss, GoDown, Fault
<1>12. CASE Elsewhere
  BY <1>12, ElsewhereKeeps DEF CopyUntouched
<1> QED BY <1>1, <1>2, <1>3, <1>4, <1>5, <1>6, <1>7, <1>8, <1>9, <1>10, <1>11,
    <1>12 DEF Next, CopyFile, Elsewhere

\* No step of the copy goes on after a failed write.
LEMMA CopyOkStep ==
    TypeOK /\ CopyOkInv /\ [Next]_vars => CopyOkInv'
<1> SUFFICES ASSUME TypeOK, CopyOkInv, [Next]_vars PROVE CopyOkInv'
  OBVIOUS
<1> USE DEF CopyOkInv, TypeOK, LogTypes, StreamTypes, HistoryTypes, Lines,
    Copying, tree, temp, disk, cursor, services, history
<1>1. ASSUME NEW p \in Lines, NEW k \in 0 .. MaxLines, CopyChunk(p, k) PROVE
    CopyOkInv'
  BY <1>1 DEF CopyChunk, Reach
<1>2. ASSUME NEW p \in Lines, NEW k \in 0 .. MaxLines, WriteFails(p, k) PROVE
    CopyOkInv'
  BY <1>2 DEF WriteFails, Goto, Reach, Add, Fault
<1>3. CASE EndOfFile
  BY <1>3 DEF EndOfFile, Goto, Add, NoFault, Fault
<1>4. ASSUME NEW k \in 0 .. MaxLines, CloseLog(k) PROVE CopyOkInv'
  BY <1>4 DEF CloseLog, Goto, AfterClose, Reach, Add, NoFault, Fault
<1>5. CASE Truncate
  BY <1>5 DEF Truncate, Goto, Add, NoFault, Fault
<1>6. ASSUME NEW f \in Files, ReadDir(f) PROVE CopyOkInv'
  BY <1>6 DEF ReadDir, IsSupported, NoFault, Fault
<1>7. ASSUME NEW f \in Files, WriteLine(f) PROVE CopyOkInv'
  BY <1>7 DEF WriteLine, Add
<1>8. CASE Sync
  BY <1>8 DEF Sync, Goto
<1>9. CASE Reboot
  BY <1>9 DEF Reboot, GoDown, NoFault
<1>10. CASE Die
  BY <1>10 DEF Die, Add, Fault
<1>11. CASE PowerLoss
  BY <1>11 DEF PowerLoss, GoDown, Fault
<1>12. CASE Elsewhere
  BY <1>12, ElsewhereKeeps DEF CopyUntouched
<1> QED BY <1>1, <1>2, <1>3, <1>4, <1>5, <1>6, <1>7, <1>8, <1>9, <1>10, <1>11,
    <1>12 DEF Next, CopyFile, Elsewhere

\* Lines after the end that was seen are excused.
LEMMA EndSeenStep ==
    TypeOK /\ CopyOkInv /\ EndSeenInv /\ [Next]_vars => EndSeenInv'
<1> SUFFICES ASSUME TypeOK, CopyOkInv, EndSeenInv, [Next]_vars PROVE EndSeenInv'
  OBVIOUS
<1> USE FilesAssumption, BoundsAssumption DEF EndSeenInv, CopyOkInv, TypeOK,
    LogTypes, StreamTypes, HistoryTypes, Lines, Copying, tree, temp, disk, cursor,
    services, history
<1>1. ASSUME NEW p \in Lines, NEW k \in 0 .. MaxLines, CopyChunk(p, k) PROVE
    EndSeenInv'
  BY <1>1 DEF CopyChunk, Reach
<1>2. ASSUME NEW p \in Lines, NEW k \in 0 .. MaxLines, WriteFails(p, k) PROVE
    EndSeenInv'
  BY <1>2 DEF WriteFails, Goto, Reach, Add, Fault
<1>3. CASE EndOfFile
  <2>1. file \in Files /\ UNCHANGED <<written, file, pos>>
    BY <1>3 DEF EndOfFile, Goto
  <2>2. ASSUME NEW n \in Lines, pos < n, n <= written[file]
        PROVE  n \in excused'[file]
    <3>1. pos + 1 .. written[file] \subseteq Lines /\ n \in pos + 1 .. written[file]
      BY <2>1, <2>2
    <3>2. excused' = Add(excused, file, pos + 1 .. written[file])
      BY <1>3, <2>1, <2>2 DEF EndOfFile
    <3> QED BY <2>1, <3>1, <3>2, AddKeeps
  <2> QED BY <2>1, <2>2
<1>4. ASSUME NEW k \in 0 .. MaxLines, CloseLog(k) PROVE EndSeenInv'
  BY <1>4 DEF CloseLog, Goto, AfterClose, Reach, Add, NoFault, Fault
<1>5. CASE Truncate
  BY <1>5 DEF Truncate, Goto, Add, NoFault, Fault
<1>6. ASSUME NEW f \in Files, ReadDir(f) PROVE EndSeenInv'
  BY <1>6 DEF ReadDir, IsSupported, NoFault, Fault
<1>7. ASSUME NEW f \in Files, WriteLine(f) PROVE EndSeenInv'
  BY <1>7 DEF WriteLine, Add
<1>8. CASE Sync
  BY <1>8 DEF Sync, Goto
<1>9. CASE Reboot
  BY <1>9 DEF Reboot, GoDown, NoFault
<1>10. CASE Die
  BY <1>10 DEF Die, Add, Fault
<1>11. CASE PowerLoss
  BY <1>11 DEF PowerLoss, GoDown, Fault
<1>12. CASE Elsewhere
  BY <1>12, ElsewhereKeeps DEF CopyUntouched
<1> QED BY <1>1, <1>2, <1>3, <1>4, <1>5, <1>6, <1>7, <1>8, <1>9, <1>10, <1>11,
    <1>12 DEF Next, CopyFile, Elsewhere

\* Lines that fclose has lost are excused.
LEMMA ClosedStep ==
    TypeOK /\ CopyOkInv /\ ClosedInv /\ [Next]_vars => ClosedInv'
<1> SUFFICES ASSUME TypeOK, CopyOkInv, ClosedInv, [Next]_vars PROVE ClosedInv'
  OBVIOUS
<1> USE FilesAssumption, BoundsAssumption DEF ClosedInv, CopyOkInv, TypeOK,
    LogTypes, StreamTypes, HistoryTypes, Lines, Copying, tree, temp, disk, cursor,
    services, history
<1>1. ASSUME NEW p \in Lines, NEW k \in 0 .. MaxLines, CopyChunk(p, k) PROVE
    ClosedInv'
  BY <1>1 DEF CopyChunk, Reach
<1>2. ASSUME NEW p \in Lines, NEW k \in 0 .. MaxLines, WriteFails(p, k) PROVE
    ClosedInv'
  BY <1>2 DEF WriteFails, Goto, Reach, Add, Fault
<1>3. CASE EndOfFile
  BY <1>3 DEF EndOfFile, Goto, Add, NoFault, Fault
<1>4. ASSUME NEW k \in 0 .. MaxLines, CloseLog(k) PROVE ClosedInv'
  <2> SUFFICES ASSUME pc' = "truncate" PROVE ClosedInv'
    OBVIOUS
  <2>1. file \in Files /\ copyOk /\ k <= pos /\ flushed' = k /\ UNCHANGED <<file, pos>>
    BY <1>4 DEF CloseLog, Goto, AfterClose
  <2>2. ASSUME NEW n \in Lines, k < n, n <= pos
        PROVE  n \in excused'[file]
    <3>1. k + 1 .. pos \subseteq Lines /\ n \in k + 1 .. pos
      BY <2>1, <2>2
    <3>2. excused' = Add(excused, file, k + 1 .. pos)
      BY <1>4, <2>1, <2>2 DEF CloseLog
    <3> QED BY <2>1, <3>1, <3>2, AddKeeps
  <2> QED BY <2>1, <2>2
<1>5. CASE Truncate
  BY <1>5 DEF Truncate, Goto, Add, NoFault, Fault
<1>6. ASSUME NEW f \in Files, ReadDir(f) PROVE ClosedInv'
  BY <1>6 DEF ReadDir, IsSupported, NoFault, Fault
<1>7. ASSUME NEW f \in Files, WriteLine(f) PROVE ClosedInv'
  BY <1>7 DEF WriteLine, Add
<1>8. CASE Sync
  BY <1>8 DEF Sync, Goto
<1>9. CASE Reboot
  BY <1>9 DEF Reboot, GoDown, NoFault
<1>10. CASE Die
  BY <1>10 DEF Die, Add, Fault
<1>11. CASE PowerLoss
  BY <1>11 DEF PowerLoss, GoDown, Fault
<1>12. CASE Elsewhere
  BY <1>12, ElsewhereKeeps DEF CopyUntouched
<1> QED BY <1>1, <1>2, <1>3, <1>4, <1>5, <1>6, <1>7, <1>8, <1>9, <1>10, <1>11,
    <1>12 DEF Next, CopyFile, Elsewhere

\* A truncation takes no line that is neither in the log nor excused.
LEMMA LinesStep ==
    TypeOK /\ ReachedInv /\ CopyOkInv /\ EndSeenInv /\ ClosedInv /\ LinesKept /\
        [Next]_vars => LinesKept'
<1> SUFFICES ASSUME TypeOK, ReachedInv, CopyOkInv, EndSeenInv, ClosedInv,
    LinesKept, [Next]_vars PROVE LinesKept'
  OBVIOUS
<1> USE FilesAssumption, BoundsAssumption DEF LinesKept, ReachedInv, CopyOkInv,
    EndSeenInv, ClosedInv, TypeOK, LogTypes, StreamTypes, HistoryTypes, Lines,
    Copying, tree, temp, disk, cursor, services, history
<1>1. ASSUME NEW p \in Lines, NEW k \in 0 .. MaxLines, CopyChunk(p, k) PROVE
    LinesKept'
  BY <1>1 DEF CopyChunk, Reach
<1>2. ASSUME NEW p \in Lines, NEW k \in 0 .. MaxLines, WriteFails(p, k) PROVE
    LinesKept'
  BY <1>2 DEF WriteFails, Goto, Reach, Add, Fault
<1>3. CASE EndOfFile
  <2>1. file \in Files /\ UNCHANGED <<temp, disk>>
    BY <1>3 DEF EndOfFile, Goto
  <2>2. pos + 1 .. written[file] \subseteq Lines
    BY <2>1
  <2>3. \A g \in Files : excused[g] \subseteq excused'[g]
    BY <1>3, <2>1, <2>2, AddKeeps DEF EndOfFile
  <2> QED BY <2>1, <2>3
<1>4. ASSUME NEW k \in 0 .. MaxLines, CloseLog(k) PROVE LinesKept'
  <2>1. file \in Files /\ Reach(flushed, k) /\ UNCHANGED temp
    BY <1>4 DEF CloseLog, Goto
  <2>2. flushed \in Nat /\ k \in Nat
    OBVIOUS
  <2>3. /\ \A g \in Files, n \in Lines : copies[g][n] \in Nat
        /\ \A n \in Lines :
             flushed < n /\ n <= k => copies'[file][n] = copies[file][n] + 1
        /\ \A g \in Files, n \in Lines :
             ~(g = file /\ flushed < n /\ n <= k) => copies'[g][n] = copies[g][n]
    BY <2>1, <2>2, ReachCounts
  <2>4. k + 1 .. pos \subseteq Lines
    BY <2>1
  <2>5. \A g \in Files : excused[g] \subseteq excused'[g]
    BY <1>4, <2>1, <2>4, AddKeeps DEF CloseLog
  <2>6. ASSUME NEW g \in Files, NEW n \in Lines, n <= cut[g]
        PROVE  copies'[g][n] > 0 \/ n \in excused'[g]
    <3>1. copies[g][n] > 0 \/ n \in excused[g]
      BY <2>6
    <3>2. CASE g = file /\ flushed < n /\ n <= k
      BY <2>3, <3>2
    <3>3. CASE ~(g = file /\ flushed < n /\ n <= k)
      BY <2>3, <2>5, <3>1, <3>3
    <3> QED BY <3>2, <3>3
  <2> QED BY <2>1, <2>6
<1>5. CASE Truncate
  <2>1. file \in Files /\ copyOk /\ UNCHANGED <<written, disk, excused>>
    BY <1>5 DEF Truncate, Goto
  <2>2. CASE UNCHANGED cut
    BY <2>1, <2>2
  <2>3. CASE cut' = [cut EXCEPT ![file] = written[file]]
    <3>1. ASSUME NEW n \in Lines, n <= written[file]
          PROVE  copies[file][n] > 0 \/ n \in excused[file]
      <4>1. CASE n <= cut[file]
        BY <2>1, <4>1
      <4>2. CASE cut[file] < n /\ n <= flushed
        BY <1>5, <4>2 DEF Truncate, Goto
      <4>3. CASE flushed < n /\ n <= pos
        BY <1>5, <4>3 DEF Truncate, Goto
      <4>4. CASE pos < n
        BY <1>5, <2>1, <3>1, <4>4 DEF Truncate, Goto
      <4> QED BY <2>1, <4>1, <4>2, <4>3, <4>4
    <3> QED BY <2>1, <2>3, <3>1
  <2> QED BY <1>5, <2>2, <2>3 DEF Truncate
<1>6. ASSUME NEW f \in Files, ReadDir(f) PROVE LinesKept'
  BY <1>6 DEF ReadDir, IsSupported, NoFault, Fault
<1>7. ASSUME NEW f \in Files, WriteLine(f) PROVE LinesKept'
  BY <1>7 DEF WriteLine, Add
<1>8. CASE Sync
  BY <1>8 DEF Sync, Goto
<1>9. CASE Reboot
  BY <1>9 DEF Reboot, GoDown, NoFault
<1>10. CASE Die
  BY <1>10 DEF Die, Add, Fault
<1>11. CASE PowerLoss
  BY <1>11 DEF PowerLoss, GoDown, Fault
<1>12. CASE Elsewhere
  BY <1>12, ElsewhereKeeps DEF CopyUntouched
<1> QED BY <1>1, <1>2, <1>3, <1>4, <1>5, <1>6, <1>7, <1>8, <1>9, <1>10, <1>11,
    <1>12 DEF Next, CopyFile, Elsewhere

\* A line that is in both places belongs to a copy that is under way or was
\* interrupted.
LEMMA PendingStep ==
    TypeOK /\ CopyOkInv /\ FailedInv /\ PendingInv /\ [Next]_vars => PendingInv'
<1> SUFFICES ASSUME TypeOK, CopyOkInv, FailedInv, PendingInv, [Next]_vars PROVE
    PendingInv'
  OBVIOUS
<1> USE FilesAssumption, BoundsAssumption DEF PendingInv, FailedInv, InCopy,
    CopyOkInv, TypeOK, LogTypes, StreamTypes, HistoryTypes, Lines, Copying, tree,
    temp, disk, cursor, services, history
<1>1. ASSUME NEW p \in Lines, NEW k \in 0 .. MaxLines, CopyChunk(p, k) PROVE
    PendingInv'
  <2>1. file \in Files /\ flushed <= k /\ flushed' = k /\ Reach(flushed, k)
    BY <1>1 DEF CopyChunk
  <2>2. flushed \in Nat /\ k \in Nat
    OBVIOUS
  <2>3. /\ \A g \in Files, n \in Lines : copies[g][n] \in Nat
        /\ \A n \in Lines :
             flushed < n /\ n <= k => copies'[file][n] = copies[file][n] + 1
        /\ \A g \in Files, n \in Lines :
             ~(g = file /\ flushed < n /\ n <= k) => copies'[g][n] = copies[g][n]
    BY <2>1, <2>2, ReachCounts
  <2>4. pc = "copy" /\ UNCHANGED <<pc, file, cut, again>>
    BY <1>1 DEF CopyChunk
  <2>5. ASSUME NEW g \in Files, NEW n \in Lines, cut[g] < n, copies'[g][n] > 0
        PROVE  (g = file /\ n <= k) \/ n \in again[g]
    <3>1. CASE ~(g = file /\ flushed < n /\ n <= k)
      <4>1. copies[g][n] > 0
        BY <2>3, <2>5, <3>1
      <4> QED BY <2>1, <2>5, <4>1
    <3> QED BY <3>1
  <2> QED BY <2>1, <2>4, <2>5
<1>2. ASSUME NEW p \in Lines, NEW k \in 0 .. MaxLines, WriteFails(p, k) PROVE
    PendingInv'
  <2>1. file \in Files /\ flushed <= k /\ flushed' = k /\ Reach(flushed, k)
    BY <1>2 DEF WriteFails, Goto
  <2>2. flushed \in Nat /\ k \in Nat
    OBVIOUS
  <2>3. /\ \A g \in Files, n \in Lines : copies[g][n] \in Nat
        /\ \A n \in Lines :
             flushed < n /\ n <= k => copies'[file][n] = copies[file][n] + 1
        /\ \A g \in Files, n \in Lines :
             ~(g = file /\ flushed < n /\ n <= k) => copies'[g][n] = copies[g][n]
    BY <2>1, <2>2, ReachCounts
  <2>4. pc = "copy" /\ pc' = "close" /\ UNCHANGED <<file, cut>>
    BY <1>2 DEF WriteFails, Goto
  <2>5. \A g \in Files : again[g] \subseteq again'[g]
    <3>1. cut[file] + 1 .. k \subseteq Lines
      BY <2>1
    <3> QED BY <1>2, <2>1, <3>1, AddKeeps DEF WriteFails
  <2>6. ASSUME NEW g \in Files, NEW n \in Lines, cut[g] < n, copies'[g][n] > 0
        PROVE  (g = file /\ n <= k) \/ n \in again'[g]
    <3>1. CASE ~(g = file /\ flushed < n /\ n <= k)
      <4>1. copies[g][n] > 0
        BY <2>3, <2>6, <3>1
      <4> QED BY <2>1, <2>5, <2>6, <4>1
    <3> QED BY <3>1
  <2> QED BY <2>1, <2>4, <2>6
<1>3. CASE EndOfFile
  BY <1>3 DEF EndOfFile, Goto, Add, NoFault, Fault
<1>4. ASSUME NEW k \in 0 .. MaxLines, CloseLog(k) PROVE PendingInv'
  BY <1>4 DEF CloseLog, Goto, AfterClose, Reach, Add, NoFault, Fault
<1>5. CASE Truncate
  <2>1. file \in Files /\ pc = "truncate" /\ pc' = "next" /\ UNCHANGED disk
    BY <1>5 DEF Truncate, Goto
  <2>2. cut[file] <= flushed /\ flushed <= written[file]
    BY <2>1
  <2>3. ASSUME NEW f \in Files, NEW n \in Lines, cut'[f] < n, copies[f][n] > 0
        PROVE  n \in again'[f]
    <3>1. CASE cut' = [cut EXCEPT ![file] = written[file]] /\ UNCHANGED again
      <4>1. cut[f] < n /\ (f = file => flushed < n)
        BY <2>1, <2>2, <2>3, <3>1
      <4> QED BY <2>3, <3>1, <4>1
    <3>2. CASE again' = Add(again, file, cut[file] + 1 .. flushed) /\ UNCHANGED cut
      <4>1. cut[file] + 1 .. flushed \subseteq Lines
        <5>1. cut[file] \in 0..MaxLines /\ flushed \in 0..MaxLines
          BY <2>1
        <5> HIDE DEF PendingInv, FailedInv, TypeOK
        <5> QED BY <5>1
      <4>2. /\ \A g \in Files : again[g] \subseteq again'[g]
            /\ cut[file] + 1 .. flushed \subseteq again'[file]
        BY <2>1, <3>2, <4>1, AddKeeps
      <4>3. CASE InCopy(f, n)
        BY <2>2, <2>3, <3>2, <4>2, <4>3
      <4>4. CASE ~InCopy(f, n)
        BY <2>3, <3>2, <4>2, <4>4
      <4> QED BY <4>3, <4>4
    <3> QED BY <1>5, <3>1, <3>2 DEF Truncate
  <2> QED BY <2>1, <2>3
<1>6. ASSUME NEW f \in Files, ReadDir(f) PROVE PendingInv'
  BY <1>6 DEF ReadDir, IsSupported, NoFault, Fault
<1>7. ASSUME NEW f \in Files, WriteLine(f) PROVE PendingInv'
  BY <1>7 DEF WriteLine, Add
<1>8. CASE Sync
  BY <1>8 DEF Sync, Goto
<1>9. CASE Reboot
  BY <1>9 DEF Reboot, GoDown, NoFault
<1>10. CASE Die
  BY <1>10 DEF Die, Add, Fault
<1>11. CASE PowerLoss
  BY <1>11 DEF PowerLoss, GoDown, Fault
<1>12. CASE Elsewhere
  BY <1>12, ElsewhereKeeps DEF CopyUntouched
<1> QED BY <1>1, <1>2, <1>3, <1>4, <1>5, <1>6, <1>7, <1>8, <1>9, <1>10, <1>11,
    <1>12 DEF Next, CopyFile, Elsewhere

\* A failed write is the last one.
LEMMA FailedStep ==
    TypeOK /\ CopyOkInv /\ FailedInv /\ [Next]_vars => FailedInv'
<1> SUFFICES ASSUME TypeOK, CopyOkInv, FailedInv, [Next]_vars PROVE FailedInv'
  OBVIOUS
<1> USE FilesAssumption, BoundsAssumption DEF FailedInv, CopyOkInv, TypeOK,
    LogTypes, StreamTypes, HistoryTypes, Lines, Copying, tree, temp, disk, cursor,
    services, history
<1>1. ASSUME NEW p \in Lines, NEW k \in 0 .. MaxLines, CopyChunk(p, k) PROVE
    FailedInv'
  BY <1>1 DEF CopyChunk, Reach
<1>2. ASSUME NEW p \in Lines, NEW k \in 0 .. MaxLines, WriteFails(p, k) PROVE
    FailedInv'
  BY <1>2 DEF WriteFails, Goto, Reach, Add, Fault
<1>3. CASE EndOfFile
  BY <1>3 DEF EndOfFile, Goto, Add, NoFault, Fault
<1>4. ASSUME NEW k \in 0 .. MaxLines, CloseLog(k) PROVE FailedInv'
  BY <1>4 DEF CloseLog, Goto, AfterClose, Reach, Add, NoFault, Fault
<1>5. CASE Truncate
  BY <1>5 DEF Truncate, Goto, Add, NoFault, Fault
<1>6. ASSUME NEW f \in Files, ReadDir(f) PROVE FailedInv'
  BY <1>6 DEF ReadDir, IsSupported, NoFault, Fault
<1>7. ASSUME NEW f \in Files, WriteLine(f) PROVE FailedInv'
  BY <1>7 DEF WriteLine, Add
<1>8. CASE Sync
  BY <1>8 DEF Sync, Goto
<1>9. CASE Reboot
  BY <1>9 DEF Reboot, GoDown, NoFault
<1>10. CASE Die
  BY <1>10 DEF Die, Add, Fault
<1>11. CASE PowerLoss
  BY <1>11 DEF PowerLoss, GoDown, Fault
<1>12. CASE Elsewhere
  BY <1>12, ElsewhereKeeps DEF CopyUntouched
<1> QED BY <1>1, <1>2, <1>3, <1>4, <1>5, <1>6, <1>7, <1>8, <1>9, <1>10, <1>11,
    <1>12 DEF Next, CopyFile, Elsewhere

\* A second copy of a line is one that an interruption explains.
LEMMA OnceStep ==
    TypeOK /\ PendingInv /\ CopiedOnce /\ [Next]_vars => CopiedOnce'
<1> SUFFICES ASSUME TypeOK, PendingInv, CopiedOnce, [Next]_vars PROVE CopiedOnce'
  OBVIOUS
<1> USE FilesAssumption, BoundsAssumption DEF CopiedOnce, PendingInv, InCopy,
    TypeOK, LogTypes, StreamTypes, HistoryTypes, Lines, Copying, tree, temp, disk,
    cursor, services, history
<1>1. ASSUME NEW p \in Lines, NEW k \in 0 .. MaxLines, CopyChunk(p, k) PROVE
    CopiedOnce'
  <2>1. file \in Files /\ Reach(flushed, k) /\ UNCHANGED again
    BY <1>1 DEF CopyChunk
  <2>2. flushed \in Nat /\ k \in Nat
    OBVIOUS
  <2>3. /\ \A g \in Files, n \in Lines : copies[g][n] \in Nat
        /\ \A n \in Lines :
             flushed < n /\ n <= k => copies'[file][n] = copies[file][n] + 1
        /\ \A g \in Files, n \in Lines :
             ~(g = file /\ flushed < n /\ n <= k) => copies'[g][n] = copies[g][n]
    BY <2>1, <2>2, ReachCounts
  <2>4. cut[file] <= flushed
    BY <1>1 DEF CopyChunk
  <2>5. ASSUME NEW g \in Files, NEW n \in Lines, copies'[g][n] > 1 PROVE n \in again[g]
    <3>1. CASE g = file /\ flushed < n /\ n <= k
      <4>1. copies[g][n] > 0 /\ cut[g] < n
        BY <2>3, <2>4, <2>5, <3>1
      <4> QED BY <3>1, <4>1
    <3>2. CASE ~(g = file /\ flushed < n /\ n <= k)
      BY <2>3, <2>5, <3>2
    <3> QED BY <3>1, <3>2
  <2> QED BY <2>1, <2>5
<1>2. ASSUME NEW p \in Lines, NEW k \in 0 .. MaxLines, WriteFails(p, k) PROVE
    CopiedOnce'
  BY <1>2 DEF WriteFails, Goto, Reach, Add, Fault
<1>3. CASE EndOfFile
  BY <1>3 DEF EndOfFile, Goto, Add, NoFault, Fault
<1>4. ASSUME NEW k \in 0 .. MaxLines, CloseLog(k) PROVE CopiedOnce'
  <2>1. file \in Files /\ Reach(flushed, k) /\ UNCHANGED again
    BY <1>4 DEF CloseLog, Goto
  <2>2. flushed \in Nat /\ k \in Nat
    OBVIOUS
  <2>3. /\ \A g \in Files, n \in Lines : copies[g][n] \in Nat
        /\ \A n \in Lines :
             flushed < n /\ n <= k => copies'[file][n] = copies[file][n] + 1
        /\ \A g \in Files, n \in Lines :
             ~(g = file /\ flushed < n /\ n <= k) => copies'[g][n] = copies[g][n]
    BY <2>1, <2>2, ReachCounts
  <2>4. cut[file] <= flushed
    BY <1>4 DEF CloseLog, Goto
  <2>5. ASSUME NEW g \in Files, NEW n \in Lines, copies'[g][n] > 1 PROVE n \in again[g]
    <3>1. CASE g = file /\ flushed < n /\ n <= k
      <4>1. copies[g][n] > 0 /\ cut[g] < n
        BY <2>3, <2>4, <2>5, <3>1
      <4> QED BY <3>1, <4>1
    <3>2. CASE ~(g = file /\ flushed < n /\ n <= k)
      BY <2>3, <2>5, <3>2
    <3> QED BY <3>1, <3>2
  <2> QED BY <2>1, <2>5
<1>5. CASE Truncate
  <2>1. file \in Files /\ UNCHANGED disk
    BY <1>5 DEF Truncate, Goto
  <2>2. cut[file] + 1 .. flushed \subseteq Lines
    BY <1>5, <2>1 DEF Truncate, Goto
  <2>3. \A g \in Files : again[g] \subseteq again'[g]
    BY <1>5, <2>1, <2>2, AddKeeps DEF Truncate
  <2> QED BY <2>1, <2>3
<1>6. ASSUME NEW f \in Files, ReadDir(f) PROVE CopiedOnce'
  BY <1>6 DEF ReadDir, IsSupported, NoFault, Fault
<1>7. ASSUME NEW f \in Files, WriteLine(f) PROVE CopiedOnce'
  BY <1>7 DEF WriteLine, Add
<1>8. CASE Sync
  BY <1>8 DEF Sync, Goto
<1>9. CASE Reboot
  BY <1>9 DEF Reboot, GoDown, NoFault
<1>10. CASE Die
  BY <1>10 DEF Die, Add, Fault
<1>11. CASE PowerLoss
  BY <1>11 DEF PowerLoss, GoDown, Fault
<1>12. CASE Elsewhere
  BY <1>12, ElsewhereKeeps DEF CopyUntouched
<1> QED BY <1>1, <1>2, <1>3, <1>4, <1>5, <1>6, <1>7, <1>8, <1>9, <1>10, <1>11,
    <1>12 DEF Next, CopyFile, Elsewhere

\* No line of a log is lost on the way from memory to disk, for any number of
\* files, lines and faults: a line that has left the temporary file is in the
\* log, unless one of the windows that LinesKept names took it.
THEOREM NoLineLost == Spec => []LinesKept
<1>1. Init => KeptInv
  BY BoundsAssumption
     DEF Init, KeptInv, ReachedInv, EndSeenInv, ClosedInv, CopyOkInv, LinesKept,
         Copying, Lines
<1>2. TypeOK /\ KeptInv /\ [Next]_vars => KeptInv'
  BY ReachedStep, EndSeenStep, ClosedStep, CopyOkStep, LinesStep DEF KeptInv
<1>3. KeptInv => LinesKept
  BY DEF KeptInv
<1> QED BY <1>1, <1>2, <1>3, TypeCorrect, PTL DEF Spec

\* A second request, after a reboot that did not come, does not repeat the logs:
\* for any number of runs, a line is twice in the log only if its copy was
\* interrupted or the source could not be truncated.
THEOREM NoLineRepeated == Spec => []CopiedOnce
<1>1. Init => CopyOkInv /\ OnceInv
  BY BoundsAssumption
     DEF Init, CopyOkInv, OnceInv, PendingInv, FailedInv, CopiedOnce, InCopy, Copying,
         Lines
<1>2. TypeOK /\ CopyOkInv /\ OnceInv /\ [Next]_vars => (CopyOkInv /\ OnceInv)'
  BY CopyOkStep, PendingStep, FailedStep, OnceStep DEF OnceInv
<1>3. OnceInv => CopiedOnce
  BY DEF OnceInv
<1> QED BY <1>1, <1>2, <1>3, TypeCorrect, PTL DEF Spec

-----------------------------------------------------------------------------
(***************************************************************************)
(* The logs are on the disk before the reboot.                             *)
(***************************************************************************)

\* Logs only grow.
LEMMA MarkStep ==
    TypeOK /\ MarkInv /\ [Next]_vars => MarkInv'
<1> SUFFICES ASSUME TypeOK, MarkInv, [Next]_vars PROVE MarkInv'
  OBVIOUS
<1> USE DEF MarkInv, TypeOK, LogTypes, HistoryTypes, tree, temp, disk, cursor,
    services, history
<1>1. CASE Call
  BY <1>1 DEF Call, Goto
<1>2. CASE SignalServices
  BY <1>2 DEF SignalServices, Goto, NoFault, Fault
<1>3. CASE CheckImage
  BY <1>3 DEF CheckImage, Goto, NoFault, Fault
<1>4. CASE AppsDone
  BY <1>4 DEF AppsDone, Goto
<1>5. CASE RunScripts
  BY <1>5 DEF RunScripts, Goto
<1>6. ASSUME NEW e \in Entries, RemoveEntry(e) PROVE MarkInv'
  BY <1>6 DEF RemoveEntry, NoFault, Fault
<1>7. ASSUME NEW e \in Entries, OpenDirFails(e) PROVE MarkInv'
  BY <1>7 DEF OpenDirFails, NoFault, Fault
<1>8. CASE StartSync
  BY <1>8 DEF StartSync, Goto, NoFault, Fault
<1>9. CASE EndOfDir
  BY <1>9 DEF EndOfDir, Goto
<1>10. ASSUME NEW p \in Lines, NEW k \in 0 .. MaxLines, CopyChunk(p, k) PROVE
    MarkInv'
  BY <1>10 DEF CopyChunk, Reach
<1>11. ASSUME NEW p \in Lines, NEW k \in 0 .. MaxLines, WriteFails(p, k) PROVE
    MarkInv'
  BY <1>11 DEF WriteFails, Goto, Reach, Add, Fault
<1>12. CASE EndOfFile
  BY <1>12 DEF EndOfFile, Goto, Add, NoFault, Fault
<1>13. ASSUME NEW k \in 0 .. MaxLines, CloseLog(k) PROVE MarkInv'
  BY <1>13 DEF CloseLog, Goto, AfterClose, Reach, Add, NoFault, Fault
<1>14. CASE Truncate
  BY <1>14 DEF Truncate, Goto, Add, NoFault, Fault
<1>15. ASSUME NEW f \in Files, ReadDir(f) PROVE MarkInv'
  BY <1>15 DEF ReadDir, IsSupported, NoFault, Fault
<1>16. ASSUME NEW f \in Files, WriteLine(f) PROVE MarkInv'
  BY <1>16 DEF WriteLine, Add
<1>17. CASE OpenClock
  BY <1>17 DEF OpenClock, Goto, NoFault, Fault
<1>18. CASE WriteClock
  BY <1>18 DEF WriteClock, Goto, NoFault, Fault
<1>19. CASE StopService
  BY <1>19 DEF StopService, LastService, NoFault, Fault
<1>20. CASE ServicesDone
  BY <1>20 DEF ServicesDone, Goto, LastService
<1>21. CASE Sync
  BY <1>21 DEF Sync, Goto
<1>22. CASE Reboot
  BY <1>22 DEF Reboot, GoDown, NoFault
<1>23. CASE RebootFails
  BY <1>23 DEF RebootFails, Goto
<1>24. CASE Die
  BY <1>24 DEF Die, Add, Fault
<1>25. CASE PowerLoss
  BY <1>25 DEF PowerLoss, GoDown, Fault
<1>26. CASE UNCHANGED vars
  BY <1>26 DEF vars
<1> QED BY <1>1, <1>2, <1>3, <1>4, <1>5, <1>6, <1>7, <1>8, <1>9, <1>10, <1>11,
    <1>12, <1>13, <1>14, <1>15, <1>16, <1>17, <1>18, <1>19, <1>20, <1>21, <1>22,
    <1>23, <1>24, <1>25, <1>26 DEF Next, CopyFile

\* readdir goes through all names, and a copy without a fault ends in a truncation.
LEMMA MovedStep ==
    TypeOK /\ MarkInv /\ MovedInv /\ [Next]_vars => MovedInv'
<1> SUFFICES ASSUME TypeOK, MarkInv, MovedInv, [Next]_vars PROVE MovedInv'
  OBVIOUS
<1> USE FilesAssumption, BoundsAssumption DEF MovedInv, MarkInv, Synced,
    SyncEnabled, SyncNeeded, OtherTypes, FlagTypes, TypeOK, LogTypes, StreamTypes,
    HistoryTypes, Lines, Copying, tree, temp, disk, cursor, services, history
<1>1. CASE Call
  BY <1>1 DEF Call, Goto
<1>2. CASE SignalServices
  BY <1>2 DEF SignalServices, Goto, NoFault, Fault
<1>3. CASE CheckImage
  BY <1>3 DEF CheckImage, Goto, NoFault, Fault
<1>4. CASE AppsDone
  BY <1>4 DEF AppsDone, Goto
<1>5. CASE RunScripts
  BY <1>5 DEF RunScripts, Goto
<1>6. ASSUME NEW e \in Entries, RemoveEntry(e) PROVE MovedInv'
  BY <1>6 DEF RemoveEntry, NoFault, Fault
<1>7. ASSUME NEW e \in Entries, OpenDirFails(e) PROVE MovedInv'
  BY <1>7 DEF OpenDirFails, NoFault, Fault
<1>8. CASE StartSync
  BY <1>8 DEF StartSync, Goto, NoFault, Fault
<1>9. CASE EndOfDir
  BY <1>9 DEF EndOfDir, Goto
<1>10. ASSUME NEW p \in Lines, NEW k \in 0 .. MaxLines, CopyChunk(p, k) PROVE
    MovedInv'
  BY <1>10 DEF CopyChunk, Reach
<1>11. ASSUME NEW p \in Lines, NEW k \in 0 .. MaxLines, WriteFails(p, k) PROVE
    MovedInv'
  BY <1>11 DEF WriteFails, Goto, Reach, Add, Fault
<1>12. CASE EndOfFile
  BY <1>12 DEF EndOfFile, Goto, Add, NoFault, Fault
<1>13. ASSUME NEW k \in 0 .. MaxLines, CloseLog(k) PROVE MovedInv'
  BY <1>13 DEF CloseLog, Goto, AfterClose, Reach, Add, NoFault, Fault
<1>14. CASE Truncate
  BY <1>14 DEF Truncate, Goto, Add, NoFault, Fault
<1>15. ASSUME NEW f \in Files, ReadDir(f) PROVE MovedInv'
  BY <1>15 DEF ReadDir, IsSupported, NoFault, Fault
<1>16. ASSUME NEW f \in Files, WriteLine(f) PROVE MovedInv'
  BY <1>16 DEF WriteLine, Add
<1>17. CASE OpenClock
  BY <1>17 DEF OpenClock, Goto, NoFault, Fault
<1>18. CASE WriteClock
  BY <1>18 DEF WriteClock, Goto, NoFault, Fault
<1>19. CASE StopService
  BY <1>19 DEF StopService, LastService, NoFault, Fault
<1>20. CASE ServicesDone
  BY <1>20 DEF ServicesDone, Goto, LastService
<1>21. CASE Sync
  BY <1>21 DEF Sync, Goto
<1>22. CASE Reboot
  BY <1>22 DEF Reboot, GoDown, NoFault
<1>23. CASE RebootFails
  BY <1>23 DEF RebootFails, Goto
<1>24. CASE Die
  BY <1>24 DEF Die, Add, Fault
<1>25. CASE PowerLoss
  BY <1>25 DEF PowerLoss, GoDown, Fault
<1>26. CASE UNCHANGED vars
  BY <1>26 DEF vars
<1> QED BY <1>1, <1>2, <1>3, <1>4, <1>5, <1>6, <1>7, <1>8, <1>9, <1>10, <1>11,
    <1>12, <1>13, <1>14, <1>15, <1>16, <1>17, <1>18, <1>19, <1>20, <1>21, <1>22,
    <1>23, <1>24, <1>25, <1>26 DEF Next, CopyFile

\* sync() takes to the disk what the copies have left in the cache.
LEMMA SyncedStep ==
    TypeOK /\ LinesKept /\ MovedInv /\ SyncedBeforeReboot /\ [Next]_vars =>
        SyncedBeforeReboot'
<1> SUFFICES ASSUME TypeOK, LinesKept, MovedInv, SyncedBeforeReboot, [Next]_vars
    PROVE SyncedBeforeReboot'
  OBVIOUS
<1> USE FilesAssumption, BoundsAssumption DEF SyncedBeforeReboot, MovedInv,
    LinesKept, Synced, SyncEnabled, SyncNeeded, TypeOK, LogTypes, StreamTypes,
    HistoryTypes, Lines, Copying, tree, temp, disk, cursor, services, history
<1>1. CASE Call
  BY <1>1 DEF Call, Goto
<1>2. CASE SignalServices
  BY <1>2 DEF SignalServices, Goto, NoFault, Fault
<1>3. CASE CheckImage
  BY <1>3 DEF CheckImage, Goto, NoFault, Fault
<1>4. CASE AppsDone
  BY <1>4 DEF AppsDone, Goto
<1>5. CASE RunScripts
  BY <1>5 DEF RunScripts, Goto
<1>6. ASSUME NEW e \in Entries, RemoveEntry(e) PROVE SyncedBeforeReboot'
  BY <1>6 DEF RemoveEntry, NoFault, Fault
<1>7. ASSUME NEW e \in Entries, OpenDirFails(e) PROVE SyncedBeforeReboot'
  BY <1>7 DEF OpenDirFails, NoFault, Fault
<1>8. CASE StartSync
  BY <1>8 DEF StartSync, Goto, NoFault, Fault
<1>9. CASE EndOfDir
  BY <1>9 DEF EndOfDir, Goto
<1>10. ASSUME NEW p \in Lines, NEW k \in 0 .. MaxLines, CopyChunk(p, k) PROVE
    SyncedBeforeReboot'
  BY <1>10 DEF CopyChunk, Reach
<1>11. ASSUME NEW p \in Lines, NEW k \in 0 .. MaxLines, WriteFails(p, k) PROVE
    SyncedBeforeReboot'
  BY <1>11 DEF WriteFails, Goto, Reach, Add, Fault
<1>12. CASE EndOfFile
  BY <1>12 DEF EndOfFile, Goto, Add, NoFault, Fault
<1>13. ASSUME NEW k \in 0 .. MaxLines, CloseLog(k) PROVE SyncedBeforeReboot'
  BY <1>13 DEF CloseLog, Goto, AfterClose, Reach, Add, NoFault, Fault
<1>14. CASE Truncate
  BY <1>14 DEF Truncate, Goto, Add, NoFault, Fault
<1>15. ASSUME NEW f \in Files, ReadDir(f) PROVE SyncedBeforeReboot'
  BY <1>15 DEF ReadDir, IsSupported, NoFault, Fault
<1>16. ASSUME NEW f \in Files, WriteLine(f) PROVE SyncedBeforeReboot'
  BY <1>16 DEF WriteLine, Add
<1>17. CASE OpenClock
  BY <1>17 DEF OpenClock, Goto, NoFault, Fault
<1>18. CASE WriteClock
  BY <1>18 DEF WriteClock, Goto, NoFault, Fault
<1>19. CASE StopService
  BY <1>19 DEF StopService, LastService, NoFault, Fault
<1>20. CASE ServicesDone
  BY <1>20 DEF ServicesDone, Goto, LastService
<1>21. CASE Sync
  BY <1>21 DEF Sync, Goto
<1>22. CASE Reboot
  BY <1>22 DEF Reboot, GoDown, NoFault
<1>23. CASE RebootFails
  BY <1>23 DEF RebootFails, Goto
<1>24. CASE Die
  BY <1>24 DEF Die, Add, Fault
<1>25. CASE PowerLoss
  BY <1>25 DEF PowerLoss, GoDown, Fault
<1>26. CASE UNCHANGED vars
  BY <1>26 DEF vars
<1> QED BY <1>1, <1>2, <1>3, <1>4, <1>5, <1>6, <1>7, <1>8, <1>9, <1>10, <1>11,
    <1>12, <1>13, <1>14, <1>15, <1>16, <1>17, <1>18, <1>19, <1>20, <1>21, <1>22,
    <1>23, <1>24, <1>25, <1>26 DEF Next, CopyFile

\* When cleanup_services returns and nothing failed in it, what was logged
\* before the call is on the disk, for any number of files and lines and
\* whoever goes on logging.
THEOREM LogsSynced == Spec => []SyncedBeforeReboot
<1>1. Init => KeptInv /\ SyncInv
  <2>1. Init => KeptInv
    BY BoundsAssumption
       DEF Init, KeptInv, ReachedInv, EndSeenInv, ClosedInv, CopyOkInv, LinesKept,
           Copying, Lines
  <2>2. Init => SyncInv
    BY DEF Init, SyncInv, MarkInv, MovedInv, SyncedBeforeReboot, Copying, Synced
  <2> QED BY <2>1, <2>2
<1>2. TypeOK /\ KeptInv /\ SyncInv /\ [Next]_vars => (KeptInv /\ SyncInv)'
  BY ReachedStep, EndSeenStep, ClosedStep, CopyOkStep, LinesStep, MarkStep, MovedStep,
     SyncedStep DEF KeptInv, SyncInv
<1>3. SyncInv => SyncedBeforeReboot
  BY DEF SyncInv
<1> QED BY <1>1, <1>2, <1>3, TypeCorrect, PTL DEF Spec

-----------------------------------------------------------------------------
(***************************************************************************)
(* The applications go with the image.                                     *)
(***************************************************************************)

\* A newline at the end of the flashed image's name makes no difference to the
\* comparison, if the running image's name does not end in one: what the
\* program finds with strstr, the script finds in the chomped text.
LEMMA ChompContains ==
    ASSUME NEW s \in Seq(STRING), NEW p \in Seq(STRING), ~EndsInNewLine(p)
    PROVE  Contains(Chomp(s), p) <=> Contains(s, p)
<1>1. CASE ~EndsInNewLine(s)
  BY <1>1 DEF Chomp
<1>2. CASE EndsInNewLine(s)
  <2> DEFINE c == SubSeq(s, 1, Len(s) - 1)
  <2>1. s[Len(s)] = NewLine /\ Chomp(s) = c
    BY <1>2 DEF EndsInNewLine, Chomp
  <2>2. Len(s) \in Nat /\ Len(s) > 0
    BY <1>2 DEF EndsInNewLine
  <2>3. Len(p) \in Nat
    OBVIOUS
  <2>4. c \in Seq(STRING) /\ Len(c) = Len(s) - 1 /\ \A j \in 1 .. Len(s) - 1 : c[j] = s[j]
    <3>1. \A j \in 1 .. Len(s) - 1 : s[j] \in STRING
      BY <2>2
    <3>2. Len(s) - 1 \in Int /\ 1 \in Int
      BY <2>2
    <3>3. /\ c \in Seq(STRING)
          /\ Len(c) = IF 1 <= Len(s) - 1 THEN Len(s) - 1 - 1 + 1 ELSE 0
          /\ \A j \in 1 .. Len(s) - 1 - 1 + 1 : c[j] = s[1 + j - 1]
      BY <3>1, <3>2, SubSeqProperties
    <3> HIDE DEF c
    <3>4. Len(c) = Len(s) - 1
      <4>1. PICK n \in Nat : n = Len(s) /\ n > 0
        BY <2>2
      <4>2. Len(c) = IF 1 <= n - 1 THEN n - 1 - 1 + 1 ELSE 0
        BY <3>3, <4>1
      <4> QED BY <4>1, <4>2
    <3>5. ASSUME NEW j \in 1 .. Len(s) - 1 PROVE c[j] = s[j]
      <4>1. j \in 1 .. Len(s) - 1 - 1 + 1 /\ 1 + j - 1 = j
        BY <2>2
      <4> QED BY <3>3, <4>1
    <3> QED BY <3>3, <3>4, <3>5
  <2> HIDE DEF c
  <2>5. ASSUME NEW i \in Nat, i + Len(p) <= Len(c)
        PROVE  SubSeq(c, i + 1, i + Len(p)) = SubSeq(s, i + 1, i + Len(p))
    BY <2>2, <2>3, <2>4, <2>5
  <2>6. ASSUME Contains(c, p) PROVE Contains(s, p)
    <3>1. PICK i \in 0 .. Len(c) - Len(p) : SubSeq(c, i + 1, i + Len(p)) = p
      BY <2>6 DEF Contains
    <3>2. i \in 0 .. Len(s) - Len(p) /\ SubSeq(s, i + 1, i + Len(p)) = p
      BY <2>2, <2>3, <2>4, <2>5, <3>1
    <3> QED BY <3>2 DEF Contains
  <2>7. ASSUME Contains(s, p) PROVE Contains(c, p)
    <3>1. PICK i \in 0 .. Len(s) - Len(p) : SubSeq(s, i + 1, i + Len(p)) = p
      BY <2>7 DEF Contains
    <3> SUFFICES ASSUME p # <<>> PROVE Contains(c, p)
      <4>1. SubSeq(c, 0 + 1, 0 + 0) = <<>>
        BY SubSeqEmpty
      <4>2. Len(<<>>) = 0 /\ 0 \in 0 .. Len(c) - 0
        BY <2>2, <2>4
      <4> QED BY <4>1, <4>2 DEF Contains
    <3>2. i + Len(p) <= Len(c)
      <4> SUFFICES ASSUME ~(i + Len(p) <= Len(c)) PROVE FALSE
        OBVIOUS
      <4>1. PICK n \in Nat : n = Len(s) /\ i + Len(p) = n
        BY <2>2, <2>3, <2>4, <3>1
      <4>2. Len(p) > 0 /\ Len(p) \in 1 .. Len(p)
        BY <2>3
      <4>3. p[Len(p)] = s[Len(s)]
        <5>1. p[Len(p)] = s[i + 1 + Len(p) - 1]
          BY <2>2, <2>3, <3>1, <4>2
        <5> QED BY <2>3, <4>1, <5>1
      <4> QED BY <2>1, <4>3 DEF EndsInNewLine
    <3>3. i \in 0 .. Len(c) - Len(p) /\ SubSeq(c, i + 1, i + Len(p)) = p
      BY <2>2, <2>3, <2>4, <2>5, <3>1, <3>2
    <3> QED BY <3>3 DEF Contains
  <2> QED BY <2>1, <2>6, <2>7
<1> QED BY <1>1, <1>2
\* Nobody writes the image name files.
LEMMA ImageStep ==
    ImageTypes /\ [Next]_vars => ImageTypes'
<1> SUFFICES ASSUME ImageTypes, [Next]_vars PROVE ImageTypes'
  OBVIOUS
<1> USE DEF ImageTypes
<1>1. CASE Call
  BY <1>1 DEF Call, Goto
<1>2. CASE SignalServices
  BY <1>2 DEF SignalServices, Goto, NoFault, Fault
<1>3. CASE CheckImage
  BY <1>3 DEF CheckImage, Goto, NoFault, Fault
<1>4. CASE AppsDone
  BY <1>4 DEF AppsDone, Goto
<1>5. CASE RunScripts
  BY <1>5 DEF RunScripts, Goto
<1>6. ASSUME NEW e \in Entries, RemoveEntry(e) PROVE ImageTypes'
  BY <1>6 DEF RemoveEntry, NoFault, Fault
<1>7. ASSUME NEW e \in Entries, OpenDirFails(e) PROVE ImageTypes'
  BY <1>7 DEF OpenDirFails, NoFault, Fault
<1>8. CASE StartSync
  BY <1>8 DEF StartSync, Goto, NoFault, Fault
<1>9. CASE EndOfDir
  BY <1>9 DEF EndOfDir, Goto
<1>10. ASSUME NEW p \in Lines, NEW k \in 0 .. MaxLines, CopyChunk(p, k) PROVE
    ImageTypes'
  BY <1>10 DEF CopyChunk, Reach
<1>11. ASSUME NEW p \in Lines, NEW k \in 0 .. MaxLines, WriteFails(p, k) PROVE
    ImageTypes'
  BY <1>11 DEF WriteFails, Goto, Reach, Add, Fault
<1>12. CASE EndOfFile
  BY <1>12 DEF EndOfFile, Goto, Add, NoFault, Fault
<1>13. ASSUME NEW k \in 0 .. MaxLines, CloseLog(k) PROVE ImageTypes'
  BY <1>13 DEF CloseLog, Goto, AfterClose, Reach, Add, NoFault, Fault
<1>14. CASE Truncate
  BY <1>14 DEF Truncate, Goto, Add, NoFault, Fault
<1>15. ASSUME NEW f \in Files, ReadDir(f) PROVE ImageTypes'
  BY <1>15 DEF ReadDir, IsSupported, NoFault, Fault
<1>16. ASSUME NEW f \in Files, WriteLine(f) PROVE ImageTypes'
  BY <1>16 DEF WriteLine, Add
<1>17. CASE OpenClock
  BY <1>17 DEF OpenClock, Goto, NoFault, Fault
<1>18. CASE WriteClock
  BY <1>18 DEF WriteClock, Goto, NoFault, Fault
<1>19. CASE StopService
  BY <1>19 DEF StopService, LastService, NoFault, Fault
<1>20. CASE ServicesDone
  BY <1>20 DEF ServicesDone, Goto, LastService
<1>21. CASE Sync
  BY <1>21 DEF Sync, Goto
<1>22. CASE Reboot
  BY <1>22 DEF Reboot, GoDown, NoFault
<1>23. CASE RebootFails
  BY <1>23 DEF RebootFails, Goto
<1>24. CASE Die
  BY <1>24 DEF Die, Add, Fault
<1>25. CASE PowerLoss
  BY <1>25 DEF PowerLoss, GoDown, Fault
<1>26. CASE UNCHANGED vars
  BY <1>26 DEF vars
<1> QED BY <1>1, <1>2, <1>3, <1>4, <1>5, <1>6, <1>7, <1>8, <1>9, <1>10, <1>11,
    <1>12, <1>13, <1>14, <1>15, <1>16, <1>17, <1>18, <1>19, <1>20, <1>21, <1>22,
    <1>23, <1>24, <1>25, <1>26 DEF Next, CopyFile

\* What lies beside the application directories is never removed.
LEMMA BesideStep ==
    BesideInv /\ [Next]_vars => BesideInv'
<1> SUFFICES ASSUME BesideInv, [Next]_vars PROVE BesideInv'
  OBVIOUS
<1> USE DEF BesideInv, Doomed, tree
<1>1. CASE Call
  BY <1>1 DEF Call, Goto
<1>2. CASE SignalServices
  BY <1>2 DEF SignalServices, Goto, NoFault, Fault
<1>3. CASE CheckImage
  BY <1>3 DEF CheckImage, Goto, NoFault, Fault
<1>4. CASE AppsDone
  BY <1>4 DEF AppsDone, Goto
<1>5. CASE RunScripts
  BY <1>5 DEF RunScripts, Goto
<1>6. ASSUME NEW e \in Entries, RemoveEntry(e) PROVE BesideInv'
  BY <1>6 DEF RemoveEntry, NoFault, Fault
<1>7. ASSUME NEW e \in Entries, OpenDirFails(e) PROVE BesideInv'
  BY <1>7 DEF OpenDirFails, NoFault, Fault
<1>8. CASE StartSync
  BY <1>8 DEF StartSync, Goto, NoFault, Fault
<1>9. CASE EndOfDir
  BY <1>9 DEF EndOfDir, Goto
<1>10. ASSUME NEW p \in Lines, NEW k \in 0 .. MaxLines, CopyChunk(p, k) PROVE
    BesideInv'
  BY <1>10 DEF CopyChunk, Reach
<1>11. ASSUME NEW p \in Lines, NEW k \in 0 .. MaxLines, WriteFails(p, k) PROVE
    BesideInv'
  BY <1>11 DEF WriteFails, Goto, Reach, Add, Fault
<1>12. CASE EndOfFile
  BY <1>12 DEF EndOfFile, Goto, Add, NoFault, Fault
<1>13. ASSUME NEW k \in 0 .. MaxLines, CloseLog(k) PROVE BesideInv'
  BY <1>13 DEF CloseLog, Goto, AfterClose, Reach, Add, NoFault, Fault
<1>14. CASE Truncate
  BY <1>14 DEF Truncate, Goto, Add, NoFault, Fault
<1>15. ASSUME NEW f \in Files, ReadDir(f) PROVE BesideInv'
  BY <1>15 DEF ReadDir, IsSupported, NoFault, Fault
<1>16. ASSUME NEW f \in Files, WriteLine(f) PROVE BesideInv'
  BY <1>16 DEF WriteLine, Add
<1>17. CASE OpenClock
  BY <1>17 DEF OpenClock, Goto, NoFault, Fault
<1>18. CASE WriteClock
  BY <1>18 DEF WriteClock, Goto, NoFault, Fault
<1>19. CASE StopService
  BY <1>19 DEF StopService, LastService, NoFault, Fault
<1>20. CASE ServicesDone
  BY <1>20 DEF ServicesDone, Goto, LastService
<1>21. CASE Sync
  BY <1>21 DEF Sync, Goto
<1>22. CASE Reboot
  BY <1>22 DEF Reboot, GoDown, NoFault
<1>23. CASE RebootFails
  BY <1>23 DEF RebootFails, Goto
<1>24. CASE Die
  BY <1>24 DEF Die, Add, Fault
<1>25. CASE PowerLoss
  BY <1>25 DEF PowerLoss, GoDown, Fault
<1>26. CASE UNCHANGED vars
  BY <1>26 DEF vars
<1> QED BY <1>1, <1>2, <1>3, <1>4, <1>5, <1>6, <1>7, <1>8, <1>9, <1>10, <1>11,
    <1>12, <1>13, <1>14, <1>15, <1>16, <1>17, <1>18, <1>19, <1>20, <1>21, <1>22,
    <1>23, <1>24, <1>25, <1>26 DEF Next, CopyFile

\* Everything below the application directories is removed, or something has failed.
LEMMA TriedStep ==
    TypeOK /\ TriedInv /\ [Next]_vars => TriedInv'
<1> SUFFICES ASSUME TypeOK, TriedInv, [Next]_vars PROVE TriedInv'
  OBVIOUS
<1> USE DEF TriedInv, TypeOK, OtherTypes, HistoryTypes, States, Copying, Synced,
    tree, temp, disk, cursor, services, history
<1>1. CASE Call
  BY <1>1 DEF Call, Goto, Upgraded, ImageKnown
<1>2. CASE SignalServices
  BY <1>2 DEF SignalServices, Goto, NoFault, Fault, Upgraded, ImageKnown
<1>3. CASE CheckImage
  BY <1>3 DEF CheckImage, Goto, NoFault, Fault, Upgraded, ImageKnown
<1>4. CASE AppsDone
  BY <1>4 DEF AppsDone, Goto, GivenUp, Upgraded, ImageKnown
<1>5. CASE RunScripts
  BY <1>5 DEF RunScripts, Goto, Upgraded, ImageKnown
<1>6. ASSUME NEW e \in Entries, RemoveEntry(e) PROVE TriedInv'
  BY <1>6 DEF RemoveEntry, NoFault, Fault, Upgraded, ImageKnown
<1>7. ASSUME NEW e \in Entries, OpenDirFails(e) PROVE TriedInv'
  BY <1>7 DEF OpenDirFails, NoFault, Fault, Upgraded, ImageKnown
<1>8. CASE StartSync
  BY <1>8 DEF StartSync, Goto, NoFault, Fault, Upgraded, ImageKnown
<1>9. CASE EndOfDir
  BY <1>9 DEF EndOfDir, Goto, Upgraded, ImageKnown
<1>10. ASSUME NEW p \in Lines, NEW k \in 0 .. MaxLines, CopyChunk(p, k) PROVE
    TriedInv'
  BY <1>10 DEF CopyChunk, Reach, Upgraded, ImageKnown
<1>11. ASSUME NEW p \in Lines, NEW k \in 0 .. MaxLines, WriteFails(p, k) PROVE
    TriedInv'
  BY <1>11 DEF WriteFails, Goto, Reach, Add, Fault, Upgraded, ImageKnown
<1>12. CASE EndOfFile
  BY <1>12 DEF EndOfFile, Goto, Add, NoFault, Fault, Upgraded, ImageKnown
<1>13. ASSUME NEW k \in 0 .. MaxLines, CloseLog(k) PROVE TriedInv'
  BY <1>13 DEF CloseLog, Goto, AfterClose, Reach, Add, NoFault, Fault, Upgraded,
      ImageKnown
<1>14. CASE Truncate
  BY <1>14 DEF Truncate, Goto, Add, NoFault, Fault, Upgraded, ImageKnown
<1>15. ASSUME NEW f \in Files, ReadDir(f) PROVE TriedInv'
  BY <1>15 DEF ReadDir, IsSupported, NoFault, Fault, Upgraded, ImageKnown
<1>16. ASSUME NEW f \in Files, WriteLine(f) PROVE TriedInv'
  BY <1>16 DEF WriteLine, Add, Upgraded, ImageKnown
<1>17. CASE OpenClock
  BY <1>17 DEF OpenClock, Goto, NoFault, Fault, Upgraded, ImageKnown
<1>18. CASE WriteClock
  BY <1>18 DEF WriteClock, Goto, NoFault, Fault, Upgraded, ImageKnown
<1>19. CASE StopService
  BY <1>19 DEF StopService, LastService, NoFault, Fault, Upgraded, ImageKnown
<1>20. CASE ServicesDone
  BY <1>20 DEF ServicesDone, Goto, LastService, Upgraded, ImageKnown
<1>21. CASE Sync
  BY <1>21 DEF Sync, Goto, Upgraded, ImageKnown
<1>22. CASE Reboot
  BY <1>22 DEF Reboot, GoDown, NoFault, Upgraded, ImageKnown
<1>23. CASE RebootFails
  BY <1>23 DEF RebootFails, Goto, Upgraded, ImageKnown
<1>24. CASE Die
  BY <1>24 DEF Die, Add, Fault, Upgraded, ImageKnown
<1>25. CASE PowerLoss
  BY <1>25 DEF PowerLoss, GoDown, Fault, Upgraded, ImageKnown
<1>26. CASE UNCHANGED vars
  BY <1>26 DEF vars, Upgraded, ImageKnown
<1> QED BY <1>1, <1>2, <1>3, <1>4, <1>5, <1>6, <1>7, <1>8, <1>9, <1>10, <1>11,
    <1>12, <1>13, <1>14, <1>15, <1>16, <1>17, <1>18, <1>19, <1>20, <1>21, <1>22,
    <1>23, <1>24, <1>25, <1>26 DEF Next, CopyFile

\* The applications follow the image, for any tree of applications and any
\* image names: when nothing failed in the first run, those of an upgraded image
\* are all gone and those of an unchanged one all there.  What lies beside the
\* application directories stays, whatever fails.
THEOREM AppsRemoved == Spec => []AppsFollowImage
<1>1. Init => AppsInv
  BY DEF Init, AppsInv, ImageTypes, BesideInv, TriedInv, Top, Copying, Synced
<1>2. TypeOK /\ AppsInv /\ [Next]_vars => AppsInv'
  BY ImageStep, BesideStep, TriedStep DEF AppsInv
<1>3. AppsInv => AppsFollowImage
  <2> SUFFICES ASSUME AppsInv PROVE AppsFollowImage
    OBVIOUS
  <2>1. Top \ Dirs \subseteq apps
    BY DEF AppsInv, BesideInv
  <2>2. ASSUME pc = "reboot", runs = 1, intact, ImageKnown, ~EndsInNewLine(image.running)
        PROVE  IF UpgradedInScript THEN Doomed \cap apps = {} ELSE apps = Entries
    <3>1. image.flashed \in Seq(STRING) /\ image.running \in Seq(STRING)
      BY <2>2, BoundsAssumption DEF AppsInv, ImageTypes, ImageKnown
    <3>2. /\ InShell(image.flashed) = Chomp(image.flashed)
          /\ InShell(image.running) = image.running
      BY <2>2 DEF ImageKnown, InShell, Chomp
    <3>3. UpgradedInScript <=> Upgraded
      BY <2>2, <3>1, <3>2, ChompContains DEF UpgradedInScript, Upgraded, ImageKnown
    <3> QED BY <2>2, <3>3 DEF AppsInv, TriedInv
  <2> QED BY <2>1, <2>2 DEF AppsFollowImage
<1> QED BY <1>1, <1>2, <1>3, TypeCorrect, PTL DEF Spec

-----------------------------------------------------------------------------
(***************************************************************************)
(* The clock and the services.                                             *)
(***************************************************************************)

\* The loop over the services takes them one by one.
LEMMA AllButOne ==
    ASSUME NEW i \in Nat, i >= 1, i <= Len(Services)
    PROVE  All(i) \ {Services[i]} = All(i + 1)
BY ServicesAssumption DEF All

LEMMA NoneLeft ==
    ASSUME NEW i \in Nat, i > Len(Services) PROVE All(i) = {}
BY ServicesAssumption DEF All

\* A service that the loop has passed is stopped, or something has failed.
LEMMA LoopStep ==
    TypeOK /\ LoopInv /\ [Next]_vars => LoopInv'
<1> SUFFICES ASSUME TypeOK, LoopInv, [Next]_vars PROVE LoopInv'
  OBVIOUS
<1> USE DEF LoopInv, TypeOK, OtherTypes, HistoryTypes, FlagTypes, Copying,
    BeforeStop, tree, temp, disk, cursor, services, history
<1>1. CASE Call
  BY <1>1 DEF Call, Goto
<1>2. CASE SignalServices
  BY <1>2 DEF SignalServices, Goto, NoFault, Fault
<1>3. CASE CheckImage
  BY <1>3 DEF CheckImage, Goto, NoFault, Fault
<1>4. CASE AppsDone
  BY <1>4 DEF AppsDone, Goto
<1>5. CASE RunScripts
  BY <1>5 DEF RunScripts, Goto
<1>6. ASSUME NEW e \in Entries, RemoveEntry(e) PROVE LoopInv'
  BY <1>6 DEF RemoveEntry, NoFault, Fault
<1>7. ASSUME NEW e \in Entries, OpenDirFails(e) PROVE LoopInv'
  BY <1>7 DEF OpenDirFails, NoFault, Fault
<1>8. CASE StartSync
  BY <1>8 DEF StartSync, Goto, NoFault, Fault
<1>9. CASE EndOfDir
  BY <1>9 DEF EndOfDir, Goto
<1>10. ASSUME NEW p \in Lines, NEW k \in 0 .. MaxLines, CopyChunk(p, k) PROVE
    LoopInv'
  BY <1>10 DEF CopyChunk, Reach
<1>11. ASSUME NEW p \in Lines, NEW k \in 0 .. MaxLines, WriteFails(p, k) PROVE
    LoopInv'
  BY <1>11 DEF WriteFails, Goto, Reach, Add, Fault
<1>12. CASE EndOfFile
  BY <1>12 DEF EndOfFile, Goto, Add, NoFault, Fault
<1>13. ASSUME NEW k \in 0 .. MaxLines, CloseLog(k) PROVE LoopInv'
  BY <1>13 DEF CloseLog, Goto, AfterClose, Reach, Add, NoFault, Fault
<1>14. CASE Truncate
  BY <1>14 DEF Truncate, Goto, Add, NoFault, Fault
<1>15. ASSUME NEW f \in Files, ReadDir(f) PROVE LoopInv'
  BY <1>15 DEF ReadDir, IsSupported, NoFault, Fault
<1>16. ASSUME NEW f \in Files, WriteLine(f) PROVE LoopInv'
  BY <1>16 DEF WriteLine, Add
<1>17. CASE OpenClock
  BY <1>17 DEF OpenClock, Goto, NoFault, Fault
<1>18. CASE WriteClock
  BY <1>18 DEF WriteClock, Goto, NoFault, Fault
<1>19. CASE StopService
  <2>1. /\ svc \in Nat /\ svc >= 1 /\ svc <= Len(Services) /\ svc' = svc + 1
        /\ pc = "stop" /\ pc' = "stop" /\ "bluetooth" \in env /\ UNCHANGED env
    BY <1>19 DEF StopService, LastService
  <2>2. All(svc) \ {Services[svc]} = All(svc + 1)
    BY <2>1, AllButOne
  <2>3. active' \subseteq active
    BY <1>19 DEF StopService
  <2>4. intact' => intact /\ active' = active \ {Services[svc]}
    BY <1>19 DEF StopService, NoFault, Fault
  <2> QED BY <2>1, <2>2, <2>3, <2>4
<1>20. CASE ServicesDone
  <2>1. pc = "stop" /\ pc' = "flush" /\ UNCHANGED <<env, active, svc, intact>>
    BY <1>20 DEF ServicesDone, Goto
  <2>2. "bluetooth" \in env => All(svc) = {}
    BY <1>20, NoneLeft DEF ServicesDone, LastService
  <2> QED BY <2>1, <2>2
<1>21. CASE Sync
  BY <1>21 DEF Sync, Goto
<1>22. CASE Reboot
  BY <1>22 DEF Reboot, GoDown, NoFault
<1>23. CASE RebootFails
  BY <1>23 DEF RebootFails, Goto
<1>24. CASE Die
  BY <1>24 DEF Die, Add, Fault
<1>25. CASE PowerLoss
  BY <1>25 DEF PowerLoss, GoDown, Fault
<1>26. CASE UNCHANGED vars
  BY <1>26 DEF vars
<1> QED BY <1>1, <1>2, <1>3, <1>4, <1>5, <1>6, <1>7, <1>8, <1>9, <1>10, <1>11,
    <1>12, <1>13, <1>14, <1>15, <1>16, <1>17, <1>18, <1>19, <1>20, <1>21, <1>22,
    <1>23, <1>24, <1>25, <1>26 DEF Next, CopyFile

\* While nothing at all has failed, the services stop in order.
LEMMA OrderStep ==
    TypeOK /\ LoopInv /\ OrderInv /\ [Next]_vars => OrderInv'
<1> SUFFICES ASSUME TypeOK, LoopInv, OrderInv, [Next]_vars PROVE OrderInv'
  OBVIOUS
<1> USE DEF OrderInv, LoopInv, TypeOK, OtherTypes, HistoryTypes, FlagTypes,
    Copying, BeforeStop, tree, temp, disk, cursor, services, history
<1>1. CASE Call
  BY <1>1 DEF Call, Goto
<1>2. CASE SignalServices
  BY <1>2 DEF SignalServices, Goto, NoFault, Fault
<1>3. CASE CheckImage
  BY <1>3 DEF CheckImage, Goto, NoFault, Fault
<1>4. CASE AppsDone
  BY <1>4 DEF AppsDone, Goto
<1>5. CASE RunScripts
  BY <1>5 DEF RunScripts, Goto
<1>6. ASSUME NEW e \in Entries, RemoveEntry(e) PROVE OrderInv'
  BY <1>6 DEF RemoveEntry, NoFault, Fault
<1>7. ASSUME NEW e \in Entries, OpenDirFails(e) PROVE OrderInv'
  BY <1>7 DEF OpenDirFails, NoFault, Fault
<1>8. CASE StartSync
  BY <1>8 DEF StartSync, Goto, NoFault, Fault
<1>9. CASE EndOfDir
  BY <1>9 DEF EndOfDir, Goto
<1>10. ASSUME NEW p \in Lines, NEW k \in 0 .. MaxLines, CopyChunk(p, k) PROVE
    OrderInv'
  BY <1>10 DEF CopyChunk, Reach
<1>11. ASSUME NEW p \in Lines, NEW k \in 0 .. MaxLines, WriteFails(p, k) PROVE
    OrderInv'
  BY <1>11 DEF WriteFails, Goto, Reach, Add, Fault
<1>12. CASE EndOfFile
  BY <1>12 DEF EndOfFile, Goto, Add, NoFault, Fault
<1>13. ASSUME NEW k \in 0 .. MaxLines, CloseLog(k) PROVE OrderInv'
  BY <1>13 DEF CloseLog, Goto, AfterClose, Reach, Add, NoFault, Fault
<1>14. CASE Truncate
  BY <1>14 DEF Truncate, Goto, Add, NoFault, Fault
<1>15. ASSUME NEW f \in Files, ReadDir(f) PROVE OrderInv'
  BY <1>15 DEF ReadDir, IsSupported, NoFault, Fault
<1>16. ASSUME NEW f \in Files, WriteLine(f) PROVE OrderInv'
  BY <1>16 DEF WriteLine, Add
<1>17. CASE OpenClock
  BY <1>17 DEF OpenClock, Goto, NoFault, Fault
<1>18. CASE WriteClock
  BY <1>18 DEF WriteClock, Goto, NoFault, Fault
<1>19. CASE StopService
  <2>1. /\ svc \in Nat /\ svc >= 1 /\ svc <= Len(Services) /\ svc' = svc + 1
        /\ pc = "stop" /\ pc' = "stop" /\ "bluetooth" \in env /\ UNCHANGED env
    BY <1>19 DEF StopService, LastService
  <2>2. All(svc) \ {Services[svc]} = All(svc + 1)
    BY <2>1, AllButOne
  <2>3. faults' = 0 => faults = 0 /\ active' = active \ {Services[svc]}
    BY <1>19, BoundsAssumption DEF StopService, NoFault, Fault
  <2> QED BY <2>1, <2>2, <2>3
<1>20. CASE ServicesDone
  <2>1. pc = "stop" /\ pc' = "flush" /\ UNCHANGED <<env, active, svc, faults>>
    BY <1>20 DEF ServicesDone, Goto
  <2>2. "bluetooth" \in env => All(svc) = {}
    BY <1>20, NoneLeft DEF ServicesDone, LastService
  <2> QED BY <2>1, <2>2
<1>21. CASE Sync
  BY <1>21 DEF Sync, Goto
<1>22. CASE Reboot
  BY <1>22 DEF Reboot, GoDown, NoFault
<1>23. CASE RebootFails
  BY <1>23 DEF RebootFails, Goto
<1>24. CASE Die
  BY <1>24 DEF Die, Add, Fault
<1>25. CASE PowerLoss
  BY <1>25 DEF PowerLoss, GoDown, Fault
<1>26. CASE UNCHANGED vars
  BY <1>26 DEF vars
<1> QED BY <1>1, <1>2, <1>3, <1>4, <1>5, <1>6, <1>7, <1>8, <1>9, <1>10, <1>11,
    <1>12, <1>13, <1>14, <1>15, <1>16, <1>17, <1>18, <1>19, <1>20, <1>21, <1>22,
    <1>23, <1>24, <1>25, <1>26 DEF Next, CopyFile

\* The loop over the services begins with the clock saved.
LEMMA ClockStep ==
    TypeOK /\ ClockInv /\ [Next]_vars => ClockInv'
<1> SUFFICES ASSUME TypeOK, ClockInv, [Next]_vars PROVE ClockInv'
  OBVIOUS
<1> USE DEF ClockInv, SyncEnabled, SyncNeeded, TypeOK, OtherTypes, HistoryTypes,
    FlagTypes, Copying, BeforeStop, tree, temp, disk, cursor, services, history
<1>1. CASE Call
  BY <1>1 DEF Call, Goto
<1>2. CASE SignalServices
  BY <1>2 DEF SignalServices, Goto, NoFault, Fault
<1>3. CASE CheckImage
  BY <1>3 DEF CheckImage, Goto, NoFault, Fault
<1>4. CASE AppsDone
  BY <1>4 DEF AppsDone, Goto
<1>5. CASE RunScripts
  BY <1>5 DEF RunScripts, Goto
<1>6. ASSUME NEW e \in Entries, RemoveEntry(e) PROVE ClockInv'
  BY <1>6 DEF RemoveEntry, NoFault, Fault
<1>7. ASSUME NEW e \in Entries, OpenDirFails(e) PROVE ClockInv'
  BY <1>7 DEF OpenDirFails, NoFault, Fault
<1>8. CASE StartSync
  BY <1>8 DEF StartSync, Goto, NoFault, Fault
<1>9. CASE EndOfDir
  BY <1>9 DEF EndOfDir, Goto
<1>10. ASSUME NEW p \in Lines, NEW k \in 0 .. MaxLines, CopyChunk(p, k) PROVE
    ClockInv'
  BY <1>10 DEF CopyChunk, Reach
<1>11. ASSUME NEW p \in Lines, NEW k \in 0 .. MaxLines, WriteFails(p, k) PROVE
    ClockInv'
  BY <1>11 DEF WriteFails, Goto, Reach, Add, Fault
<1>12. CASE EndOfFile
  BY <1>12 DEF EndOfFile, Goto, Add, NoFault, Fault
<1>13. ASSUME NEW k \in 0 .. MaxLines, CloseLog(k) PROVE ClockInv'
  BY <1>13 DEF CloseLog, Goto, AfterClose, Reach, Add, NoFault, Fault
<1>14. CASE Truncate
  BY <1>14 DEF Truncate, Goto, Add, NoFault, Fault
<1>15. ASSUME NEW f \in Files, ReadDir(f) PROVE ClockInv'
  BY <1>15 DEF ReadDir, IsSupported, NoFault, Fault
<1>16. ASSUME NEW f \in Files, WriteLine(f) PROVE ClockInv'
  BY <1>16 DEF WriteLine, Add
<1>17. CASE OpenClock
  BY <1>17 DEF OpenClock, Goto, NoFault, Fault
<1>18. CASE WriteClock
  BY <1>18 DEF WriteClock, Goto, NoFault, Fault
<1>19. CASE StopService
  BY <1>19 DEF StopService, LastService, NoFault, Fault
<1>20. CASE ServicesDone
  BY <1>20 DEF ServicesDone, Goto, LastService
<1>21. CASE Sync
  BY <1>21 DEF Sync, Goto
<1>22. CASE Reboot
  BY <1>22 DEF Reboot, GoDown, NoFault
<1>23. CASE RebootFails
  BY <1>23 DEF RebootFails, Goto
<1>24. CASE Die
  BY <1>24 DEF Die, Add, Fault
<1>25. CASE PowerLoss
  BY <1>25 DEF PowerLoss, GoDown, Fault
<1>26. CASE UNCHANGED vars
  BY <1>26 DEF vars
<1> QED BY <1>1, <1>2, <1>3, <1>4, <1>5, <1>6, <1>7, <1>8, <1>9, <1>10, <1>11,
    <1>12, <1>13, <1>14, <1>15, <1>16, <1>17, <1>18, <1>19, <1>20, <1>21, <1>22,
    <1>23, <1>24, <1>25, <1>26 DEF Next, CopyFile

\* When nothing failed, the device goes down with its clock saved and its
\* services stopped, and syslog-ng is never stopped before the others, for any
\* list of services.
THEOREM ReadyWhenDown == Spec => []ReadyToReboot
<1>1. Init => ReadyInv
  BY DEF Init, ReadyInv, LoopInv, OrderInv, ClockInv, BeforeStop, Copying
<1>2. TypeOK /\ ReadyInv /\ [Next]_vars => ReadyInv'
  BY LoopStep, OrderStep, ClockStep DEF ReadyInv
<1>3. TypeOK /\ ReadyInv => ReadyToReboot
  <2> SUFFICES ASSUME TypeOK, ReadyInv PROVE ReadyToReboot
    OBVIOUS
  <2>1. pc = "reboot" /\ intact =>
          /\ "bluetooth" \in env => active = {}
          /\ SyncEnabled /\ {"temp", "systime"} \subseteq env => clock = Now
    BY DEF ReadyInv, LoopInv, ClockInv
  <2>2. ASSUME faults = 0, active # {} PROVE Services[Len(Services)] \in active
    <3>1. active = All(svc) /\ svc \in Nat
      BY <2>2 DEF ReadyInv, OrderInv, TypeOK, OtherTypes
    <3>2. svc <= Len(Services) /\ Len(Services) \in Nat
      BY <2>2, <3>1, NoneLeft, ServicesAssumption
    <3> QED BY <3>1, <3>2 DEF All
  <2> QED BY <2>1, <2>2 DEF ReadyToReboot
<1> QED BY <1>1, <1>2, <1>3, TypeCorrect, PTL DEF Spec
=============================================================================
