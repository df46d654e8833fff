-------------------------- MODULE RebootNowProofs --------------------------
(***************************************************************************)
(* Proofs about RebootNow, for every set of causes, every threshold and    *)
(* any number of faults: type correctness, the bound on a reboot storm,    *)
(* the coherence of stop mode, the agreement of a reboot's records, and    *)
(* the exactness of the reboot counter.                                    *)
(***************************************************************************)
EXTENDS RebootNow, TLAPS

(***************************************************************************)
(* The inductive invariants.                                               *)
(***************************************************************************)

\* Where a run has not yet judged the streak.
BeforeJudgement == {PcIdle} \cup Recording \cup {"compare"}
ResetPath == {"resetRfc", "resetCount", "resetStop", "resetCron"}
HaltPath  == {"stopTouch", "stopRfc", "stopCronDel", "stopCronAdd", "haltTouch"}

\* Only prevOpen and prevWrite are reached with the reboot deferred.
ProceedInv == ~proceed => pc \in {"prevOpen", "prevWrite"}

\* reboot.info names the request from the write on, unless the fetcher has
\* moved it away.
InfoInv ==
    /\ pc = "infoWrite" /\ rebootInfo # Torn => "records" \notin intact
    /\ "run" \in intact =>
         /\ pc = "infoWrite" => rebootInfo \in {Torn, None}
         /\ pc \in {"parodus", "cyclic"} \cup Policy \cup AfterRecord =>
              rebootInfo \in {req, None}

\* previousreboot.info names the request once it is written.
PreviousInv ==
    "run" \in intact =>
        /\ pc = "prevWrite" => previousInfo \in {req, Torn, Derived}
        /\ pc \in AfterRecord => previousInfo = req

\* While nothing has disturbed the records, the last cause is on record and
\* the counter is no shorter than the streak.  This also holds along the way
\* of a run that defers its reboot.
Undisturbed ==
    /\ "records" \in intact /\ lastCause \notin Lossy
    /\ pc \in BeforeJudgement \cup HaltPath \/ ~proceed

CalmInv ==
    Undisturbed =>
        /\ lastCause \in Causes
        /\ rebootCounter >= streak - 1
        /\ pc \in BeforeJudgement => previousInfo = lastCause
        /\ pc \notin BeforeJudgement => req = lastCause
        /\ pc = "prevWrite" => previousInfo \in {req, Torn, Derived}

\* A run that lengthens the streak repeats the last cause, and has counted it
\* below the threshold.
StreakCauseInv ==
    "streak" \in intact => pc \notin BeforeJudgement /\ req = lastCause

StreakCountInv ==
    "streak" \in intact /\ lastCause \notin Lossy =>
        /\ pc \notin ResetPath
        /\ pc = "countOpen" => count = rebootCounter
        /\ pc \in {"countOpen", "countWrite"} => count >= streak - 1
        /\ (pc \in {"prevOpen", "prevWrite"} /\ proceed) \/ pc \in AfterRecord =>
             rebootCounter >= streak /\ streak <= Threshold

StormInv ==
    /\ ProceedInv /\ InfoInv /\ PreviousInv
    /\ CalmInv /\ StreakCauseInv /\ StreakCountInv /\ StormBound

\* Stop mode as the steps of handle_cyclic_reboot build it up and take it down.
StopOn   == "rebootStop" \in markers
CronOn   == "cron" \in settings
EnableOn == "enable" \in settings

StopInv ==
    "stop" \in intact =>
        /\ pc \notin {"stopRfc", "stopCronDel", "stopCronAdd"} \cup (ResetPath \ {"resetRfc"})
             => (StopOn <=> CronOn) /\ (StopOn <=> EnableOn)
        /\ pc = "stopTouch" => ~StopOn
        /\ pc = "stopRfc" => StopOn /\ ~CronOn
        /\ pc \in {"stopCronDel", "stopCronAdd"} => StopOn /\ EnableOn
        /\ pc = "haltTouch" => StopOn
        /\ pc \in {"resetCount", "resetStop"} => ~EnableOn
        /\ pc = "resetCron" => ~EnableOn /\ ~StopOn
        /\ pc \in {"countOpen", "countWrite"} => ~StopOn

FlagInv ==
    "stop" \in intact /\ StopOn /\
      pc \notin {"compare"} \cup HaltPath \cup ResetPath => "rebootNow" \in markers

ResetInv == pc = "resetCron" /\ "run" \in intact => ~StopOn

CoherenceInv == StopInv /\ FlagInv /\ ResetInv

\* What the steps after the records have left, in a run without a file fault.
AgreeInv ==
    "run" \in intact =>
        /\ pc \in {"cyclic"} \cup Policy \cup AfterRecord => parodusInfo \in {req, None}
        /\ pc \in {"flag"} \cup Rebooting =>
             ("maintenance" \in markers <=> req \in Maintenance)
        /\ pc \in Rebooting => "rebootNow" \in markers

\* A streak is about a cause, and records that nothing disturbed are those of
\* a reboot.
StreakStartInv ==
    /\ lastCause # None <=> streak > 0
    /\ "records" \in intact => lastCause # None

\* A reset without a fault has set the counter to 0.
FreshInv == pc \in {"resetStop", "resetCron"} /\ "run" \in intact => rebootCounter = 0

\* While the counter is neither stale nor short, the record that the policy
\* compares the next request with is the last cause's, or one that the fetcher
\* derived and that equals no request.
LastOnRecord ==
    \/ "records" \in intact /\ previousInfo = lastCause
    \/ "records" \notin intact /\ previousInfo \in {None, Derived}

OnRecordInv ==
    "counter" \in intact =>
        /\ pc # PcIdle => "run" \in intact
        /\ pc \in BeforeJudgement => LastOnRecord
        /\ pc = PcIdle =>
             rebootInfo = None \/ ("records" \in intact /\ rebootInfo = lastCause)
        /\ pc = "infoWrite" => rebootInfo = Torn
        /\ pc \in HaltPath \/ ~proceed => req = lastCause /\ "records" \in intact
        /\ ~proceed /\ pc = "prevWrite" => previousInfo = Torn

\* What the counter is for: the repetitions of the last cause, none of which a
\* record that does not give the cause back has let pass.
Repetitions == IF lastCause \in Lossy \/ streak = 0 THEN 0 ELSE streak - 1

\* The counter along a run: exact until the run is judged and wherever it is
\* then deferred, read into count where it is incremented, and from there on,
\* or from the reset on, what it has to be after the reboot.
Completing == (pc \in {"prevOpen", "prevWrite"} /\ proceed) \/ pc \in AfterRecord

ExactInv ==
    "counter" \in intact =>
        /\ pc \in BeforeJudgement \cup HaltPath \/ ~proceed => rebootCounter = Repetitions
        /\ pc \in {"countOpen", "countWrite"} =>
             count = Repetitions /\ "streak" \in intact /\ req \notin Lossy
        /\ Completing =>
             rebootCounter = IF "streak" \in intact /\ req \notin Lossy THEN streak ELSE 0

CounterInv == StreakStartInv /\ FreshInv /\ OnRecordInv /\ ExactInv

-----------------------------------------------------------------------------
(***************************************************************************)
(* Type correctness.                                                       *)
(***************************************************************************)

\* No cause is mistaken for a missing, torn, derived or garbled record.
LEMMA CausesDistinct ==
    \A c \in Causes : c # None /\ c # Torn /\ c # Derived /\ c # Garbled
BY CausesAssumption DEF None, Torn, Derived, Garbled

\* Every step of rebootnow, of the fetcher and of the environment keeps the
\* variables in their types; in particular rebootCounter never exceeds the
\* threshold.
LEMMA TypeStep == TypeOK /\ [Next]_vars => TypeOK'
<1> SUFFICES ASSUME TypeOK, [Next]_vars PROVE TypeOK'
  OBVIOUS
<1> USE CausesAssumption, BoundsAssumption, CausesDistinct
    DEF TypeOK, FileTypes, RunTypes, HistoryTypes, IntactTypes, Markers, Settings, Aspects,
        PcIdle, Recording, Policy, AfterRecord, Rebooting, StreakCap, records,
        local, history
<1>1. ASSUME NEW c \in Causes, Request(c) PROVE TypeOK'
  <2>1. FileTypes'
    BY <1>1 DEF Request, Goto
  <2>2. RunTypes'
    BY <1>1 DEF Request, Goto
  <2>3. HistoryTypes'
    BY <1>1 DEF Request, Goto
  <2>4. IntactTypes'
    BY <1>1 DEF Request, Goto
  <2> QED BY <2>1, <2>2, <2>3, <2>4
<1>2. CASE OpenRebootInfo
  <2>1. FileTypes'
    BY <1>2 DEF OpenRebootInfo, Goto, FileStep, FileFault, CountFault
  <2>2. RunTypes'
    BY <1>2 DEF OpenRebootInfo, Goto, FileStep, FileFault, CountFault
  <2>3. HistoryTypes'
    BY <1>2 DEF OpenRebootInfo, Goto, FileStep, FileFault, CountFault
  <2>4. IntactTypes'
    BY <1>2 DEF OpenRebootInfo, Goto, FileStep, FileFault, CountFault
  <2> QED BY <2>1, <2>2, <2>3, <2>4
<1>3. CASE WriteRebootInfo
  <2>1. FileTypes'
    BY <1>3 DEF WriteRebootInfo, Goto
  <2>2. RunTypes'
    BY <1>3 DEF WriteRebootInfo, Goto
  <2>3. HistoryTypes'
    BY <1>3 DEF WriteRebootInfo, Goto
  <2>4. IntactTypes'
    BY <1>3 DEF WriteRebootInfo, Goto
  <2> QED BY <2>1, <2>2, <2>3, <2>4
<1>4. CASE WriteParodusInfo
  <2>1. FileTypes'
    BY <1>4 DEF WriteParodusInfo, Goto, FileStep, FileFault, CountFault
  <2>2. RunTypes'
    BY <1>4 DEF WriteParodusInfo, Goto, FileStep, FileFault, CountFault
  <2>3. HistoryTypes'
    BY <1>4 DEF WriteParodusInfo, Goto, FileStep, FileFault, CountFault
  <2>4. IntactTypes'
    BY <1>4 DEF WriteParodusInfo, Goto, FileStep, FileFault, CountFault
  <2> QED BY <2>1, <2>2, <2>3, <2>4
<1>5. CASE Evaluate
  <2>1. FileTypes'
    BY <1>5 DEF Evaluate, Goto, Unlink, FileStep, FileFault, CountFault
  <2>2. RunTypes'
    BY <1>5 DEF Evaluate, Goto, Unlink, FileStep, FileFault, CountFault
  <2>3. HistoryTypes'
    BY <1>5 DEF Evaluate, Goto, Unlink, FileStep, FileFault, CountFault
  <2>4. IntactTypes'
    BY <1>5 DEF Evaluate, Goto, Unlink, FileStep, FileFault, CountFault
  <2> QED BY <2>1, <2>2, <2>3, <2>4
<1>6. CASE Bypass
  <2>1. FileTypes'
    BY <1>6 DEF Bypass, Goto
  <2>2. RunTypes'
    BY <1>6 DEF Bypass, Goto
  <2>3. HistoryTypes'
    BY <1>6 DEF Bypass, Goto
  <2>4. IntactTypes'
    BY <1>6 DEF Bypass, Goto
  <2> QED BY <2>1, <2>2, <2>3, <2>4
<1>7. CASE HaltAgain
  <2>1. FileTypes'
    BY <1>7 DEF HaltAgain, Goto, SameCauseInWindow, PreviousCause,
        JudgeStreak, CompareKeeps
  <2>2. RunTypes'
    BY <1>7 DEF HaltAgain, Goto, SameCauseInWindow, PreviousCause,
        JudgeStreak, CompareKeeps
  <2>3. HistoryTypes'
    BY <1>7 DEF HaltAgain, Goto, SameCauseInWindow, PreviousCause,
        JudgeStreak, CompareKeeps
  <2>4. IntactTypes'
    BY <1>7 DEF HaltAgain, Goto, SameCauseInWindow, PreviousCause,
        JudgeStreak, CompareKeeps
  <2> QED BY <2>1, <2>2, <2>3, <2>4
<1>8. CASE DetectLoop
  <2>1. FileTypes'
    BY <1>8 DEF DetectLoop, Goto, SameCauseInWindow, PreviousCause,
        JudgeStreak, CompareKeeps
  <2>2. RunTypes'
    BY <1>8 DEF DetectLoop, Goto, SameCauseInWindow, PreviousCause,
        JudgeStreak, CompareKeeps
  <2>3. HistoryTypes'
    BY <1>8 DEF DetectLoop, Goto, SameCauseInWindow, PreviousCause,
        JudgeStreak, CompareKeeps
  <2>4. IntactTypes'
    BY <1>8 DEF DetectLoop, Goto, SameCauseInWindow, PreviousCause,
        JudgeStreak, CompareKeeps
  <2> QED BY <2>1, <2>2, <2>3, <2>4
<1>9. CASE CountReboot
  <2>1. FileTypes'
    BY <1>9 DEF CountReboot, Goto, SameCauseInWindow, PreviousCause,
        JudgeStreak, CompareKeeps
  <2>2. RunTypes'
    BY <1>9 DEF CountReboot, Goto, SameCauseInWindow, PreviousCause,
        JudgeStreak, CompareKeeps
  <2>3. HistoryTypes'
    BY <1>9 DEF CountReboot, Goto, SameCauseInWindow, PreviousCause,
        JudgeStreak, CompareKeeps
  <2>4. IntactTypes'
    BY <1>9 DEF CountReboot, Goto, SameCauseInWindow, PreviousCause,
        JudgeStreak, CompareKeeps
  <2> QED BY <2>1, <2>2, <2>3, <2>4
<1>10. CASE NotInLoop
  <2>1. FileTypes'
    BY <1>10 DEF NotInLoop, Goto, SameCauseInWindow, PreviousCause,
        JudgeStreak, CompareKeeps, FileFault, CountFault
  <2>2. RunTypes'
    BY <1>10 DEF NotInLoop, Goto, SameCauseInWindow, PreviousCause,
        JudgeStreak, CompareKeeps, FileFault, CountFault
  <2>3. HistoryTypes'
    BY <1>10 DEF NotInLoop, Goto, SameCauseInWindow, PreviousCause,
        JudgeStreak, CompareKeeps, FileFault, CountFault
  <2>4. IntactTypes'
    BY <1>10 DEF NotInLoop, Goto, SameCauseInWindow, PreviousCause,
        JudgeStreak, CompareKeeps, FileFault, CountFault
  <2> QED BY <2>1, <2>2, <2>3, <2>4
<1>11. CASE OpenCounter
  <2>1. FileTypes'
    BY <1>11 DEF OpenCounter, Goto, FileStep, FileFault, CountFault
  <2>2. RunTypes'
    BY <1>11 DEF OpenCounter, Goto, FileStep, FileFault, CountFault
  <2>3. HistoryTypes'
    BY <1>11 DEF OpenCounter, Goto, FileStep, FileFault, CountFault
  <2>4. IntactTypes'
    BY <1>11 DEF OpenCounter, Goto, FileStep, FileFault, CountFault
  <2> QED BY <2>1, <2>2, <2>3, <2>4
<1>12. CASE WriteCounter
  <2>1. FileTypes'
    BY <1>12 DEF WriteCounter, Goto
  <2>2. RunTypes'
    BY <1>12 DEF WriteCounter, Goto
  <2>3. HistoryTypes'
    BY <1>12 DEF WriteCounter, Goto
  <2>4. IntactTypes'
    BY <1>12 DEF WriteCounter, Goto
  <2> QED BY <2>1, <2>2, <2>3, <2>4
<1>13. CASE StopTouch
  <2>1. FileTypes'
    BY <1>13 DEF StopTouch, Goto, Touch, FileStep, FileFault, CountFault
  <2>2. RunTypes'
    BY <1>13 DEF StopTouch, Goto, Touch, FileStep, FileFault, CountFault
  <2>3. HistoryTypes'
    BY <1>13 DEF StopTouch, Goto, Touch, FileStep, FileFault, CountFault
  <2>4. IntactTypes'
    BY <1>13 DEF StopTouch, Goto, Touch, FileStep, FileFault, CountFault
  <2> QED BY <2>1, <2>2, <2>3, <2>4
<1>14. CASE StopRfc
  <2>1. FileTypes'
    BY <1>14 DEF StopRfc, Goto, ServiceStep, ServiceFault, CountFault
  <2>2. RunTypes'
    BY <1>14 DEF StopRfc, Goto, ServiceStep, ServiceFault, CountFault
  <2>3. HistoryTypes'
    BY <1>14 DEF StopRfc, Goto, ServiceStep, ServiceFault, CountFault
  <2>4. IntactTypes'
    BY <1>14 DEF StopRfc, Goto, ServiceStep, ServiceFault, CountFault
  <2> QED BY <2>1, <2>2, <2>3, <2>4
<1>15. CASE StopCronRemove
  <2>1. FileTypes'
    BY <1>15 DEF StopCronRemove, Goto, ServiceStep, ServiceFault, CountFault
  <2>2. RunTypes'
    BY <1>15 DEF StopCronRemove, Goto, ServiceStep, ServiceFault, CountFault
  <2>3. HistoryTypes'
    BY <1>15 DEF StopCronRemove, Goto, ServiceStep, ServiceFault, CountFault
  <2>4. IntactTypes'
    BY <1>15 DEF StopCronRemove, Goto, ServiceStep, ServiceFault, CountFault
  <2> QED BY <2>1, <2>2, <2>3, <2>4
<1>16. CASE StopCronAdd
  <2>1. FileTypes'
    BY <1>16 DEF StopCronAdd, Goto, ServiceStep, ServiceFault, CountFault
  <2>2. RunTypes'
    BY <1>16 DEF StopCronAdd, Goto, ServiceStep, ServiceFault, CountFault
  <2>3. HistoryTypes'
    BY <1>16 DEF StopCronAdd, Goto, ServiceStep, ServiceFault, CountFault
  <2>4. IntactTypes'
    BY <1>16 DEF StopCronAdd, Goto, ServiceStep, ServiceFault, CountFault
  <2> QED BY <2>1, <2>2, <2>3, <2>4
<1>17. CASE HaltTouch
  <2>1. FileTypes'
    BY <1>17 DEF HaltTouch, Goto, Touch, FileStep, FileFault, CountFault
  <2>2. RunTypes'
    BY <1>17 DEF HaltTouch, Goto, Touch, FileStep, FileFault, CountFault
  <2>3. HistoryTypes'
    BY <1>17 DEF HaltTouch, Goto, Touch, FileStep, FileFault, CountFault
  <2>4. IntactTypes'
    BY <1>17 DEF HaltTouch, Goto, Touch, FileStep, FileFault, CountFault
  <2> QED BY <2>1, <2>2, <2>3, <2>4
<1>18. CASE ResetRfc
  <2>1. FileTypes'
    BY <1>18 DEF ResetRfc, Goto, ServiceStep, ServiceFault, CountFault
  <2>2. RunTypes'
    BY <1>18 DEF ResetRfc, Goto, ServiceStep, ServiceFault, CountFault
  <2>3. HistoryTypes'
    BY <1>18 DEF ResetRfc, Goto, ServiceStep, ServiceFault, CountFault
  <2>4. IntactTypes'
    BY <1>18 DEF ResetRfc, Goto, ServiceStep, ServiceFault, CountFault
  <2> QED BY <2>1, <2>2, <2>3, <2>4
<1>19. CASE ResetCounter
  <2>1. FileTypes'
    BY <1>19 DEF ResetCounter, Goto, FileStep, FileFault, CountFault
  <2>2. RunTypes'
    BY <1>19 DEF ResetCounter, Goto, FileStep, FileFault, CountFault
  <2>3. HistoryTypes'
    BY <1>19 DEF ResetCounter, Goto, FileStep, FileFault, CountFault
  <2>4. IntactTypes'
    BY <1>19 DEF ResetCounter, Goto, FileStep, FileFault, CountFault
  <2> QED BY <2>1, <2>2, <2>3, <2>4
<1>20. CASE ResetStop
  <2>1. FileTypes'
    BY <1>20 DEF ResetStop, Goto, Unlink, FileStep, FileFault, CountFault
  <2>2. RunTypes'
    BY <1>20 DEF ResetStop, Goto, Unlink, FileStep, FileFault, CountFault
  <2>3. HistoryTypes'
    BY <1>20 DEF ResetStop, Goto, Unlink, FileStep, FileFault, CountFault
  <2>4. IntactTypes'
    BY <1>20 DEF ResetStop, Goto, Unlink, FileStep, FileFault, CountFault
  <2> QED BY <2>1, <2>2, <2>3, <2>4
<1>21. CASE ResetCron
  <2>1. FileTypes'
    BY <1>21 DEF ResetCron, Goto, Repaired, ServiceFault, CountFault
  <2>2. RunTypes'
    BY <1>21 DEF ResetCron, Goto, Repaired, ServiceFault, CountFault
  <2>3. HistoryTypes'
    BY <1>21 DEF ResetCron, Goto, Repaired, ServiceFault, CountFault
  <2>4. IntactTypes'
    BY <1>21 DEF ResetCron, Goto, Repaired, ServiceFault, CountFault
  <2> QED BY <2>1, <2>2, <2>3, <2>4
<1>22. CASE OpenPrevious
  <2>1. FileTypes'
    BY <1>22 DEF OpenPrevious, Goto, RunEnds, FileFault, CountFault
  <2>2. RunTypes'
    <3>1. CASE pc' = PcIdle
      <4>1. RunEnds
        BY <1>22, <3>1 DEF OpenPrevious, Goto
      <4>2. UNCHANGED uptime
        BY <1>22 DEF OpenPrevious
      <4> QED BY <4>1, <4>2 DEF RunEnds
    <3>2. CASE pc' # PcIdle
      <4>1. UNCHANGED <<local, uptime>> /\ pc = "prevOpen"
        BY <1>22, <3>2 DEF OpenPrevious, Goto, RunEnds
      <4>2. pc' \in {"prevWrite", "maint"}
        BY <1>22, <3>2 DEF OpenPrevious, Goto, RunEnds
      <4> QED BY <4>1, <4>2
    <3> QED BY <3>1, <3>2
  <2>3. HistoryTypes'
    BY <1>22 DEF OpenPrevious, Goto, RunEnds, FileFault, CountFault
  <2>4. IntactTypes'
    BY <1>22 DEF OpenPrevious, Goto, RunEnds, FileFault, CountFault
  <2> QED BY <2>1, <2>2, <2>3, <2>4
<1>23. CASE WritePrevious
  <2>1. FileTypes'
    BY <1>23 DEF WritePrevious, Goto, SavedPrevious
  <2>2. RunTypes'
    BY <1>23 DEF WritePrevious, Goto, SavedPrevious
  <2>3. HistoryTypes'
    BY <1>23 DEF WritePrevious, Goto, SavedPrevious
  <2>4. IntactTypes'
    BY <1>23 DEF WritePrevious, Goto, SavedPrevious
  <2> QED BY <2>1, <2>2, <2>3, <2>4
<1>24. CASE Defer
  <2>1. FileTypes'
    BY <1>24 DEF Defer, SavedPrevious, RunEnds
  <2>2. RunTypes'
    BY <1>24 DEF Defer, SavedPrevious, RunEnds
  <2>3. HistoryTypes'
    BY <1>24 DEF Defer, SavedPrevious, RunEnds
  <2>4. IntactTypes'
    BY <1>24 DEF Defer, SavedPrevious, RunEnds
  <2> QED BY <2>1, <2>2, <2>3, <2>4
<1>25. CASE UpdateMaintenanceFlag
  <2>1. FileTypes'
    BY <1>25 DEF UpdateMaintenanceFlag, Goto, Touch, Unlink, FileStep,
        FileFault, CountFault
  <2>2. RunTypes'
    BY <1>25 DEF UpdateMaintenanceFlag, Goto, Touch, Unlink, FileStep,
        FileFault, CountFault
  <2>3. HistoryTypes'
    BY <1>25 DEF UpdateMaintenanceFlag, Goto, Touch, Unlink, FileStep,
        FileFault, CountFault
  <2>4. IntactTypes'
    BY <1>25 DEF UpdateMaintenanceFlag, Goto, Touch, Unlink, FileStep,
        FileFault, CountFault
  <2> QED BY <2>1, <2>2, <2>3, <2>4
<1>26. CASE TouchRebootNow
  <2>1. FileTypes'
    BY <1>26 DEF TouchRebootNow, Goto, Touch, FileStep, FileFault, CountFault
  <2>2. RunTypes'
    BY <1>26 DEF TouchRebootNow, Goto, Touch, FileStep, FileFault, CountFault
  <2>3. HistoryTypes'
    BY <1>26 DEF TouchRebootNow, Goto, Touch, FileStep, FileFault, CountFault
  <2>4. IntactTypes'
    BY <1>26 DEF TouchRebootNow, Goto, Touch, FileStep, FileFault, CountFault
  <2> QED BY <2>1, <2>2, <2>3, <2>4
<1>27. CASE RebootIgnored
  <2>1. FileTypes'
    BY <1>27 DEF RebootIgnored, Goto
  <2>2. RunTypes'
    BY <1>27 DEF RebootIgnored, Goto
  <2>3. HistoryTypes'
    BY <1>27 DEF RebootIgnored, Goto
  <2>4. IntactTypes'
    BY <1>27 DEF RebootIgnored, Goto
  <2> QED BY <2>1, <2>2, <2>3, <2>4
<1>28. CASE RebootFailed
  <2>1. FileTypes'
    BY <1>28 DEF RebootFailed, RunEnds
  <2>2. RunTypes'
    BY <1>28 DEF RebootFailed, RunEnds
  <2>3. HistoryTypes'
    BY <1>28 DEF RebootFailed, RunEnds
  <2>4. IntactTypes'
    BY <1>28 DEF RebootFailed, RunEnds
  <2> QED BY <2>1, <2>2, <2>3, <2>4
<1>29. CASE GoDown
  <2>1. FileTypes'
    BY <1>29 DEF GoDown, RunEnds, Rebooting
  <2>2. RunTypes'
    BY <1>29 DEF GoDown, RunEnds, Rebooting
  <2>3. HistoryTypes'
    BY <1>29 DEF GoDown, RunEnds, Rebooting
  <2>4. IntactTypes'
    BY <1>29 DEF GoDown, RunEnds, Rebooting
  <2> QED BY <2>1, <2>2, <2>3, <2>4
<1>30. CASE WindowExpires
  <2>1. FileTypes'
    BY <1>30 DEF WindowExpires
  <2>2. RunTypes'
    BY <1>30 DEF WindowExpires
  <2>3. HistoryTypes'
    BY <1>30 DEF WindowExpires
  <2>4. IntactTypes'
    BY <1>30 DEF WindowExpires
  <2> QED BY <2>1, <2>2, <2>3, <2>4
<1>31. CASE SetDetection
  <2>1. FileTypes'
    BY <1>31 DEF SetDetection
  <2>2. RunTypes'
    BY <1>31 DEF SetDetection
  <2>3. HistoryTypes'
    BY <1>31 DEF SetDetection
  <2>4. IntactTypes'
    BY <1>31 DEF SetDetection
  <2> QED BY <2>1, <2>2, <2>3, <2>4
<1>32. CASE Fetch
  <2>1. FileTypes'
    BY <1>32 DEF Fetch
  <2>2. RunTypes'
    BY <1>32 DEF Fetch
  <2>3. HistoryTypes'
    BY <1>32 DEF Fetch
  <2>4. IntactTypes'
    BY <1>32 DEF Fetch
  <2> QED BY <2>1, <2>2, <2>3, <2>4
<1>33. CASE CronLost
  <2>1. FileTypes'
    BY <1>33 DEF CronLost, ServiceFault, CountFault
  <2>2. RunTypes'
    BY <1>33 DEF CronLost, ServiceFault, CountFault
  <2>3. HistoryTypes'
    BY <1>33 DEF CronLost, ServiceFault, CountFault
  <2>4. IntactTypes'
    BY <1>33 DEF CronLost, ServiceFault, CountFault
  <2> QED BY <2>1, <2>2, <2>3, <2>4
<1>34. CASE ProcessDies
  <2>1. FileTypes'
    BY <1>34 DEF ProcessDies, RunEnds, FileFault, CountFault
  <2>2. RunTypes'
    BY <1>34 DEF ProcessDies, RunEnds, FileFault, CountFault
  <2>3. HistoryTypes'
    BY <1>34 DEF ProcessDies, RunEnds, FileFault, CountFault
  <2>4. IntactTypes'
    BY <1>34 DEF ProcessDies, RunEnds, FileFault, CountFault
  <2> QED BY <2>1, <2>2, <2>3, <2>4
<1>35. CASE PowerLoss
  <2>1. FileTypes'
    BY <1>35 DEF PowerLoss, RunEnds, CountFault
  <2>2. RunTypes'
    BY <1>35 DEF PowerLoss, RunEnds, CountFault
  <2>3. HistoryTypes'
    BY <1>35 DEF PowerLoss, RunEnds, CountFault
  <2>4. IntactTypes'
    BY <1>35 DEF PowerLoss, RunEnds, CountFault
  <2> QED BY <2>1, <2>2, <2>3, <2>4
<1>36. CASE UNCHANGED vars
  <2>1. FileTypes'
    BY <1>36 DEF vars
  <2>2. RunTypes'
    BY <1>36 DEF vars
  <2>3. HistoryTypes'
    BY <1>36 DEF vars
  <2>4. IntactTypes'
    BY <1>36 DEF vars
  <2> QED BY <2>1, <2>2, <2>3, <2>4
<1> QED BY <1>1, <1>2, <1>3, <1>4, <1>5, <1>6, <1>7, <1>8, <1>9, <1>10, <1>11,
    <1>12, <1>13, <1>14, <1>15, <1>16, <1>17, <1>18, <1>19, <1>20, <1>21, <1>22,
    <1>23, <1>24, <1>25, <1>26, <1>27, <1>28, <1>29, <1>30, <1>31, <1>32, <1>33,
    <1>34, <1>35, <1>36, CausesAssumption DEF Next, Run, RecordSteps, PolicySteps,
    RebootSteps, Environment, CronFires

\* The type invariant holds in every state rebootnow can reach: in particular
\* rebootCounter stays within the threshold that handle_cyclic_reboot compares
\* it with, whatever faults interrupt a run.
THEOREM TypeCorrect == Spec => []TypeOK
<1>1. Init => TypeOK
  BY BoundsAssumption, CausesDistinct
     DEF Init, TypeOK, FileTypes, RunTypes, HistoryTypes, IntactTypes, Markers, Settings,
         Aspects, PcIdle, Recording, Policy, AfterRecord, Rebooting, StreakCap
<1> QED BY <1>1, TypeStep, PTL DEF Spec

-----------------------------------------------------------------------------
(***************************************************************************)
(* The bound on a reboot storm.                                            *)
(***************************************************************************)

\* A deferred run only writes its previous record.
LEMMA ProceedStep ==
    TypeOK /\ ProceedInv /\ [Next]_vars => ProceedInv'
<1> SUFFICES ASSUME TypeOK, ProceedInv, [Next]_vars PROVE ProceedInv'
  OBVIOUS
<1> USE DEF ProceedInv, PcIdle, Recording, Policy, AfterRecord, Rebooting,
    records, local, history
<1>1. ASSUME NEW c \in Causes, Request(c) PROVE ProceedInv'
  BY <1>1 DEF Request, Goto
<1>2. CASE OpenRebootInfo
  BY <1>2 DEF OpenRebootInfo, Goto, FileStep, FileFault, CountFault
<1>3. CASE WriteRebootInfo
  BY <1>3 DEF WriteRebootInfo, Goto
<1>4. CASE WriteParodusInfo
  BY <1>4 DEF WriteParodusInfo, Goto, FileStep, FileFault, CountFault
<1>5. CASE Evaluate
  BY <1>5 DEF Evaluate, Goto, Unlink, FileStep, FileFault, CountFault
<1>6. CASE Bypass
  BY <1>6 DEF Bypass, Goto
<1>7. CASE HaltAgain
  BY <1>7 DEF HaltAgain, Goto, SameCauseInWindow, PreviousCause, JudgeStreak,
      CompareKeeps
<1>8. CASE DetectLoop
  BY <1>8 DEF DetectLoop, Goto, SameCauseInWindow, PreviousCause, JudgeStreak,
      CompareKeeps
<1>9. CASE CountReboot
  BY <1>9 DEF CountReboot, Goto, SameCauseInWindow, PreviousCause,
      JudgeStreak, CompareKeeps
<1>10. CASE NotInLoop
  BY <1>10 DEF NotInLoop, Goto, SameCauseInWindow, PreviousCause, JudgeStreak,
      CompareKeeps, FileFault, CountFault
<1>11. CASE OpenCounter
  BY <1>11 DEF OpenCounter, Goto, FileStep, FileFault, CountFault
<1>12. CASE WriteCounter
  BY <1>12 DEF WriteCounter, Goto
<1>13. CASE StopTouch
  BY <1>13 DEF StopTouch, Goto, Touch, FileStep, FileFault, CountFault
<1>14. CASE StopRfc
  BY <1>14 DEF StopRfc, Goto, ServiceStep, ServiceFault, CountFault
<1>15. CASE StopCronRemove
  BY <1>15 DEF StopCronRemove, Goto, ServiceStep, ServiceFault, CountFault
<1>16. CASE StopCronAdd
  BY <1>16 DEF StopCronAdd, Goto, ServiceStep, ServiceFault, CountFault
<1>17. CASE HaltTouch
  BY <1>17 DEF HaltTouch, Goto, Touch, FileStep, FileFault, CountFault
<1>18. CASE ResetRfc
  BY <1>18 DEF ResetRfc, Goto, ServiceStep, ServiceFault, CountFault
<1>19. CASE ResetCounter
  BY <1>19 DEF ResetCounter, Goto, FileStep, FileFault, CountFault
<1>20. CASE ResetStop
  BY <1>20 DEF ResetStop, Goto, Unlink, FileStep, FileFault, CountFault
<1>21. CASE ResetCron
  BY <1>21 DEF ResetCron, Goto, Repaired, ServiceFault, CountFault
<1>22. CASE OpenPrevious
  BY <1>22 DEF OpenPrevious, Goto, RunEnds, FileFault, CountFault
<1>23. CASE WritePrevious
  BY <1>23 DEF WritePrevious, Goto, SavedPrevious
<1>24. CASE Defer
  BY <1>24 DEF Defer, SavedPrevious, RunEnds
<1>25. CASE UpdateMaintenanceFlag
  BY <1>25 DEF UpdateMaintenanceFlag, Goto, Touch, Unlink, FileStep,
      FileFault, CountFault
<1>26. CASE TouchRebootNow
  BY <1>26 DEF TouchRebootNow, Goto, Touch, FileStep, FileFault, CountFault
<1>27. CASE RebootIgnored
  BY <1>27 DEF RebootIgnored, Goto
<1>28. CASE RebootFailed
  BY <1>28 DEF RebootFailed, RunEnds
<1>29. CASE GoDown
  BY <1>29 DEF GoDown, RunEnds, Rebooting
<1>30. CASE WindowExpires
  BY <1>30 DEF WindowExpires
<1>31. CASE SetDetection
  BY <1>31 DEF SetDetection
<1>32. CASE Fetch
  BY <1>32 DEF Fetch
<1>33. CASE CronLost
  BY <1>33 DEF CronLost, ServiceFault, CountFault
<1>34. CASE ProcessDies
  BY <1>34 DEF ProcessDies, RunEnds, FileFault, CountFault
<1>35. CASE PowerLoss
  BY <1>35 DEF PowerLoss, RunEnds, CountFault
<1>36. CASE UNCHANGED vars
  BY <1>36 DEF vars
<1> QED BY <1>1, <1>2, <1>3, <1>4, <1>5, <1>6, <1>7, <1>8, <1>9, <1>10, <1>11,
    <1>12, <1>13, <1>14, <1>15, <1>16, <1>17, <1>18, <1>19, <1>20, <1>21, <1>22,
    <1>23, <1>24, <1>25, <1>26, <1>27, <1>28, <1>29, <1>30, <1>31, <1>32, <1>33,
    <1>34, <1>35, <1>36, CausesAssumption DEF Next, Run, RecordSteps, PolicySteps,
    RebootSteps, Environment, CronFires

\* reboot.info is the request's or gone.
LEMMA InfoStep ==
    TypeOK /\ InfoInv /\ [Next]_vars => InfoInv'
<1> SUFFICES ASSUME TypeOK, InfoInv, [Next]_vars PROVE InfoInv'
  OBVIOUS
<1> USE CausesDistinct DEF InfoInv, TypeOK, FileTypes, RunTypes, HistoryTypes,
    IntactTypes, PcIdle, Recording, Policy, AfterRecord, Rebooting, records,
    local, history
<1>1. ASSUME NEW c \in Causes, Request(c) PROVE InfoInv'
  BY <1>1 DEF Request, Goto
<1>2. CASE OpenRebootInfo
  BY <1>2 DEF OpenRebootInfo, Goto, FileStep, FileFault, CountFault
<1>3. CASE WriteRebootInfo
  BY <1>3 DEF WriteRebootInfo, Goto
<1>4. CASE WriteParodusInfo
  BY <1>4 DEF WriteParodusInfo, Goto, FileStep, FileFault, CountFault
<1>5. CASE Evaluate
  BY <1>5 DEF Evaluate, Goto, Unlink, FileStep, FileFault, CountFault
<1>6. CASE Bypass
  BY <1>6 DEF Bypass, Goto
<1>7. CASE HaltAgain
  BY <1>7 DEF HaltAgain, Goto, SameCauseInWindow, PreviousCause, JudgeStreak,
      CompareKeeps
<1>8. CASE DetectLoop
  BY <1>8 DEF DetectLoop, Goto, SameCauseInWindow, PreviousCause, JudgeStreak,
      CompareKeeps
<1>9. CASE CountReboot
  BY <1>9 DEF CountReboot, Goto, SameCauseInWindow, PreviousCause,
      JudgeStreak, CompareKeeps
<1>10. CASE NotInLoop
  BY <1>10 DEF NotInLoop, Goto, SameCauseInWindow, PreviousCause, JudgeStreak,
      CompareKeeps, FileFault, CountFault
<1>11. CASE OpenCounter
  BY <1>11 DEF OpenCounter, Goto, FileStep, FileFault, CountFault
<1>12. CASE WriteCounter
  BY <1>12 DEF WriteCounter, Goto
<1>13. CASE StopTouch
  BY <1>13 DEF StopTouch, Goto, Touch, FileStep, FileFault, CountFault
<1>14. CASE StopRfc
  BY <1>14 DEF StopRfc, Goto, ServiceStep, ServiceFault, CountFault
<1>15. CASE StopCronRemove
  BY <1>15 DEF StopCronRemove, Goto, ServiceStep, ServiceFault, CountFault
<1>16. CASE StopCronAdd
  BY <1>16 DEF StopCronAdd, Goto, ServiceStep, ServiceFault, CountFault
<1>17. CASE HaltTouch
  BY <1>17 DEF HaltTouch, Goto, Touch, FileStep, FileFault, CountFault
<1>18. CASE ResetRfc
  BY <1>18 DEF ResetRfc, Goto, ServiceStep, ServiceFault, CountFault
<1>19. CASE ResetCounter
  BY <1>19 DEF ResetCounter, Goto, FileStep, FileFault, CountFault
<1>20. CASE ResetStop
  BY <1>20 DEF ResetStop, Goto, Unlink, FileStep, FileFault, CountFault
<1>21. CASE ResetCron
  BY <1>21 DEF ResetCron, Goto, Repaired, ServiceFault, CountFault
<1>22. CASE OpenPrevious
  BY <1>22 DEF OpenPrevious, Goto, RunEnds, FileFault, CountFault
<1>23. CASE WritePrevious
  BY <1>23 DEF WritePrevious, Goto, SavedPrevious
<1>24. CASE Defer
  BY <1>24 DEF Defer, SavedPrevious, RunEnds
<1>25. CASE UpdateMaintenanceFlag
  BY <1>25 DEF UpdateMaintenanceFlag, Goto, Touch, Unlink, FileStep,
      FileFault, CountFault
<1>26. CASE TouchRebootNow
  BY <1>26 DEF TouchRebootNow, Goto, Touch, FileStep, FileFault, CountFault
<1>27. CASE RebootIgnored
  BY <1>27 DEF RebootIgnored, Goto
<1>28. CASE RebootFailed
  BY <1>28 DEF RebootFailed, RunEnds
<1>29. CASE GoDown
  BY <1>29 DEF GoDown, RunEnds, Rebooting
<1>30. CASE WindowExpires
  BY <1>30 DEF WindowExpires
<1>31. CASE SetDetection
  BY <1>31 DEF SetDetection
<1>32. CASE Fetch
  BY <1>32 DEF Fetch
<1>33. CASE CronLost
  BY <1>33 DEF CronLost, ServiceFault, CountFault
<1>34. CASE ProcessDies
  BY <1>34 DEF ProcessDies, RunEnds, FileFault, CountFault
<1>35. CASE PowerLoss
  BY <1>35 DEF PowerLoss, RunEnds, CountFault
<1>36. CASE UNCHANGED vars
  BY <1>36 DEF vars
<1> QED BY <1>1, <1>2, <1>3, <1>4, <1>5, <1>6, <1>7, <1>8, <1>9, <1>10, <1>11,
    <1>12, <1>13, <1>14, <1>15, <1>16, <1>17, <1>18, <1>19, <1>20, <1>21, <1>22,
    <1>23, <1>24, <1>25, <1>26, <1>27, <1>28, <1>29, <1>30, <1>31, <1>32, <1>33,
    <1>34, <1>35, <1>36, CausesAssumption DEF Next, Run, RecordSteps, PolicySteps,
    RebootSteps, Environment, CronFires

\* previousreboot.info is the request's once written.
LEMMA PreviousStep ==
    TypeOK /\ InfoInv /\ PreviousInv /\ [Next]_vars => PreviousInv'
<1> SUFFICES ASSUME TypeOK, InfoInv, PreviousInv, [Next]_vars PROVE PreviousInv'
  OBVIOUS
<1> USE CausesDistinct DEF InfoInv, PreviousInv, TypeOK, FileTypes, RunTypes,
    PcIdle, Recording, Policy, AfterRecord, Rebooting, records, local, history
<1>1. ASSUME NEW c \in Causes, Request(c) PROVE PreviousInv'
  BY <1>1 DEF Request, Goto
<1>2. CASE OpenRebootInfo
  BY <1>2 DEF OpenRebootInfo, Goto, FileStep, FileFault, CountFault
<1>3. CASE WriteRebootInfo
  BY <1>3 DEF WriteRebootInfo, Goto
<1>4. CASE WriteParodusInfo
  BY <1>4 DEF WriteParodusInfo, Goto, FileStep, FileFault, CountFault
<1>5. CASE Evaluate
  BY <1>5 DEF Evaluate, Goto, Unlink, FileStep, FileFault, CountFault
<1>6. CASE Bypass
  BY <1>6 DEF Bypass, Goto
<1>7. CASE HaltAgain
  BY <1>7 DEF HaltAgain, Goto, SameCauseInWindow, PreviousCause, JudgeStreak,
      CompareKeeps
<1>8. CASE DetectLoop
  BY <1>8 DEF DetectLoop, Goto, SameCauseInWindow, PreviousCause, JudgeStreak,
      CompareKeeps
<1>9. CASE CountReboot
  BY <1>9 DEF CountReboot, Goto, SameCauseInWindow, PreviousCause,
      JudgeStreak, CompareKeeps
<1>10. CASE NotInLoop
  BY <1>10 DEF NotInLoop, Goto, SameCauseInWindow, PreviousCause, JudgeStreak,
      CompareKeeps, FileFault, CountFault
<1>11. CASE OpenCounter
  BY <1>11 DEF OpenCounter, Goto, FileStep, FileFault, CountFault
<1>12. CASE WriteCounter
  BY <1>12 DEF WriteCounter, Goto
<1>13. CASE StopTouch
  BY <1>13 DEF StopTouch, Goto, Touch, FileStep, FileFault, CountFault
<1>14. CASE StopRfc
  BY <1>14 DEF StopRfc, Goto, ServiceStep, ServiceFault, CountFault
<1>15. CASE StopCronRemove
  BY <1>15 DEF StopCronRemove, Goto, ServiceStep, ServiceFault, CountFault
<1>16. CASE StopCronAdd
  BY <1>16 DEF StopCronAdd, Goto, ServiceStep, ServiceFault, CountFault
<1>17. CASE HaltTouch
  BY <1>17 DEF HaltTouch, Goto, Touch, FileStep, FileFault, CountFault
<1>18. CASE ResetRfc
  BY <1>18 DEF ResetRfc, Goto, ServiceStep, ServiceFault, CountFault
<1>19. CASE ResetCounter
  BY <1>19 DEF ResetCounter, Goto, FileStep, FileFault, CountFault
<1>20. CASE ResetStop
  BY <1>20 DEF ResetStop, Goto, Unlink, FileStep, FileFault, CountFault
<1>21. CASE ResetCron
  BY <1>21 DEF ResetCron, Goto, Repaired, ServiceFault, CountFault
<1>22. CASE OpenPrevious
  BY <1>22 DEF OpenPrevious, Goto, RunEnds, FileFault, CountFault
<1>23. CASE WritePrevious
  BY <1>23 DEF WritePrevious, Goto, SavedPrevious
<1>24. CASE Defer
  BY <1>24 DEF Defer, SavedPrevious, RunEnds
<1>25. CASE UpdateMaintenanceFlag
  BY <1>25 DEF UpdateMaintenanceFlag, Goto, Touch, Unlink, FileStep,
      FileFault, CountFault
<1>26. CASE TouchRebootNow
  BY <1>26 DEF TouchRebootNow, Goto, Touch, FileStep, FileFault, CountFault
<1>27. CASE RebootIgnored
  BY <1>27 DEF RebootIgnored, Goto
<1>28. CASE RebootFailed
  BY <1>28 DEF RebootFailed, RunEnds
<1>29. CASE GoDown
  BY <1>29 DEF GoDown, RunEnds, Rebooting
<1>30. CASE WindowExpires
  BY <1>30 DEF WindowExpires
<1>31. CASE SetDetection
  BY <1>31 DEF SetDetection
<1>32. CASE Fetch
  BY <1>32 DEF Fetch
<1>33. CASE CronLost
  BY <1>33 DEF CronLost, ServiceFault, CountFault
<1>34. CASE ProcessDies
  BY <1>34 DEF ProcessDies, RunEnds, FileFault, CountFault
<1>35. CASE PowerLoss
  BY <1>35 DEF PowerLoss, RunEnds, CountFault
<1>36. CASE UNCHANGED vars
  BY <1>36 DEF vars
<1> QED BY <1>1, <1>2, <1>3, <1>4, <1>5, <1>6, <1>7, <1>8, <1>9, <1>10, <1>11,
    <1>12, <1>13, <1>14, <1>15, <1>16, <1>17, <1>18, <1>19, <1>20, <1>21, <1>22,
    <1>23, <1>24, <1>25, <1>26, <1>27, <1>28, <1>29, <1>30, <1>31, <1>32, <1>33,
    <1>34, <1>35, <1>36, CausesAssumption DEF Next, Run, RecordSteps, PolicySteps,
    RebootSteps, Environment, CronFires

\* A run lengthens the streak only for the last cause.
LEMMA StreakCauseStep ==
    TypeOK /\ StreakCauseInv /\ [Next]_vars => StreakCauseInv'
<1> SUFFICES ASSUME TypeOK, StreakCauseInv, [Next]_vars PROVE StreakCauseInv'
  OBVIOUS
<1> USE DEF StreakCauseInv, BeforeJudgement, TypeOK, RunTypes, PcIdle,
    Recording, Policy, AfterRecord, Rebooting, records, local, history
<1>1. ASSUME NEW c \in Causes, Request(c) PROVE StreakCauseInv'
  BY <1>1 DEF Request, Goto
<1>2. CASE OpenRebootInfo
  BY <1>2 DEF OpenRebootInfo, Goto, FileStep, FileFault, CountFault
<1>3. CASE WriteRebootInfo
  BY <1>3 DEF WriteRebootInfo, Goto
<1>4. CASE WriteParodusInfo
  BY <1>4 DEF WriteParodusInfo, Goto, FileStep, FileFault, CountFault
<1>5. CASE Evaluate
  BY <1>5 DEF Evaluate, Goto, Unlink, FileStep, FileFault, CountFault
<1>6. CASE Bypass
  BY <1>6 DEF Bypass, Goto
<1>7. CASE HaltAgain
  BY <1>7 DEF HaltAgain, Goto, SameCauseInWindow, PreviousCause, JudgeStreak,
      CompareKeeps
<1>8. CASE DetectLoop
  BY <1>8 DEF DetectLoop, Goto, SameCauseInWindow, PreviousCause, JudgeStreak,
      CompareKeeps
<1>9. CASE CountReboot
  BY <1>9 DEF CountReboot, Goto, SameCauseInWindow, PreviousCause,
      JudgeStreak, CompareKeeps
<1>10. CASE NotInLoop
  BY <1>10 DEF NotInLoop, Goto, SameCauseInWindow, PreviousCause, JudgeStreak,
      CompareKeeps, FileFault, CountFault
<1>11. CASE OpenCounter
  BY <1>11 DEF OpenCounter, Goto, FileStep, FileFault, CountFault
<1>12. CASE WriteCounter
  BY <1>12 DEF WriteCounter, Goto
<1>13. CASE StopTouch
  BY <1>13 DEF StopTouch, Goto, Touch, FileStep, FileFault, CountFault
<1>14. CASE StopRfc
  BY <1>14 DEF StopRfc, Goto, ServiceStep, ServiceFault, CountFault
<1>15. CASE StopCronRemove
  BY <1>15 DEF StopCronRemove, Goto, ServiceStep, ServiceFault, CountFault
<1>16. CASE StopCronAdd
  BY <1>16 DEF StopCronAdd, Goto, ServiceStep, ServiceFault, CountFault
<1>17. CASE HaltTouch
  BY <1>17 DEF HaltTouch, Goto, Touch, FileStep, FileFault, CountFault
<1>18. CASE ResetRfc
  BY <1>18 DEF ResetRfc, Goto, ServiceStep, ServiceFault, CountFault
<1>19. CASE ResetCounter
  BY <1>19 DEF ResetCounter, Goto, FileStep, FileFault, CountFault
<1>20. CASE ResetStop
  BY <1>20 DEF ResetStop, Goto, Unlink, FileStep, FileFault, CountFault
<1>21. CASE ResetCron
  BY <1>21 DEF ResetCron, Goto, Repaired, ServiceFault, CountFault
<1>22. CASE OpenPrevious
  BY <1>22 DEF OpenPrevious, Goto, RunEnds, FileFault, CountFault
<1>23. CASE WritePrevious
  BY <1>23 DEF WritePrevious, Goto, SavedPrevious
<1>24. CASE Defer
  BY <1>24 DEF Defer, SavedPrevious, RunEnds
<1>25. CASE UpdateMaintenanceFlag
  BY <1>25 DEF UpdateMaintenanceFlag, Goto, Touch, Unlink, FileStep,
      FileFault, CountFault
<1>26. CASE TouchRebootNow
  BY <1>26 DEF TouchRebootNow, Goto, Touch, FileStep, FileFault, CountFault
<1>27. CASE RebootIgnored
  BY <1>27 DEF RebootIgnored, Goto
<1>28. CASE RebootFailed
  BY <1>28 DEF RebootFailed, RunEnds
<1>29. CASE GoDown
  BY <1>29 DEF GoDown, RunEnds, Rebooting
<1>30. CASE WindowExpires
  BY <1>30 DEF WindowExpires
<1>31. CASE SetDetection
  BY <1>31 DEF SetDetection
<1>32. CASE Fetch
  BY <1>32 DEF Fetch
<1>33. CASE CronLost
  BY <1>33 DEF CronLost, ServiceFault, CountFault
<1>34. CASE ProcessDies
  BY <1>34 DEF ProcessDies, RunEnds, FileFault, CountFault
<1>35. CASE PowerLoss
  BY <1>35 DEF PowerLoss, RunEnds, CountFault
<1>36. CASE UNCHANGED vars
  BY <1>36 DEF vars
<1> QED BY <1>1, <1>2, <1>3, <1>4, <1>5, <1>6, <1>7, <1>8, <1>9, <1>10, <1>11,
    <1>12, <1>13, <1>14, <1>15, <1>16, <1>17, <1>18, <1>19, <1>20, <1>21, <1>22,
    <1>23, <1>24, <1>25, <1>26, <1>27, <1>28, <1>29, <1>30, <1>31, <1>32, <1>33,
    <1>34, <1>35, <1>36, CausesAssumption DEF Next, Run, RecordSteps, PolicySteps,
    RebootSteps, Environment, CronFires

\* Undisturbed records and counter.
LEMMA CalmStep ==
    TypeOK /\ ProceedInv /\ InfoInv /\ PreviousInv /\ StreakCauseInv /\ StreakCountInv /\ CalmInv /\ [Next]_vars => CalmInv'
<1> SUFFICES ASSUME TypeOK, ProceedInv, InfoInv, PreviousInv, StreakCauseInv, StreakCountInv, CalmInv, [Next]_vars PROVE CalmInv'
  OBVIOUS
<1> USE CausesDistinct, ReadBackAssumption, BoundsAssumption DEF CalmInv,
    Undisturbed, ProceedInv, InfoInv, PreviousInv, StreakCauseInv, StreakCountInv,
    BeforeJudgement, HaltPath, Lossy, TypeOK, FileTypes, RunTypes, HistoryTypes,
    PcIdle, Recording, Policy, AfterRecord, Rebooting, records, local, history
<1>1. ASSUME NEW c \in Causes, Request(c) PROVE CalmInv'
  BY <1>1 DEF Request, Goto
<1>2. CASE OpenRebootInfo
  BY <1>2 DEF OpenRebootInfo, Goto, FileStep, FileFault, CountFault
<1>3. CASE WriteRebootInfo
  BY <1>3 DEF WriteRebootInfo, Goto
<1>4. CASE WriteParodusInfo
  BY <1>4 DEF WriteParodusInfo, Goto, FileStep, FileFault, CountFault
<1>5. CASE Evaluate
  BY <1>5 DEF Evaluate, Goto, Unlink, FileStep, FileFault, CountFault
<1>6. CASE Bypass
  BY <1>6 DEF Bypass, Goto
<1>7. CASE HaltAgain
  BY <1>7 DEF HaltAgain, Goto, SameCauseInWindow, PreviousCause, JudgeStreak,
      CompareKeeps
<1>8. CASE DetectLoop
  BY <1>8 DEF DetectLoop, Goto, SameCauseInWindow, PreviousCause, JudgeStreak,
      CompareKeeps
<1>9. CASE CountReboot
  BY <1>9 DEF CountReboot, Goto, SameCauseInWindow, PreviousCause,
      JudgeStreak, CompareKeeps
<1>10. CASE NotInLoop
  BY <1>10 DEF NotInLoop, Goto, SameCauseInWindow, PreviousCause, JudgeStreak,
      CompareKeeps, FileFault, CountFault
<1>11. CASE OpenCounter
  BY <1>11 DEF OpenCounter, Goto, FileStep, FileFault, CountFault
<1>12. CASE WriteCounter
  BY <1>12 DEF WriteCounter, Goto
<1>13. CASE StopTouch
  BY <1>13 DEF StopTouch, Goto, Touch, FileStep, FileFault, CountFault
<1>14. CASE StopRfc
  BY <1>14 DEF StopRfc, Goto, ServiceStep, ServiceFault, CountFault
<1>15. CASE StopCronRemove
  BY <1>15 DEF StopCronRemove, Goto, ServiceStep, ServiceFault, CountFault
<1>16. CASE StopCronAdd
  BY <1>16 DEF StopCronAdd, Goto, ServiceStep, ServiceFault, CountFault
<1>17. CASE HaltTouch
  BY <1>17 DEF HaltTouch, Goto, Touch, FileStep, FileFault, CountFault
<1>18. CASE ResetRfc
  BY <1>18 DEF ResetRfc, Goto, ServiceStep, ServiceFault, CountFault
<1>19. CASE ResetCounter
  BY <1>19 DEF ResetCounter, Goto, FileStep, FileFault, CountFault
<1>20. CASE ResetStop
  BY <1>20 DEF ResetStop, Goto, Unlink, FileStep, FileFault, CountFault
<1>21. CASE ResetCron
  BY <1>21 DEF ResetCron, Goto, Repaired, ServiceFault, CountFault
<1>22. CASE OpenPrevious
  BY <1>22 DEF OpenPrevious, Goto, RunEnds, FileFault, CountFault
<1>23. CASE WritePrevious
  BY <1>23 DEF WritePrevious, Goto, SavedPrevious
<1>24. CASE Defer
  BY <1>24 DEF Defer, SavedPrevious, RunEnds
<1>25. CASE UpdateMaintenanceFlag
  BY <1>25 DEF UpdateMaintenanceFlag, Goto, Touch, Unlink, FileStep,
      FileFault, CountFault
<1>26. CASE TouchRebootNow
  BY <1>26 DEF TouchRebootNow, Goto, Touch, FileStep, FileFault, CountFault
<1>27. CASE RebootIgnored
  BY <1>27 DEF RebootIgnored, Goto
<1>28. CASE RebootFailed
  BY <1>28 DEF RebootFailed, RunEnds
<1>29. CASE GoDown
  BY <1>29 DEF GoDown, RunEnds, Rebooting
<1>30. CASE WindowExpires
  BY <1>30 DEF WindowExpires
<1>31. CASE SetDetection
  BY <1>31 DEF SetDetection
<1>32. CASE Fetch
  BY <1>32 DEF Fetch
<1>33. CASE CronLost
  BY <1>33 DEF CronLost, ServiceFault, CountFault
<1>34. CASE ProcessDies
  BY <1>34 DEF ProcessDies, RunEnds, FileFault, CountFault
<1>35. CASE PowerLoss
  BY <1>35 DEF PowerLoss, RunEnds, CountFault
<1>36. CASE UNCHANGED vars
  BY <1>36 DEF vars
<1> QED BY <1>1, <1>2, <1>3, <1>4, <1>5, <1>6, <1>7, <1>8, <1>9, <1>10, <1>11,
    <1>12, <1>13, <1>14, <1>15, <1>16, <1>17, <1>18, <1>19, <1>20, <1>21, <1>22,
    <1>23, <1>24, <1>25, <1>26, <1>27, <1>28, <1>29, <1>30, <1>31, <1>32, <1>33,
    <1>34, <1>35, <1>36, CausesAssumption DEF Next, Run, RecordSteps, PolicySteps,
    RebootSteps, Environment, CronFires

\* The count keeps up with the streak.
LEMMA StreakCountStep ==
    TypeOK /\ ProceedInv /\ CalmInv /\ StreakCauseInv /\ StreakCountInv /\ [Next]_vars => StreakCountInv'
<1> SUFFICES ASSUME TypeOK, ProceedInv, CalmInv, StreakCauseInv, StreakCountInv, [Next]_vars PROVE StreakCountInv'
  OBVIOUS
<1> USE CausesDistinct, ReadBackAssumption, BoundsAssumption DEF CalmInv,
    Undisturbed, ProceedInv, StreakCauseInv, StreakCountInv, BeforeJudgement,
    HaltPath, ResetPath, Lossy, TypeOK, FileTypes, RunTypes, HistoryTypes, PcIdle,
    Recording, Policy, AfterRecord, Rebooting, records, local, history
<1>1. ASSUME NEW c \in Causes, Request(c) PROVE StreakCountInv'
  BY <1>1 DEF Request, Goto
<1>2. CASE OpenRebootInfo
  BY <1>2 DEF OpenRebootInfo, Goto, FileStep, FileFault, CountFault
<1>3. CASE WriteRebootInfo
  BY <1>3 DEF WriteRebootInfo, Goto
<1>4. CASE WriteParodusInfo
  BY <1>4 DEF WriteParodusInfo, Goto, FileStep, FileFault, CountFault
<1>5. CASE Evaluate
  BY <1>5 DEF Evaluate, Goto, Unlink, FileStep, FileFault, CountFault
<1>6. CASE Bypass
  BY <1>6 DEF Bypass, Goto
<1>7. CASE HaltAgain
  BY <1>7 DEF HaltAgain, Goto, SameCauseInWindow, PreviousCause, JudgeStreak,
      CompareKeeps
<1>8. CASE DetectLoop
  BY <1>8 DEF DetectLoop, Goto, SameCauseInWindow, PreviousCause, JudgeStreak,
      CompareKeeps
<1>9. CASE CountReboot
  BY <1>9 DEF CountReboot, Goto, SameCauseInWindow, PreviousCause,
      JudgeStreak, CompareKeeps
<1>10. CASE NotInLoop
  BY <1>10 DEF NotInLoop, Goto, SameCauseInWindow, PreviousCause, JudgeStreak,
      CompareKeeps, FileFault, CountFault
<1>11. CASE OpenCounter
  BY <1>11 DEF OpenCounter, Goto, FileStep, FileFault, CountFault
<1>12. CASE WriteCounter
  BY <1>12 DEF WriteCounter, Goto
<1>13. CASE StopTouch
  BY <1>13 DEF StopTouch, Goto, Touch, FileStep, FileFault, CountFault
<1>14. CASE StopRfc
  BY <1>14 DEF StopRfc, Goto, ServiceStep, ServiceFault, CountFault
<1>15. CASE StopCronRemove
  BY <1>15 DEF StopCronRemove, Goto, ServiceStep, ServiceFault, CountFault
<1>16. CASE StopCronAdd
  BY <1>16 DEF StopCronAdd, Goto, ServiceStep, ServiceFault, CountFault
<1>17. CASE HaltTouch
  BY <1>17 DEF HaltTouch, Goto, Touch, FileStep, FileFault, CountFault
<1>18. CASE ResetRfc
  BY <1>18 DEF ResetRfc, Goto, ServiceStep, ServiceFault, CountFault
<1>19. CASE ResetCounter
  BY <1>19 DEF ResetCounter, Goto, FileStep, FileFault, CountFault
<1>20. CASE ResetStop
  BY <1>20 DEF ResetStop, Goto, Unlink, FileStep, FileFault, CountFault
<1>21. CASE ResetCron
  BY <1>21 DEF ResetCron, Goto, Repaired, ServiceFault, CountFault
<1>22. CASE OpenPrevious
  BY <1>22 DEF OpenPrevious, Goto, RunEnds, FileFault, CountFault
<1>23. CASE WritePrevious
  BY <1>23 DEF WritePrevious, Goto, SavedPrevious
<1>24. CASE Defer
  BY <1>24 DEF Defer, SavedPrevious, RunEnds
<1>25. CASE UpdateMaintenanceFlag
  BY <1>25 DEF UpdateMaintenanceFlag, Goto, Touch, Unlink, FileStep,
      FileFault, CountFault
<1>26. CASE TouchRebootNow
  BY <1>26 DEF TouchRebootNow, Goto, Touch, FileStep, FileFault, CountFault
<1>27. CASE RebootIgnored
  BY <1>27 DEF RebootIgnored, Goto
<1>28. CASE RebootFailed
  BY <1>28 DEF RebootFailed, RunEnds
<1>29. CASE GoDown
  BY <1>29 DEF GoDown, RunEnds, Rebooting
<1>30. CASE WindowExpires
  BY <1>30 DEF WindowExpires
<1>31. CASE SetDetection
  BY <1>31 DEF SetDetection
<1>32. CASE Fetch
  BY <1>32 DEF Fetch
<1>33. CASE CronLost
  BY <1>33 DEF CronLost, ServiceFault, CountFault
<1>34. CASE ProcessDies
  BY <1>34 DEF ProcessDies, RunEnds, FileFault, CountFault
<1>35. CASE PowerLoss
  BY <1>35 DEF PowerLoss, RunEnds, CountFault
<1>36. CASE UNCHANGED vars
  BY <1>36 DEF vars
<1> QED BY <1>1, <1>2, <1>3, <1>4, <1>5, <1>6, <1>7, <1>8, <1>9, <1>10, <1>11,
    <1>12, <1>13, <1>14, <1>15, <1>16, <1>17, <1>18, <1>19, <1>20, <1>21, <1>22,
    <1>23, <1>24, <1>25, <1>26, <1>27, <1>28, <1>29, <1>30, <1>31, <1>32, <1>33,
    <1>34, <1>35, <1>36, CausesAssumption DEF Next, Run, RecordSteps, PolicySteps,
    RebootSteps, Environment, CronFires

\* The bound itself: only GoDown and PowerLoss change the streak.
LEMMA BoundStep ==
    TypeOK /\ StreakCauseInv /\ StreakCountInv /\ StormBound /\ [Next]_vars => StormBound'
<1> SUFFICES ASSUME TypeOK, StreakCauseInv, StreakCountInv, StormBound, [Next]_vars PROVE StormBound'
  OBVIOUS
<1> USE CausesDistinct, BoundsAssumption DEF StormBound, StreakCauseInv,
    StreakCountInv, StreakCap, TypeOK, FileTypes, RunTypes, HistoryTypes, PcIdle,
    Recording, Policy, AfterRecord, Rebooting, records, local, history
<1>1. ASSUME NEW c \in Causes, Request(c) PROVE StormBound'
  BY <1>1 DEF Request, Goto
<1>2. CASE OpenRebootInfo
  BY <1>2 DEF OpenRebootInfo, Goto, FileStep, FileFault, CountFault
<1>3. CASE WriteRebootInfo
  BY <1>3 DEF WriteRebootInfo, Goto
<1>4. CASE WriteParodusInfo
  BY <1>4 DEF WriteParodusInfo, Goto, FileStep, FileFault, CountFault
<1>5. CASE Evaluate
  BY <1>5 DEF Evaluate, Goto, Unlink, FileStep, FileFault, CountFault
<1>6. CASE Bypass
  BY <1>6 DEF Bypass, Goto
<1>7. CASE HaltAgain
  BY <1>7 DEF HaltAgain, Goto, SameCauseInWindow, PreviousCause, JudgeStreak,
      CompareKeeps
<1>8. CASE DetectLoop
  BY <1>8 DEF DetectLoop, Goto, SameCauseInWindow, PreviousCause, JudgeStreak,
      CompareKeeps
<1>9. CASE CountReboot
  BY <1>9 DEF CountReboot, Goto, SameCauseInWindow, PreviousCause,
      JudgeStreak, CompareKeeps
<1>10. CASE NotInLoop
  BY <1>10 DEF NotInLoop, Goto, SameCauseInWindow, PreviousCause, JudgeStreak,
      CompareKeeps, FileFault, CountFault
<1>11. CASE OpenCounter
  BY <1>11 DEF OpenCounter, Goto, FileStep, FileFault, CountFault
<1>12. CASE WriteCounter
  BY <1>12 DEF WriteCounter, Goto
<1>13. CASE StopTouch
  BY <1>13 DEF StopTouch, Goto, Touch, FileStep, FileFault, CountFault
<1>14. CASE StopRfc
  BY <1>14 DEF StopRfc, Goto, ServiceStep, ServiceFault, CountFault
<1>15. CASE StopCronRemove
  BY <1>15 DEF StopCronRemove, Goto, ServiceStep, ServiceFault, CountFault
<1>16. CASE StopCronAdd
  BY <1>16 DEF StopCronAdd, Goto, ServiceStep, ServiceFault, CountFault
<1>17. CASE HaltTouch
  BY <1>17 DEF HaltTouch, Goto, Touch, FileStep, FileFault, CountFault
<1>18. CASE ResetRfc
  BY <1>18 DEF ResetRfc, Goto, ServiceStep, ServiceFault, CountFault
<1>19. CASE ResetCounter
  BY <1>19 DEF ResetCounter, Goto, FileStep, FileFault, CountFault
<1>20. CASE ResetStop
  BY <1>20 DEF ResetStop, Goto, Unlink, FileStep, FileFault, CountFault
<1>21. CASE ResetCron
  BY <1>21 DEF ResetCron, Goto, Repaired, ServiceFault, CountFault
<1>22. CASE OpenPrevious
  BY <1>22 DEF OpenPrevious, Goto, RunEnds, FileFault, CountFault
<1>23. CASE WritePrevious
  BY <1>23 DEF WritePrevious, Goto, SavedPrevious
<1>24. CASE Defer
  BY <1>24 DEF Defer, SavedPrevious, RunEnds
<1>25. CASE UpdateMaintenanceFlag
  BY <1>25 DEF UpdateMaintenanceFlag, Goto, Touch, Unlink, FileStep,
      FileFault, CountFault
<1>26. CASE TouchRebootNow
  BY <1>26 DEF TouchRebootNow, Goto, Touch, FileStep, FileFault, CountFault
<1>27. CASE RebootIgnored
  BY <1>27 DEF RebootIgnored, Goto
<1>28. CASE RebootFailed
  BY <1>28 DEF RebootFailed, RunEnds
<1>29. CASE GoDown
  BY <1>29 DEF GoDown, RunEnds, Rebooting
<1>30. CASE WindowExpires
  BY <1>30 DEF WindowExpires
<1>31. CASE SetDetection
  BY <1>31 DEF SetDetection
<1>32. CASE Fetch
  BY <1>32 DEF Fetch
<1>33. CASE CronLost
  BY <1>33 DEF CronLost, ServiceFault, CountFault
<1>34. CASE ProcessDies
  BY <1>34 DEF ProcessDies, RunEnds, FileFault, CountFault
<1>35. CASE PowerLoss
  BY <1>35 DEF PowerLoss, RunEnds, CountFault
<1>36. CASE UNCHANGED vars
  BY <1>36 DEF vars
<1> QED BY <1>1, <1>2, <1>3, <1>4, <1>5, <1>6, <1>7, <1>8, <1>9, <1>10, <1>11,
    <1>12, <1>13, <1>14, <1>15, <1>16, <1>17, <1>18, <1>19, <1>20, <1>21, <1>22,
    <1>23, <1>24, <1>25, <1>26, <1>27, <1>28, <1>29, <1>30, <1>31, <1>32, <1>33,
    <1>34, <1>35, <1>36, CausesAssumption DEF Next, Run, RecordSteps, PolicySteps,
    RebootSteps, Environment, CronFires

\* handle_cyclic_reboot bounds a reboot storm, for every threshold and every
\* set of causes: as long as the records of the last reboot are not disturbed,
\* a cause that the records give back reboots the device at most Threshold + 1
\* times in a row inside the window.
THEOREM StormBounded == Spec => []StormBound
<1>1. Init => StormInv
  BY BoundsAssumption, CausesDistinct
     DEF Init, StormInv, ProceedInv, InfoInv, PreviousInv, CalmInv, Undisturbed,
         StreakCauseInv, StreakCountInv, StormBound, PcIdle, Recording, Policy,
         AfterRecord, Rebooting
<1>2. TypeOK /\ StormInv /\ [Next]_vars => StormInv'
  BY ProceedStep, InfoStep, PreviousStep, StreakCauseStep, CalmStep,
     StreakCountStep, BoundStep DEF StormInv
<1>3. StormInv => StormBound
  BY DEF StormInv
<1> QED BY <1>1, <1>2, <1>3, TypeCorrect, PTL DEF Spec

-----------------------------------------------------------------------------
(***************************************************************************)
(* The coherence of stop mode.                                             *)
(***************************************************************************)

\* A reset without a file fault has removed rebootStop.
LEMMA ResetStep ==
    TypeOK /\ ResetInv /\ [Next]_vars => ResetInv'
<1> SUFFICES ASSUME TypeOK, ResetInv, [Next]_vars PROVE ResetInv'
  OBVIOUS
<1> USE DEF ResetInv, StopOn, CronOn, EnableOn, HaltPath, ResetPath, TypeOK,
    RunTypes, IntactTypes, PcIdle, Recording, Policy, AfterRecord, Rebooting,
    records, local, history
<1>1. ASSUME NEW c \in Causes, Request(c) PROVE ResetInv'
  BY <1>1 DEF Request, Goto
<1>2. CASE OpenRebootInfo
  BY <1>2 DEF OpenRebootInfo, Goto, FileStep, FileFault, CountFault
<1>3. CASE WriteRebootInfo
  BY <1>3 DEF WriteRebootInfo, Goto
<1>4. CASE WriteParodusInfo
  BY <1>4 DEF WriteParodusInfo, Goto, FileStep, FileFault, CountFault
<1>5. CASE Evaluate
  BY <1>5 DEF Evaluate, Goto, Unlink, FileStep, FileFault, CountFault
<1>6. CASE Bypass
  BY <1>6 DEF Bypass, Goto
<1>7. CASE HaltAgain
  BY <1>7 DEF HaltAgain, Goto, SameCauseInWindow, PreviousCause, JudgeStreak,
      CompareKeeps
<1>8. CASE DetectLoop
  BY <1>8 DEF DetectLoop, Goto, SameCauseInWindow, PreviousCause, JudgeStreak,
      CompareKeeps
<1>9. CASE CountReboot
  BY <1>9 DEF CountReboot, Goto, SameCauseInWindow, PreviousCause,
      JudgeStreak, CompareKeeps
<1>10. CASE NotInLoop
  BY <1>10 DEF NotInLoop, Goto, SameCauseInWindow, PreviousCause, JudgeStreak,
      CompareKeeps, FileFault, CountFault
<1>11. CASE OpenCounter
  BY <1>11 DEF OpenCounter, Goto, FileStep, FileFault, CountFault
<1>12. CASE WriteCounter
  BY <1>12 DEF WriteCounter, Goto
<1>13. CASE StopTouch
  BY <1>13 DEF StopTouch, Goto, Touch, FileStep, FileFault, CountFault
<1>14. CASE StopRfc
  BY <1>14 DEF StopRfc, Goto, ServiceStep, ServiceFault, CountFault
<1>15. CASE StopCronRemove
  BY <1>15 DEF StopCronRemove, Goto, ServiceStep, ServiceFault, CountFault
<1>16. CASE StopCronAdd
  BY <1>16 DEF StopCronAdd, Goto, ServiceStep, ServiceFault, CountFault
<1>17. CASE HaltTouch
  BY <1>17 DEF HaltTouch, Goto, Touch, FileStep, FileFault, CountFault
<1>18. CASE ResetRfc
  BY <1>18 DEF ResetRfc, Goto, ServiceStep, ServiceFault, CountFault
<1>19. CASE ResetCounter
  BY <1>19 DEF ResetCounter, Goto, FileStep, FileFault, CountFault
<1>20. CASE ResetStop
  BY <1>20 DEF ResetStop, Goto, Unlink, FileStep, FileFault, CountFault
<1>21. CASE ResetCron
  BY <1>21 DEF ResetCron, Goto, Repaired, ServiceFault, CountFault
<1>22. CASE OpenPrevious
  BY <1>22 DEF OpenPrevious, Goto, RunEnds, FileFault, CountFault
<1>23. CASE WritePrevious
  BY <1>23 DEF WritePrevious, Goto, SavedPrevious
<1>24. CASE Defer
  BY <1>24 DEF Defer, SavedPrevious, RunEnds
<1>25. CASE UpdateMaintenanceFlag
  BY <1>25 DEF UpdateMaintenanceFlag, Goto, Touch, Unlink, FileStep,
      FileFault, CountFault
<1>26. CASE TouchRebootNow
  BY <1>26 DEF TouchRebootNow, Goto, Touch, FileStep, FileFault, CountFault
<1>27. CASE RebootIgnored
  BY <1>27 DEF RebootIgnored, Goto
<1>28. CASE RebootFailed
  BY <1>28 DEF RebootFailed, RunEnds
<1>29. CASE GoDown
  BY <1>29 DEF GoDown, RunEnds, Rebooting
<1>30. CASE WindowExpires
  BY <1>30 DEF WindowExpires
<1>31. CASE SetDetection
  BY <1>31 DEF SetDetection
<1>32. CASE Fetch
  BY <1>32 DEF Fetch
<1>33. CASE CronLost
  BY <1>33 DEF CronLost, ServiceFault, CountFault
<1>34. CASE ProcessDies
  BY <1>34 DEF ProcessDies, RunEnds, FileFault, CountFault
<1>35. CASE PowerLoss
  BY <1>35 DEF PowerLoss, RunEnds, CountFault
<1>36. CASE UNCHANGED vars
  BY <1>36 DEF vars
<1> QED BY <1>1, <1>2, <1>3, <1>4, <1>5, <1>6, <1>7, <1>8, <1>9, <1>10, <1>11,
    <1>12, <1>13, <1>14, <1>15, <1>16, <1>17, <1>18, <1>19, <1>20, <1>21, <1>22,
    <1>23, <1>24, <1>25, <1>26, <1>27, <1>28, <1>29, <1>30, <1>31, <1>32, <1>33,
    <1>34, <1>35, <1>36, CausesAssumption DEF Next, Run, RecordSteps, PolicySteps,
    RebootSteps, Environment, CronFires

\* Stop mode is built up and taken down one step at a time.
LEMMA StopStep ==
    TypeOK /\ ResetInv /\ StopInv /\ [Next]_vars => StopInv'
<1> SUFFICES ASSUME TypeOK, ResetInv, StopInv, [Next]_vars PROVE StopInv'
  OBVIOUS
<1> USE DEF ResetInv, StopInv, StopOn, CronOn, EnableOn, HaltPath, ResetPath,
    TypeOK, RunTypes, IntactTypes, PcIdle, Recording, Policy, AfterRecord,
    Rebooting, records, local, history
<1>1. ASSUME NEW c \in Causes, Request(c) PROVE StopInv'
  BY <1>1 DEF Request, Goto
<1>2. CASE OpenRebootInfo
  BY <1>2 DEF OpenRebootInfo, Goto, FileStep, FileFault, CountFault
<1>3. CASE WriteRebootInfo
  BY <1>3 DEF WriteRebootInfo, Goto
<1>4. CASE WriteParodusInfo
  BY <1>4 DEF WriteParodusInfo, Goto, FileStep, FileFault, CountFault
<1>5. CASE Evaluate
  BY <1>5 DEF Evaluate, Goto, Unlink, FileStep, FileFault, CountFault
<1>6. CASE Bypass
  BY <1>6 DEF Bypass, Goto
<1>7. CASE HaltAgain
  BY <1>7 DEF HaltAgain, Goto, SameCauseInWindow, PreviousCause, JudgeStreak,
      CompareKeeps
<1>8. CASE DetectLoop
  BY <1>8 DEF DetectLoop, Goto, SameCauseInWindow, PreviousCause, JudgeStreak,
      CompareKeeps
<1>9. CASE CountReboot
  BY <1>9 DEF CountReboot, Goto, SameCauseInWindow, PreviousCause,
      JudgeStreak, CompareKeeps
<1>10. CASE NotInLoop
  BY <1>10 DEF NotInLoop, Goto, SameCauseInWindow, PreviousCause, JudgeStreak,
      CompareKeeps, FileFault, CountFault
<1>11. CASE OpenCounter
  BY <1>11 DEF OpenCounter, Goto, FileStep, FileFault, CountFault
<1>12. CASE WriteCounter
  BY <1>12 DEF WriteCounter, Goto
<1>13. CASE StopTouch
  BY <1>13 DEF StopTouch, Goto, Touch, FileStep, FileFault, CountFault
<1>14. CASE StopRfc
  BY <1>14 DEF StopRfc, Goto, ServiceStep, ServiceFault, CountFault
<1>15. CASE StopCronRemove
  BY <1>15 DEF StopCronRemove, Goto, ServiceStep, ServiceFault, CountFault
<1>16. CASE StopCronAdd
  BY <1>16 DEF StopCronAdd, Goto, ServiceStep, ServiceFault, CountFault
<1>17. CASE HaltTouch
  BY <1>17 DEF HaltTouch, Goto, Touch, FileStep, FileFault, CountFault
<1>18. CASE ResetRfc
  BY <1>18 DEF ResetRfc, Goto, ServiceStep, ServiceFault, CountFault
<1>19. CASE ResetCounter
  BY <1>19 DEF ResetCounter, Goto, FileStep, FileFault, CountFault
<1>20. CASE ResetStop
  BY <1>20 DEF ResetStop, Goto, Unlink, FileStep, FileFault, CountFault
<1>21. CASE ResetCron
  BY <1>21 DEF ResetCron, Goto, Repaired, ServiceFault, CountFault
<1>22. CASE OpenPrevious
  BY <1>22 DEF OpenPrevious, Goto, RunEnds, FileFault, CountFault
<1>23. CASE WritePrevious
  BY <1>23 DEF WritePrevious, Goto, SavedPrevious
<1>24. CASE Defer
  BY <1>24 DEF Defer, SavedPrevious, RunEnds
<1>25. CASE UpdateMaintenanceFlag
  BY <1>25 DEF UpdateMaintenanceFlag, Goto, Touch, Unlink, FileStep,
      FileFault, CountFault
<1>26. CASE TouchRebootNow
  BY <1>26 DEF TouchRebootNow, Goto, Touch, FileStep, FileFault, CountFault
<1>27. CASE RebootIgnored
  BY <1>27 DEF RebootIgnored, Goto
<1>28. CASE RebootFailed
  BY <1>28 DEF RebootFailed, RunEnds
<1>29. CASE GoDown
  BY <1>29 DEF GoDown, RunEnds, Rebooting
<1>30. CASE WindowExpires
  BY <1>30 DEF WindowExpires
<1>31. CASE SetDetection
  BY <1>31 DEF SetDetection
<1>32. CASE Fetch
  BY <1>32 DEF Fetch
<1>33. CASE CronLost
  BY <1>33 DEF CronLost, ServiceFault, CountFault
<1>34. CASE ProcessDies
  BY <1>34 DEF ProcessDies, RunEnds, FileFault, CountFault
<1>35. CASE PowerLoss
  BY <1>35 DEF PowerLoss, RunEnds, CountFault
<1>36. CASE UNCHANGED vars
  BY <1>36 DEF vars
<1> QED BY <1>1, <1>2, <1>3, <1>4, <1>5, <1>6, <1>7, <1>8, <1>9, <1>10, <1>11,
    <1>12, <1>13, <1>14, <1>15, <1>16, <1>17, <1>18, <1>19, <1>20, <1>21, <1>22,
    <1>23, <1>24, <1>25, <1>26, <1>27, <1>28, <1>29, <1>30, <1>31, <1>32, <1>33,
    <1>34, <1>35, <1>36, CausesAssumption DEF Next, Run, RecordSteps, PolicySteps,
    RebootSteps, Environment, CronFires

\* In stop mode the rebootNow flag is restored before a run ends.
LEMMA FlagStep ==
    TypeOK /\ ResetInv /\ StopInv /\ FlagInv /\ [Next]_vars => FlagInv'
<1> SUFFICES ASSUME TypeOK, ResetInv, StopInv, FlagInv, [Next]_vars PROVE FlagInv'
  OBVIOUS
<1> USE DEF ResetInv, StopInv, FlagInv, StopOn, CronOn, EnableOn, HaltPath,
    ResetPath, TypeOK, RunTypes, IntactTypes, PcIdle, Recording, Policy,
    AfterRecord, Rebooting, records, local, history
<1>1. ASSUME NEW c \in Causes, Request(c) PROVE FlagInv'
  BY <1>1 DEF Request, Goto
<1>2. CASE OpenRebootInfo
  BY <1>2 DEF OpenRebootInfo, Goto, FileStep, FileFault, CountFault
<1>3. CASE WriteRebootInfo
  BY <1>3 DEF WriteRebootInfo, Goto
<1>4. CASE WriteParodusInfo
  BY <1>4 DEF WriteParodusInfo, Goto, FileStep, FileFault, CountFault
<1>5. CASE Evaluate
  BY <1>5 DEF Evaluate, Goto, Unlink, FileStep, FileFault, CountFault
<1>6. CASE Bypass
  BY <1>6 DEF Bypass, Goto
<1>7. CASE HaltAgain
  BY <1>7 DEF HaltAgain, Goto, SameCauseInWindow, PreviousCause, JudgeStreak,
      CompareKeeps
<1>8. CASE DetectLoop
  BY <1>8 DEF DetectLoop, Goto, SameCauseInWindow, PreviousCause, JudgeStreak,
      CompareKeeps
<1>9. CASE CountReboot
  BY <1>9 DEF CountReboot, Goto, SameCauseInWindow, PreviousCause,
      JudgeStreak, CompareKeeps
<1>10. CASE NotInLoop
  BY <1>10 DEF NotInLoop, Goto, SameCauseInWindow, PreviousCause, JudgeStreak,
      CompareKeeps, FileFault, CountFault
<1>11. CASE OpenCounter
  BY <1>11 DEF OpenCounter, Goto, FileStep, FileFault, CountFault
<1>12. CASE WriteCounter
  BY <1>12 DEF WriteCounter, Goto
<1>13. CASE StopTouch
  BY <1>13 DEF StopTouch, Goto, Touch, FileStep, FileFault, CountFault
<1>14. CASE StopRfc
  BY <1>14 DEF StopRfc, Goto, ServiceStep, ServiceFault, CountFault
<1>15. CASE StopCronRemove
  BY <1>15 DEF StopCronRemove, Goto, ServiceStep, ServiceFault, CountFault
<1>16. CASE StopCronAdd
  BY <1>16 DEF StopCronAdd, Goto, ServiceStep, ServiceFault, CountFault
<1>17. CASE HaltTouch
  BY <1>17 DEF HaltTouch, Goto, Touch, FileStep, FileFault, CountFault
<1>18. CASE ResetRfc
  BY <1>18 DEF ResetRfc, Goto, ServiceStep, ServiceFault, CountFault
<1>19. CASE ResetCounter
  BY <1>19 DEF ResetCounter, Goto, FileStep, FileFault, CountFault
<1>20. CASE ResetStop
  BY <1>20 DEF ResetStop, Goto, Unlink, FileStep, FileFault, CountFault
<1>21. CASE ResetCron
  BY <1>21 DEF ResetCron, Goto, Repaired, ServiceFault, CountFault
<1>22. CASE OpenPrevious
  BY <1>22 DEF OpenPrevious, Goto, RunEnds, FileFault, CountFault
<1>23. CASE WritePrevious
  BY <1>23 DEF WritePrevious, Goto, SavedPrevious
<1>24. CASE Defer
  BY <1>24 DEF Defer, SavedPrevious, RunEnds
<1>25. CASE UpdateMaintenanceFlag
  BY <1>25 DEF UpdateMaintenanceFlag, Goto, Touch, Unlink, FileStep,
      FileFault, CountFault
<1>26. CASE TouchRebootNow
  BY <1>26 DEF TouchRebootNow, Goto, Touch, FileStep, FileFault, CountFault
<1>27. CASE RebootIgnored
  BY <1>27 DEF RebootIgnored, Goto
<1>28. CASE RebootFailed
  BY <1>28 DEF RebootFailed, RunEnds
<1>29. CASE GoDown
  BY <1>29 DEF GoDown, RunEnds, Rebooting
<1>30. CASE WindowExpires
  BY <1>30 DEF WindowExpires
<1>31. CASE SetDetection
  BY <1>31 DEF SetDetection
<1>32. CASE Fetch
  BY <1>32 DEF Fetch
<1>33. CASE CronLost
  BY <1>33 DEF CronLost, ServiceFault, CountFault
<1>34. CASE ProcessDies
  BY <1>34 DEF ProcessDies, RunEnds, FileFault, CountFault
<1>35. CASE PowerLoss
  BY <1>35 DEF PowerLoss, RunEnds, CountFault
<1>36. CASE UNCHANGED vars
  BY <1>36 DEF vars
<1> QED BY <1>1, <1>2, <1>3, <1>4, <1>5, <1>6, <1>7, <1>8, <1>9, <1>10, <1>11,
    <1>12, <1>13, <1>14, <1>15, <1>16, <1>17, <1>18, <1>19, <1>20, <1>21, <1>22,
    <1>23, <1>24, <1>25, <1>26, <1>27, <1>28, <1>29, <1>30, <1>31, <1>32, <1>33,
    <1>34, <1>35, <1>36, CausesAssumption DEF Next, Run, RecordSteps, PolicySteps,
    RebootSteps, Environment, CronFires

\* The coherence of stop mode, for every threshold and set of causes: between
\* two runs rebootStop, the published RFC and the cron entry agree unless a
\* fault hit one of them since the last completed reset.
THEOREM StopModeCoherence == Spec => []StopModeCoherent
<1>1. Init => CoherenceInv
  BY DEF Init, CoherenceInv, StopInv, FlagInv, ResetInv, StopOn, CronOn, EnableOn,
         HaltPath, ResetPath, PcIdle
<1>2. TypeOK /\ CoherenceInv /\ [Next]_vars => CoherenceInv'
  BY ResetStep, StopStep, FlagStep DEF CoherenceInv
<1>3. CoherenceInv => StopModeCoherent
  BY DEF CoherenceInv, StopInv, FlagInv, StopOn, CronOn, EnableOn, HaltPath,
         ResetPath, PcIdle, StopModeCoherent
<1> QED BY <1>1, <1>2, <1>3, TypeCorrect, PTL DEF Spec

-----------------------------------------------------------------------------
(***************************************************************************)
(* The records of a reboot.                                                *)
(***************************************************************************)

\* The steps after the policy leave the request in every record.
LEMMA AgreeStep ==
    TypeOK /\ AgreeInv /\ [Next]_vars => AgreeInv'
<1> SUFFICES ASSUME TypeOK, AgreeInv, [Next]_vars PROVE AgreeInv'
  OBVIOUS
<1> USE CausesDistinct DEF AgreeInv, TypeOK, FileTypes, RunTypes, PcIdle,
    Recording, Policy, AfterRecord, Rebooting, records, local, history
<1>1. ASSUME NEW c \in Causes, Request(c) PROVE AgreeInv'
  BY <1>1 DEF Request, Goto
<1>2. CASE OpenRebootInfo
  BY <1>2 DEF OpenRebootInfo, Goto, FileStep, FileFault, CountFault
<1>3. CASE WriteRebootInfo
  BY <1>3 DEF WriteRebootInfo, Goto
<1>4. CASE WriteParodusInfo
  BY <1>4 DEF WriteParodusInfo, Goto, FileStep, FileFault, CountFault
<1>5. CASE Evaluate
  BY <1>5 DEF Evaluate, Goto, Unlink, FileStep, FileFault, CountFault
<1>6. CASE Bypass
  BY <1>6 DEF Bypass, Goto
<1>7. CASE HaltAgain
  BY <1>7 DEF HaltAgain, Goto, SameCauseInWindow, PreviousCause, JudgeStreak,
      CompareKeeps
<1>8. CASE DetectLoop
  BY <1>8 DEF DetectLoop, Goto, SameCauseInWindow, PreviousCause, JudgeStreak,
      CompareKeeps
<1>9. CASE CountReboot
  BY <1>9 DEF CountReboot, Goto, SameCauseInWindow, PreviousCause,
      JudgeStreak, CompareKeeps
<1>10. CASE NotInLoop
  BY <1>10 DEF NotInLoop, Goto, SameCauseInWindow, PreviousCause, JudgeStreak,
      CompareKeeps, FileFault, CountFault
<1>11. CASE OpenCounter
  BY <1>11 DEF OpenCounter, Goto, FileStep, FileFault, CountFault
<1>12. CASE WriteCounter
  BY <1>12 DEF WriteCounter, Goto
<1>13. CASE StopTouch
  BY <1>13 DEF StopTouch, Goto, Touch, FileStep, FileFault, CountFault
<1>14. CASE StopRfc
  BY <1>14 DEF StopRfc, Goto, ServiceStep, ServiceFault, CountFault
<1>15. CASE StopCronRemove
  BY <1>15 DEF StopCronRemove, Goto, ServiceStep, ServiceFault, CountFault
<1>16. CASE StopCronAdd
  BY <1>16 DEF StopCronAdd, Goto, ServiceStep, ServiceFault, CountFault
<1>17. CASE HaltTouch
  BY <1>17 DEF HaltTouch, Goto, Touch, FileStep, FileFault, CountFault
<1>18. CASE ResetRfc
  BY <1>18 DEF ResetRfc, Goto, ServiceStep, ServiceFault, CountFault
<1>19. CASE ResetCounter
  BY <1>19 DEF ResetCounter, Goto, FileStep, FileFault, CountFault
<1>20. CASE ResetStop
  BY <1>20 DEF ResetStop, Goto, Unlink, FileStep, FileFault, CountFault
<1>21. CASE ResetCron
  BY <1>21 DEF ResetCron, Goto, Repaired, ServiceFault, CountFault
<1>22. CASE OpenPrevious
  BY <1>22 DEF OpenPrevious, Goto, RunEnds, FileFault, CountFault
<1>23. CASE WritePrevious
  BY <1>23 DEF WritePrevious, Goto, SavedPrevious
<1>24. CASE Defer
  BY <1>24 DEF Defer, SavedPrevious, RunEnds
<1>25. CASE UpdateMaintenanceFlag
  BY <1>25 DEF UpdateMaintenanceFlag, Goto, Touch, Unlink, FileStep,
      FileFault, CountFault
<1>26. CASE TouchRebootNow
  BY <1>26 DEF TouchRebootNow, Goto, Touch, FileStep, FileFault, CountFault
<1>27. CASE RebootIgnored
  BY <1>27 DEF RebootIgnored, Goto
<1>28. CASE RebootFailed
  BY <1>28 DEF RebootFailed, RunEnds
<1>29. CASE GoDown
  BY <1>29 DEF GoDown, RunEnds, Rebooting
<1>30. CASE WindowExpires
  BY <1>30 DEF WindowExpires
<1>31. CASE SetDetection
  BY <1>31 DEF SetDetection
<1>32. CASE Fetch
  BY <1>32 DEF Fetch
<1>33. CASE CronLost
  BY <1>33 DEF CronLost, ServiceFault, CountFault
<1>34. CASE ProcessDies
  BY <1>34 DEF ProcessDies, RunEnds, FileFault, CountFault
<1>35. CASE PowerLoss
  BY <1>35 DEF PowerLoss, RunEnds, CountFault
<1>36. CASE UNCHANGED vars
  BY <1>36 DEF vars
<1> QED BY <1>1, <1>2, <1>3, <1>4, <1>5, <1>6, <1>7, <1>8, <1>9, <1>10, <1>11,
    <1>12, <1>13, <1>14, <1>15, <1>16, <1>17, <1>18, <1>19, <1>20, <1>21, <1>22,
    <1>23, <1>24, <1>25, <1>26, <1>27, <1>28, <1>29, <1>30, <1>31, <1>32, <1>33,
    <1>34, <1>35, <1>36, CausesAssumption DEF Next, Run, RecordSteps, PolicySteps,
    RebootSteps, Environment, CronFires

\* The records of a reboot agree, for every set of causes: when the reboot
\* commands run in a run without a file fault, every record names the request,
\* wherever a run of the fetcher fell.
THEOREM RecordsAgree == Spec => []RecordsAgreeAtReboot
<1>1. Init => InfoInv /\ PreviousInv /\ AgreeInv
  BY DEF Init, InfoInv, PreviousInv, AgreeInv, PcIdle, Recording, Policy,
         AfterRecord, Rebooting
<1>2. TypeOK /\ InfoInv /\ PreviousInv /\ AgreeInv /\ [Next]_vars
        => (InfoInv /\ PreviousInv /\ AgreeInv)'
  BY InfoStep, PreviousStep, AgreeStep
<1>3. InfoInv /\ PreviousInv /\ AgreeInv => RecordsAgreeAtReboot
  BY DEF InfoInv, PreviousInv, AgreeInv, RecordsAgreeAtReboot, Policy,
         AfterRecord, Rebooting
<1> QED BY <1>1, <1>2, <1>3, TypeCorrect, PTL DEF Spec

-----------------------------------------------------------------------------
(***************************************************************************)
(* The counter is exact.                                                   *)
(***************************************************************************)

\* A streak starts with a reboot and ends with a power cut.
LEMMA StreakStartStep ==
    TypeOK /\ StreakStartInv
      /\ [Next]_vars => StreakStartInv'
<1> SUFFICES ASSUME TypeOK, StreakStartInv,
                    [Next]_vars
             PROVE  StreakStartInv'
  OBVIOUS
<1> USE CausesDistinct, BoundsAssumption DEF StreakStartInv, StreakCap,
    TypeOK, FileTypes, RunTypes, HistoryTypes,
    PcIdle, Recording, Policy, AfterRecord, Rebooting, records, local, history
<1>1. ASSUME NEW c \in Causes, Request(c) PROVE StreakStartInv'
  BY <1>1 DEF Request, Goto
<1>2. CASE OpenRebootInfo
  BY <1>2 DEF OpenRebootInfo, Goto, FileStep, FileFault, CountFault
<1>3. CASE WriteRebootInfo
  BY <1>3 DEF WriteRebootInfo, Goto
<1>4. CASE WriteParodusInfo
  BY <1>4 DEF WriteParodusInfo, Goto, FileStep, FileFault, CountFault
<1>5. CASE Evaluate
  BY <1>5 DEF Evaluate, Goto, Unlink, FileStep, FileFault, CountFault
<1>6. CASE Bypass
  BY <1>6 DEF Bypass, Goto
<1>7. CASE HaltAgain
  BY <1>7 DEF HaltAgain, Goto, SameCauseInWindow, PreviousCause, JudgeStreak, Mistaken,
      CompareKeeps
<1>8. CASE DetectLoop
  BY <1>8 DEF DetectLoop, Goto, SameCauseInWindow, PreviousCause, JudgeStreak, Mistaken,
      CompareKeeps
<1>9. CASE CountReboot
  BY <1>9 DEF CountReboot, Goto, SameCauseInWindow, PreviousCause,
      JudgeStreak, Mistaken, CompareKeeps
<1>10. CASE NotInLoop
  BY <1>10 DEF NotInLoop, Goto, SameCauseInWindow, PreviousCause, JudgeStreak, Mistaken,
      CompareKeeps, FileFault, CountFault
<1>11. CASE OpenCounter
  BY <1>11 DEF OpenCounter, Goto, FileStep, FileFault, CountFault
<1>12. CASE WriteCounter
  BY <1>12 DEF WriteCounter, Goto
<1>13. CASE StopTouch
  BY <1>13 DEF StopTouch, Goto, Touch, FileStep, FileFault, CountFault
<1>14. CASE StopRfc
  BY <1>14 DEF StopRfc, Goto, ServiceStep, ServiceFault, CountFault
<1>15. CASE StopCronRemove
  BY <1>15 DEF StopCronRemove, Goto, ServiceStep, ServiceFault, CountFault
<1>16. CASE StopCronAdd
  BY <1>16 DEF StopCronAdd, Goto, ServiceStep, ServiceFault, CountFault
<1>17. CASE HaltTouch
  BY <1>17 DEF HaltTouch, Goto, Touch, FileStep, FileFault, CountFault
<1>18. CASE ResetRfc
  BY <1>18 DEF ResetRfc, Goto, ServiceStep, ServiceFault, CountFault
<1>19. CASE ResetCounter
  BY <1>19 DEF ResetCounter, Goto, FileStep, FileFault, CountFault
<1>20. CASE ResetStop
  BY <1>20 DEF ResetStop, Goto, Unlink, FileStep, FileFault, CountFault
<1>21. CASE ResetCron
  BY <1>21 DEF ResetCron, Goto, Repaired, ServiceFault, CountFault
<1>22. CASE OpenPrevious
  BY <1>22 DEF OpenPrevious, Goto, RunEnds, FileFault, CountFault
<1>23. CASE WritePrevious
  BY <1>23 DEF WritePrevious, Goto, SavedPrevious
<1>24. CASE Defer
  BY <1>24 DEF Defer, SavedPrevious, RunEnds
<1>25. CASE UpdateMaintenanceFlag
  BY <1>25 DEF UpdateMaintenanceFlag, Goto, Touch, Unlink, FileStep,
      FileFault, CountFault
<1>26. CASE TouchRebootNow
  BY <1>26 DEF TouchRebootNow, Goto, Touch, FileStep, FileFault, CountFault
<1>27. CASE RebootIgnored
  BY <1>27 DEF RebootIgnored, Goto
<1>28. CASE RebootFailed
  BY <1>28 DEF RebootFailed, RunEnds
<1>29. CASE GoDown
  BY <1>29 DEF GoDown, RunEnds, Rebooting
<1>30. CASE WindowExpires
  BY <1>30 DEF WindowExpires
<1>31. CASE SetDetection
  BY <1>31 DEF SetDetection
<1>32. CASE Fetch
  BY <1>32 DEF Fetch
<1>33. CASE CronLost
  BY <1>33 DEF CronLost, ServiceFault, CountFault
<1>34. CASE ProcessDies
  BY <1>34 DEF ProcessDies, RunEnds, FileFault, CountFault
<1>35. CASE PowerLoss
  BY <1>35 DEF PowerLoss, RunEnds, CountFault
<1>36. CASE UNCHANGED vars
  BY <1>36 DEF vars
<1> QED BY <1>1, <1>2, <1>3, <1>4, <1>5, <1>6, <1>7, <1>8, <1>9, <1>10, <1>11,
    <1>12, <1>13, <1>14, <1>15, <1>16, <1>17, <1>18, <1>19, <1>20, <1>21, <1>22,
    <1>23, <1>24, <1>25, <1>26, <1>27, <1>28, <1>29, <1>30, <1>31, <1>32, <1>33,
    <1>34, <1>35, <1>36, CausesAssumption DEF Next, Run, RecordSteps, PolicySteps,
    RebootSteps, Environment, CronFires

\* Nothing increments the counter in a reset.
LEMMA FreshStep ==
    TypeOK /\ FreshInv
      /\ [Next]_vars => FreshInv'
<1> SUFFICES ASSUME TypeOK, FreshInv,
                    [Next]_vars
             PROVE  FreshInv'
  OBVIOUS
<1> USE DEF FreshInv, TypeOK, FileTypes, RunTypes, HistoryTypes,
    PcIdle, Recording, Policy, AfterRecord, Rebooting, records, local, history
<1>1. ASSUME NEW c \in Causes, Request(c) PROVE FreshInv'
  BY <1>1 DEF Request, Goto
<1>2. CASE OpenRebootInfo
  BY <1>2 DEF OpenRebootInfo, Goto, FileStep, FileFault, CountFault
<1>3. CASE WriteRebootInfo
  BY <1>3 DEF WriteRebootInfo, Goto
<1>4. CASE WriteParodusInfo
  BY <1>4 DEF WriteParodusInfo, Goto, FileStep, FileFault, CountFault
<1>5. CASE Evaluate
  BY <1>5 DEF Evaluate, Goto, Unlink, FileStep, FileFault, CountFault
<1>6. CASE Bypass
  BY <1>6 DEF Bypass, Goto
<1>7. CASE HaltAgain
  BY <1>7 DEF HaltAgain, Goto, SameCauseInWindow, PreviousCause, JudgeStreak, Mistaken,
      CompareKeeps
<1>8. CASE DetectLoop
  BY <1>8 DEF DetectLoop, Goto, SameCauseInWindow, PreviousCause, JudgeStreak, Mistaken,
      CompareKeeps
<1>9. CASE CountReboot
  BY <1>9 DEF CountReboot, Goto, SameCauseInWindow, PreviousCause,
      JudgeStreak, Mistaken, CompareKeeps
<1>10. CASE NotInLoop
  BY <1>10 DEF NotInLoop, Goto, SameCauseInWindow, PreviousCause, JudgeStreak, Mistaken,
      CompareKeeps, FileFault, CountFault
<1>11. CASE OpenCounter
  BY <1>11 DEF OpenCounter, Goto, FileStep, FileFault, CountFault
<1>12. CASE WriteCounter
  BY <1>12 DEF WriteCounter, Goto
<1>13. CASE StopTouch
  BY <1>13 DEF StopTouch, Goto, Touch, FileStep, FileFault, CountFault
<1>14. CASE StopRfc
  BY <1>14 DEF StopRfc, Goto, ServiceStep, ServiceFault, CountFault
<1>15. CASE StopCronRemove
  BY <1>15 DEF StopCronRemove, Goto, ServiceStep, ServiceFault, CountFault
<1>16. CASE StopCronAdd
  BY <1>16 DEF StopCronAdd, Goto, ServiceStep, ServiceFault, CountFault
<1>17. CASE HaltTouch
  BY <1>17 DEF HaltTouch, Goto, Touch, FileStep, FileFault, CountFault
<1>18. CASE ResetRfc
  BY <1>18 DEF ResetRfc, Goto, ServiceStep, ServiceFault, CountFault
<1>19. CASE ResetCounter
  BY <1>19 DEF ResetCounter, Goto, FileStep, FileFault, CountFault
<1>20. CASE ResetStop
  BY <1>20 DEF ResetStop, Goto, Unlink, FileStep, FileFault, CountFault
<1>21. CASE ResetCron
  BY <1>21 DEF ResetCron, Goto, Repaired, ServiceFault, CountFault
<1>22. CASE OpenPrevious
  BY <1>22 DEF OpenPrevious, Goto, RunEnds, FileFault, CountFault
<1>23. CASE WritePrevious
  BY <1>23 DEF WritePrevious, Goto, SavedPrevious
<1>24. CASE Defer
  BY <1>24 DEF Defer, SavedPrevious, RunEnds
<1>25. CASE UpdateMaintenanceFlag
  BY <1>25 DEF UpdateMaintenanceFlag, Goto, Touch, Unlink, FileStep,
      FileFault, CountFault
<1>26. CASE TouchRebootNow
  BY <1>26 DEF TouchRebootNow, Goto, Touch, FileStep, FileFault, CountFault
<1>27. CASE RebootIgnored
  BY <1>27 DEF RebootIgnored, Goto
<1>28. CASE RebootFailed
  BY <1>28 DEF RebootFailed, RunEnds
<1>29. CASE GoDown
  BY <1>29 DEF GoDown, RunEnds, Rebooting
<1>30. CASE WindowExpires
  BY <1>30 DEF WindowExpires
<1>31. CASE SetDetection
  BY <1>31 DEF SetDetection
<1>32. CASE Fetch
  BY <1>32 DEF Fetch
<1>33. CASE CronLost
  BY <1>33 DEF CronLost, ServiceFault, CountFault
<1>34. CASE ProcessDies
  BY <1>34 DEF ProcessDies, RunEnds, FileFault, CountFault
<1>35. CASE PowerLoss
  BY <1>35 DEF PowerLoss, RunEnds, CountFault
<1>36. CASE UNCHANGED vars
  BY <1>36 DEF vars
<1> QED BY <1>1, <1>2, <1>3, <1>4, <1>5, <1>6, <1>7, <1>8, <1>9, <1>10, <1>11,
    <1>12, <1>13, <1>14, <1>15, <1>16, <1>17, <1>18, <1>19, <1>20, <1>21, <1>22,
    <1>23, <1>24, <1>25, <1>26, <1>27, <1>28, <1>29, <1>30, <1>31, <1>32, <1>33,
    <1>34, <1>35, <1>36, CausesAssumption DEF Next, Run, RecordSteps, PolicySteps,
    RebootSteps, Environment, CronFires

\* The record stays the last cause's while the counter is exact.
LEMMA OnRecordStep ==
    TypeOK /\ ProceedInv /\ InfoInv /\ PreviousInv /\ StreakCauseInv /\ OnRecordInv
      /\ [Next]_vars => OnRecordInv'
<1> SUFFICES ASSUME TypeOK, ProceedInv, InfoInv, PreviousInv, StreakCauseInv, OnRecordInv,
                    [Next]_vars
             PROVE  OnRecordInv'
  OBVIOUS
<1> USE CausesDistinct, ReadBackAssumption DEF OnRecordInv, LastOnRecord,
    ProceedInv, InfoInv, PreviousInv, BeforeJudgement, HaltPath, ResetPath,
    TypeOK, FileTypes, RunTypes, HistoryTypes,
    PcIdle, Recording, Policy, AfterRecord, Rebooting, records, local, history
<1>1. ASSUME NEW c \in Causes, Request(c) PROVE OnRecordInv'
  BY <1>1 DEF Request, Goto
<1>2. CASE OpenRebootInfo
  BY <1>2 DEF OpenRebootInfo, Goto, FileStep, FileFault, CountFault
<1>3. CASE WriteRebootInfo
  BY <1>3 DEF WriteRebootInfo, Goto
<1>4. CASE WriteParodusInfo
  BY <1>4 DEF WriteParodusInfo, Goto, FileStep, FileFault, CountFault
<1>5. CASE Evaluate
  BY <1>5 DEF Evaluate, Goto, Unlink, FileStep, FileFault, CountFault
<1>6. CASE Bypass
  BY <1>6 DEF Bypass, Goto
<1>7. CASE HaltAgain
  BY <1>7 DEF HaltAgain, Goto, SameCauseInWindow, PreviousCause, JudgeStreak, Mistaken,
      CompareKeeps
<1>8. CASE DetectLoop
  BY <1>8 DEF DetectLoop, Goto, SameCauseInWindow, PreviousCause, JudgeStreak, Mistaken,
      CompareKeeps
<1>9. CASE CountReboot
  BY <1>9 DEF CountReboot, Goto, SameCauseInWindow, PreviousCause,
      JudgeStreak, Mistaken, CompareKeeps
<1>10. CASE NotInLoop
  BY <1>10 DEF NotInLoop, Goto, SameCauseInWindow, PreviousCause, JudgeStreak, Mistaken,
      CompareKeeps, FileFault, CountFault
<1>11. CASE OpenCounter
  BY <1>11 DEF OpenCounter, Goto, FileStep, FileFault, CountFault
<1>12. CASE WriteCounter
  BY <1>12 DEF WriteCounter, Goto
<1>13. CASE StopTouch
  BY <1>13 DEF StopTouch, Goto, Touch, FileStep, FileFault, CountFault
<1>14. CASE StopRfc
  BY <1>14 DEF StopRfc, Goto, ServiceStep, ServiceFault, CountFault
<1>15. CASE StopCronRemove
  BY <1>15 DEF StopCronRemove, Goto, ServiceStep, ServiceFault, CountFault
<1>16. CASE StopCronAdd
  BY <1>16 DEF StopCronAdd, Goto, ServiceStep, ServiceFault, CountFault
<1>17. CASE HaltTouch
  BY <1>17 DEF HaltTouch, Goto, Touch, FileStep, FileFault, CountFault
<1>18. CASE ResetRfc
  BY <1>18 DEF ResetRfc, Goto, ServiceStep, ServiceFault, CountFault
<1>19. CASE ResetCounter
  BY <1>19 DEF ResetCounter, Goto, FileStep, FileFault, CountFault
<1>20. CASE ResetStop
  BY <1>20 DEF ResetStop, Goto, Unlink, FileStep, FileFault, CountFault
<1>21. CASE ResetCron
  BY <1>21 DEF ResetCron, Goto, Repaired, ServiceFault, CountFault
<1>22. CASE OpenPrevious
  BY <1>22 DEF OpenPrevious, Goto, RunEnds, FileFault, CountFault
<1>23. CASE WritePrevious
  BY <1>23 DEF WritePrevious, Goto, SavedPrevious
<1>24. CASE Defer
  BY <1>24 DEF Defer, SavedPrevious, RunEnds
<1>25. CASE UpdateMaintenanceFlag
  BY <1>25 DEF UpdateMaintenanceFlag, Goto, Touch, Unlink, FileStep,
      FileFault, CountFault
<1>26. CASE TouchRebootNow
  BY <1>26 DEF TouchRebootNow, Goto, Touch, FileStep, FileFault, CountFault
<1>27. CASE RebootIgnored
  BY <1>27 DEF RebootIgnored, Goto
<1>28. CASE RebootFailed
  BY <1>28 DEF RebootFailed, RunEnds
<1>29. CASE GoDown
  BY <1>29 DEF GoDown, RunEnds, Rebooting
<1>30. CASE WindowExpires
  BY <1>30 DEF WindowExpires
<1>31. CASE SetDetection
  BY <1>31 DEF SetDetection
<1>32. CASE Fetch
  BY <1>32 DEF Fetch
<1>33. CASE CronLost
  BY <1>33 DEF CronLost, ServiceFault, CountFault
<1>34. CASE ProcessDies
  BY <1>34 DEF ProcessDies, RunEnds, FileFault, CountFault
<1>35. CASE PowerLoss
  BY <1>35 DEF PowerLoss, RunEnds, CountFault
<1>36. CASE UNCHANGED vars
  BY <1>36 DEF vars
<1> QED BY <1>1, <1>2, <1>3, <1>4, <1>5, <1>6, <1>7, <1>8, <1>9, <1>10, <1>11,
    <1>12, <1>13, <1>14, <1>15, <1>16, <1>17, <1>18, <1>19, <1>20, <1>21, <1>22,
    <1>23, <1>24, <1>25, <1>26, <1>27, <1>28, <1>29, <1>30, <1>31, <1>32, <1>33,
    <1>34, <1>35, <1>36, CausesAssumption DEF Next, Run, RecordSteps, PolicySteps,
    RebootSteps, Environment, CronFires

\* The counter follows the streak from step to step.
LEMMA ExactStep ==
    TypeOK /\ ProceedInv /\ StreakCauseInv /\ StreakCountInv /\ StreakStartInv /\ FreshInv /\ OnRecordInv /\ ExactInv
      /\ [Next]_vars => ExactInv'
<1> SUFFICES ASSUME TypeOK, ProceedInv, StreakCauseInv, StreakCountInv, StreakStartInv, FreshInv, OnRecordInv, ExactInv,
                    [Next]_vars
             PROVE  ExactInv'
  OBVIOUS
<1> USE CausesDistinct, ReadBackAssumption, BoundsAssumption DEF ExactInv,
    Repetitions, Completing, LastOnRecord, ProceedInv, StreakCauseInv,
    StreakCountInv, StreakStartInv, FreshInv, OnRecordInv, BeforeJudgement,
    HaltPath, ResetPath, StreakCap, Lossy,
    TypeOK, FileTypes, RunTypes, HistoryTypes,
    PcIdle, Recording, Policy, AfterRecord, Rebooting, records, local, history
<1>1. ASSUME NEW c \in Causes, Request(c) PROVE ExactInv'
  BY <1>1 DEF Request, Goto
<1>2. CASE OpenRebootInfo
  BY <1>2 DEF OpenRebootInfo, Goto, FileStep, FileFault, CountFault
<1>3. CASE WriteRebootInfo
  BY <1>3 DEF WriteRebootInfo, Goto
<1>4. CASE WriteParodusInfo
  BY <1>4 DEF WriteParodusInfo, Goto, FileStep, FileFault, CountFault
<1>5. CASE Evaluate
  BY <1>5 DEF Evaluate, Goto, Unlink, FileStep, FileFault, CountFault
<1>6. CASE Bypass
  BY <1>6 DEF Bypass, Goto
<1>7. CASE HaltAgain
  BY <1>7 DEF HaltAgain, Goto, SameCauseInWindow, PreviousCause, JudgeStreak, Mistaken,
      CompareKeeps
<1>8. CASE DetectLoop
  BY <1>8 DEF DetectLoop, Goto, SameCauseInWindow, PreviousCause, JudgeStreak, Mistaken,
      CompareKeeps
<1>9. CASE CountReboot
  BY <1>9 DEF CountReboot, Goto, SameCauseInWindow, PreviousCause,
      JudgeStreak, Mistaken, CompareKeeps
<1>10. CASE NotInLoop
  BY <1>10 DEF NotInLoop, Goto, SameCauseInWindow, PreviousCause, JudgeStreak, Mistaken,
      CompareKeeps, FileFault, CountFault
<1>11. CASE OpenCounter
  BY <1>11 DEF OpenCounter, Goto, FileStep, FileFault, CountFault
<1>12. CASE WriteCounter
  BY <1>12 DEF WriteCounter, Goto
<1>13. CASE StopTouch
  BY <1>13 DEF StopTouch, Goto, Touch, FileStep, FileFault, CountFault
<1>14. CASE StopRfc
  BY <1>14 DEF StopRfc, Goto, ServiceStep, ServiceFault, CountFault
<1>15. CASE StopCronRemove
  BY <1>15 DEF StopCronRemove, Goto, ServiceStep, ServiceFault, CountFault
<1>16. CASE StopCronAdd
  BY <1>16 DEF StopCronAdd, Goto, ServiceStep, ServiceFault, CountFault
<1>17. CASE HaltTouch
  BY <1>17 DEF HaltTouch, Goto, Touch, FileStep, FileFault, CountFault
<1>18. CASE ResetRfc
  BY <1>18 DEF ResetRfc, Goto, ServiceStep, ServiceFault, CountFault
<1>19. CASE ResetCounter
  BY <1>19 DEF ResetCounter, Goto, FileStep, FileFault, CountFault
<1>20. CASE ResetStop
  BY <1>20 DEF ResetStop, Goto, Unlink, FileStep, FileFault, CountFault
<1>21. CASE ResetCron
  BY <1>21 DEF ResetCron, Goto, Repaired, ServiceFault, CountFault
<1>22. CASE OpenPrevious
  BY <1>22 DEF OpenPrevious, Goto, RunEnds, FileFault, CountFault
<1>23. CASE WritePrevious
  BY <1>23 DEF WritePrevious, Goto, SavedPrevious
<1>24. CASE Defer
  BY <1>24 DEF Defer, SavedPrevious, RunEnds
<1>25. CASE UpdateMaintenanceFlag
  BY <1>25 DEF UpdateMaintenanceFlag, Goto, Touch, Unlink, FileStep,
      FileFault, CountFault
<1>26. CASE TouchRebootNow
  BY <1>26 DEF TouchRebootNow, Goto, Touch, FileStep, FileFault, CountFault
<1>27. CASE RebootIgnored
  BY <1>27 DEF RebootIgnored, Goto
<1>28. CASE RebootFailed
  BY <1>28 DEF RebootFailed, RunEnds
<1>29. CASE GoDown
  BY <1>29 DEF GoDown, RunEnds, Rebooting
<1>30. CASE WindowExpires
  BY <1>30 DEF WindowExpires
<1>31. CASE SetDetection
  BY <1>31 DEF SetDetection
<1>32. CASE Fetch
  BY <1>32 DEF Fetch
<1>33. CASE CronLost
  BY <1>33 DEF CronLost, ServiceFault, CountFault
<1>34. CASE ProcessDies
  BY <1>34 DEF ProcessDies, RunEnds, FileFault, CountFault
<1>35. CASE PowerLoss
  BY <1>35 DEF PowerLoss, RunEnds, CountFault
<1>36. CASE UNCHANGED vars
  BY <1>36 DEF vars
<1> QED BY <1>1, <1>2, <1>3, <1>4, <1>5, <1>6, <1>7, <1>8, <1>9, <1>10, <1>11,
    <1>12, <1>13, <1>14, <1>15, <1>16, <1>17, <1>18, <1>19, <1>20, <1>21, <1>22,
    <1>23, <1>24, <1>25, <1>26, <1>27, <1>28, <1>29, <1>30, <1>31, <1>32, <1>33,
    <1>34, <1>35, <1>36, CausesAssumption DEF Next, Run, RecordSteps, PolicySteps,
    RebootSteps, Environment, CronFires

\* rebootCounter is neither stale nor short, for every threshold, every set of
\* causes and whatever their records give back: between runs, unless a fault,
\* detection switched off in a streak, a failed reboot, a fetcher run in the
\* middle of a run or a mistaken request has disturbed it since the last reset,
\* it is the number of repetitions of the last cause.
THEOREM CounterIsExact == Spec => []CounterExact
<1>1. Init => StormInv /\ CounterInv
  <2>1. Init => StormInv
    BY BoundsAssumption, CausesDistinct
       DEF Init, StormInv, ProceedInv, InfoInv, PreviousInv, CalmInv, Undisturbed,
           StreakCauseInv, StreakCountInv, StormBound, PcIdle, Recording, Policy,
           AfterRecord, Rebooting
  <2>2. Init => CounterInv
    BY DEF Init, CounterInv, StreakStartInv, FreshInv, OnRecordInv, LastOnRecord,
           ExactInv, Repetitions, Completing, BeforeJudgement, HaltPath, PcIdle,
           Recording, AfterRecord, Rebooting
  <2> QED BY <2>1, <2>2
<1>2. TypeOK /\ StormInv /\ CounterInv /\ [Next]_vars => (StormInv /\ CounterInv)'
  BY ProceedStep, InfoStep, PreviousStep, StreakCauseStep, CalmStep,
     StreakCountStep, BoundStep, StreakStartStep, FreshStep, OnRecordStep, ExactStep
     DEF StormInv, CounterInv
<1>3. CounterInv => CounterExact
  BY DEF CounterInv, ExactInv, Repetitions, CounterExact, BeforeJudgement
<1> QED BY <1>1, <1>2, <1>3, TypeCorrect, PTL DEF Spec

=============================================================================
