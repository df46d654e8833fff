---------------------------- MODULE FetcherProofs ----------------------------
(***************************************************************************)
(* Proofs about Fetcher, for any number of overlapping invocations, causes *)
(* and boots: no record of a cause is lost, what is told after one         *)
(* undisturbed update is the cause of the boot, and both pairs of records  *)
(* implement Handover.                                                     *)
(***************************************************************************)
EXTENDS Fetcher, TLAPS

(***************************************************************************)
(* The inductive invariants.                                               *)
(***************************************************************************)

\* main clears rebootInfo before it looks at the records, and persists only what
\* it has filled in since.
InfoInv ==
    \A i \in Instances :
        /\ pc[i] \in {"lock", "props", "rename"} => info[i] = None
        /\ pc[i] \in {"open", "write", "hardpower"} => info[i] # None

\* What is copied to the parodus record exists, and it is complete before the
\* original is unlinked.
CopyInv ==
    \A i \in Instances :
        /\ pc[i] = "copy" => parodusInfo # None \/ info[i] \in Derived
        /\ pc[i] = "unlink" => parodusInfo # None /\ previousParodus = parodusInfo

\* The record has not been renamed by this invocation, which will write one.
Persisting(i) == pc[i] \in {"open", "write"} \/ (pc[i] = "log" /\ info[i] # None)

\* Where the recorded cause is during the first update of a boot.
KeptInv ==
    started <= 1 /\ cause \in Causes =>
        /\ started = 0 => rebootInfo = cause /\ parodusInfo = cause
        /\ \A i \in Instances :
             /\ pc[i] \in Updating => started = 1 /\ pc[i] # "derive"
             /\ pc[i] = "rename" \/ Persisting(i) =>
                  rebootInfo = cause /\ parodusInfo = cause
             /\ pc[i] \in {"parodus", "copy", "unlink"} => parodusInfo = cause

\* No second update, no failure, and no record from an earlier boot.
Clean == started <= 1 /\ faults = {} /\ ~killed /\ cause # Stale

\* As rebootnow, or the lack of it, has left the records.
Waiting ==
    /\ ~hardPower
    /\ \/ cause \in Causes /\ rebootInfo = cause /\ parodusInfo = cause
       \/ cause \in Derived /\ rebootInfo = None /\ parodusInfo = None

RecordTold  == previousInfo = cause /\ rebootInfo = None
ParodusTold == previousParodus = cause /\ parodusInfo = None
StampTold   == hardPower <=> cause = Hard
DerivedBy(i) == ~hardPower /\ cause \in Derived /\ info[i] = cause

\* How much of a clean update has been done, by the place it has reached.
StageOf(i) ==
    /\ pc[i] \in Updating => started = 1 /\ ~finished
    /\ pc[i] = "rename" => Waiting
    /\ pc[i] = "derive" => Waiting /\ cause \in Derived
    /\ Persisting(i) => Waiting /\ DerivedBy(i)
    /\ pc[i] = "log" /\ info[i] = None =>
         ~hardPower /\ cause \in Causes /\ RecordTold /\ ParodusTold
    /\ pc[i] \in {"parodus", "copy", "unlink"} =>
         /\ RecordTold /\ ~hardPower
         /\ \/ info[i] = None /\ cause \in Causes /\ parodusInfo = cause
            \/ DerivedBy(i) /\ parodusInfo = None
    /\ pc[i] = "unlink" => previousParodus = cause
    /\ pc[i] = "hardpower" => RecordTold /\ ParodusTold /\ DerivedBy(i)
    /\ pc[i] = "keypress" => RecordTold /\ ParodusTold /\ StampTold

StageInv ==
    Clean =>
        /\ started = 0 => Waiting /\ ~finished
        /\ finished => RecordTold /\ ParodusTold /\ StampTold
        /\ \A i \in Instances : StageOf(i)

-----------------------------------------------------------------------------
\* Every system call of the fetcher keeps the variables in their types, and who
\* works past flock is the holder of the lock.
LEMMA TypeStep == TypeOK /\ [Next]_vars => TypeOK'
<1> SUFFICES ASSUME TypeOK, [Next]_vars PROVE TypeOK'
  OBVIOUS
<1> USE NamesAssumption, BootsAssumption
    DEF TypeOK, RecordTypes, ProcessTypes, HistoryTypes, Contents, Derived,
        FileSystems, Updating, Holding, States, None, Torn, Blank, Hard, Soft,
        Stale, records, flags, local, history
<1>1. ASSUME NEW i \in Instances,
             Invoke(i) \/ AcquireLock(i) \/ LockFails(i) \/ Work(i) \/ Kill(i)
      PROVE TypeOK'
  <2>1. CASE Invoke(i)
    BY <2>1 DEF Invoke, Goto
  <2>2. CASE AcquireLock(i)
    BY <2>2 DEF AcquireLock, Goto
  <2>3. CASE LockFails(i)
    BY <2>3 DEF LockFails, Goto, Fault
  <2>4. CASE SkipUpdate(i)
    BY <2>4 DEF SkipUpdate, Goto
  <2>5. CASE PropertiesFail(i)
    BY <2>5 DEF PropertiesFail, Goto, Fault
  <2>6. CASE BeginUpdate(i)
    BY <2>6 DEF BeginUpdate, Goto
  <2>7. CASE RenameRecord(i)
    BY <2>7 DEF RenameRecord, Goto
  <2>8. CASE NoRecord(i)
    BY <2>8 DEF NoRecord, Goto
  <2>9. CASE RenameFails(i)
    BY <2>9 DEF RenameFails, Goto, Fault
  <2>10. CASE Derive(i)
    BY <2>10 DEF Derive, Goto
  <2>11. CASE UpdateLogFields(i)
    BY <2>11 DEF UpdateLogFields, Goto
  <2>12. CASE OpenPrevious(i)
    <3>1. RecordTypes'
      BY <2>12 DEF OpenPrevious, Goto, Fault
    <3>2. ProcessTypes'
      BY <2>12 DEF OpenPrevious, Goto, Fault
    <3>3. HistoryTypes'
      BY <2>12 DEF OpenPrevious, Goto, Fault
    <3>4. ({hardPower, stt, sentinel, finished, killed} \subseteq BOOLEAN)'
      BY <2>12 DEF OpenPrevious, Goto, Fault
    <3> QED BY <3>1, <3>2, <3>3, <3>4
  <2>13. CASE WritePrevious(i)
    <3>1. RecordTypes'
      BY <2>13 DEF WritePrevious, Goto
    <3>2. ProcessTypes'
      BY <2>13 DEF WritePrevious, Goto
    <3>3. HistoryTypes'
      BY <2>13 DEF WritePrevious, Goto
    <3>4. ({hardPower, stt, sentinel, finished, killed} \subseteq BOOLEAN)'
      BY <2>13 DEF WritePrevious, Goto
    <3> QED BY <3>1, <3>2, <3>3, <3>4
  <2>14. CASE NoParodus(i)
    <3>1. RecordTypes'
      BY <2>14 DEF NoParodus, Goto, Fault, AfterParodus
    <3>2. ProcessTypes'
      BY <2>14 DEF NoParodus, Goto, Fault, AfterParodus
    <3>3. HistoryTypes'
      BY <2>14 DEF NoParodus, Goto, Fault, AfterParodus
    <3>4. ({hardPower, stt, sentinel, finished, killed} \subseteq BOOLEAN)'
      BY <2>14 DEF NoParodus, Goto, Fault, AfterParodus
    <3> QED BY <3>1, <3>2, <3>3, <3>4
  <2>15. CASE OpenParodus(i)
    BY <2>15 DEF OpenParodus, Goto
  <2>16. CASE CopyParodus(i)
    BY <2>16 DEF CopyParodus, Goto, AfterParodus
  <2>17. CASE UnlinkParodus(i)
    BY <2>17 DEF UnlinkParodus, Goto, AfterParodus
  <2>18. CASE StampHardPower(i)
    BY <2>18 DEF StampHardPower, Goto, Fault
  <2>19. CASE CopyKeypress(i)
    BY <2>19 DEF CopyKeypress, Goto
  <2>20. CASE ReleaseLock(i)
    BY <2>20 DEF ReleaseLock, Goto
  <2>21. CASE WriteSentinel(i)
    <3>1. RecordTypes'
      BY <2>21 DEF WriteSentinel, Goto, Fault
    <3>2. ProcessTypes'
      BY <2>21 DEF WriteSentinel, Goto, Fault
    <3>3. HistoryTypes'
      <4>1. CASE sentinel' = TRUE /\ UNCHANGED history
        BY <4>1
      <4>2. CASE Fault("tmp")
        BY <4>2 DEF Fault
      <4> QED BY <2>21, <4>1, <4>2 DEF WriteSentinel
    <3>4. ({hardPower, stt, sentinel, finished, killed} \subseteq BOOLEAN)'
      BY <2>21 DEF WriteSentinel, Goto, Fault
    <3> QED BY <3>1, <3>2, <3>3, <3>4
  <2>22. CASE Kill(i)
    <3>1. RecordTypes'
      BY <2>22 DEF Kill
    <3>2. ProcessTypes'
      BY <2>22 DEF Kill
    <3>3. HistoryTypes'
      BY <2>22 DEF Kill
    <3>4. ({hardPower, stt, sentinel, finished, killed} \subseteq BOOLEAN)'
      BY <2>22 DEF Kill
    <3> QED BY <3>1, <3>2, <3>3, <3>4
  <2> QED BY <1>1, <2>1, <2>2, <2>3, <2>4, <2>5, <2>6, <2>7, <2>8, <2>9,
     <2>10, <2>11, <2>12, <2>13, <2>14, <2>15, <2>16, <2>17, <2>18, <2>19,
     <2>20, <2>21, <2>22 DEF Work, Update, Parodus
<1>2. CASE SttReceived
  BY <1>2 DEF SttReceived
<1>3. ASSUME NEW c \in Causes, Reboot(c) PROVE TypeOK'
  <2>1. RecordTypes'
    BY <1>3 DEF Reboot, NextBoot
  <2>2. ProcessTypes'
    BY <1>3 DEF Reboot, NextBoot
  <2>3. HistoryTypes'
    BY <1>3 DEF Reboot, NextBoot
  <2>4. ({hardPower, stt, sentinel, finished, killed} \subseteq BOOLEAN)'
    BY <1>3 DEF Reboot, NextBoot
  <2> QED BY <2>1, <2>2, <2>3, <2>4
<1>4. CASE PowerCut
  <2>1. RecordTypes'
    BY <1>4 DEF PowerCut, NextBoot
  <2>2. ProcessTypes'
    BY <1>4 DEF PowerCut, NextBoot
  <2>3. HistoryTypes'
    BY <1>4 DEF PowerCut, NextBoot
  <2>4. ({hardPower, stt, sentinel, finished, killed} \subseteq BOOLEAN)'
    BY <1>4 DEF PowerCut, NextBoot
  <2> QED BY <2>1, <2>2, <2>3, <2>4
<1>5. CASE UNCHANGED vars
  BY <1>5 DEF vars
<1> QED BY <1>1, <1>2, <1>3, <1>4, <1>5 DEF Next

LEMMA InitTyped == Init => TypeOK
<1> SUFFICES ASSUME Init PROVE TypeOK
  OBVIOUS
<1> USE NamesAssumption, BootsAssumption
    DEF Init, RecordTypes, ProcessTypes, HistoryTypes, Contents, Derived,
        FileSystems, Updating, Holding, States, None, Torn, Blank, Hard, Soft, Stale
<1>1. RecordTypes
  OBVIOUS
<1>2. ProcessTypes
  OBVIOUS
<1>3. HistoryTypes
  OBVIOUS
<1>4. {hardPower, stt, sentinel, finished, killed} \subseteq BOOLEAN
  OBVIOUS
<1> QED BY <1>1, <1>2, <1>3, <1>4 DEF TypeOK

\* The type invariant, for every set of invocations: whoever works past flock
\* holds the lock, so that there is at most one.
THEOREM TypeCorrect == Spec => []TypeOK
BY InitTyped, TypeStep, PTL DEF Spec

\* flock: two invocations past it are one.
LEMMA OneHolder ==
    TypeOK => \A i, j \in Instances : pc[i] \in Holding /\ pc[j] \in Holding => i = j
BY DEF TypeOK, ProcessTypes

-----------------------------------------------------------------------------
\* What main persists is what it has derived.
LEMMA InfoStep == TypeOK /\ InfoInv /\ [Next]_vars => InfoInv'
<1> SUFFICES ASSUME TypeOK, InfoInv, [Next]_vars PROVE InfoInv'
  OBVIOUS
<1> USE
    DEF TypeOK, ProcessTypes, InfoInv, States, Holding, Updating, Derived, None,
        Blank, Hard, Soft, records, flags, local, history
<1>1. ASSUME NEW i \in Instances,
             Invoke(i) \/ AcquireLock(i) \/ LockFails(i) \/ Work(i) \/ Kill(i)
      PROVE InfoInv'
  <2>1. CASE Invoke(i)
    BY <2>1 DEF Invoke, Goto
  <2>2. CASE AcquireLock(i)
    BY <2>2 DEF AcquireLock, Goto
  <2>3. CASE LockFails(i)
    BY <2>3 DEF LockFails, Goto, Fault
  <2>4. CASE SkipUpdate(i)
    BY <2>4 DEF SkipUpdate, Goto
  <2>5. CASE PropertiesFail(i)
    BY <2>5 DEF PropertiesFail, Goto, Fault
  <2>6. CASE BeginUpdate(i)
    BY <2>6 DEF BeginUpdate, Goto
  <2>7. CASE RenameRecord(i)
    BY <2>7 DEF RenameRecord, Goto
  <2>8. CASE NoRecord(i)
    BY <2>8 DEF NoRecord, Goto
  <2>9. CASE RenameFails(i)
    BY <2>9 DEF RenameFails, Goto, Fault
  <2>10. CASE Derive(i)
    BY <2>10 DEF Derive, Goto
  <2>11. CASE UpdateLogFields(i)
    BY <2>11 DEF UpdateLogFields, Goto
  <2>12. CASE OpenPrevious(i)
    BY <2>12 DEF OpenPrevious, Goto, Fault
  <2>13. CASE WritePrevious(i)
    BY <2>13 DEF WritePrevious, Goto
  <2>14. CASE NoParodus(i)
    BY <2>14 DEF NoParodus, Goto, Fault, AfterParodus
  <2>15. CASE OpenParodus(i)
    BY <2>15 DEF OpenParodus, Goto
  <2>16. CASE CopyParodus(i)
    BY <2>16 DEF CopyParodus, Goto, AfterParodus
  <2>17. CASE UnlinkParodus(i)
    BY <2>17 DEF UnlinkParodus, Goto, AfterParodus
  <2>18. CASE StampHardPower(i)
    BY <2>18 DEF StampHardPower, Goto, Fault
  <2>19. CASE CopyKeypress(i)
    BY <2>19 DEF CopyKeypress, Goto
  <2>20. CASE ReleaseLock(i)
    BY <2>20 DEF ReleaseLock, Goto
  <2>21. CASE WriteSentinel(i)
    BY <2>21 DEF WriteSentinel, Goto, Fault
  <2>22. CASE Kill(i)
    BY <2>22 DEF Kill
  <2> QED BY <1>1, <2>1, <2>2, <2>3, <2>4, <2>5, <2>6, <2>7, <2>8, <2>9,
     <2>10, <2>11, <2>12, <2>13, <2>14, <2>15, <2>16, <2>17, <2>18, <2>19,
     <2>20, <2>21, <2>22 DEF Work, Update, Parodus
<1>2. CASE SttReceived
  BY <1>2 DEF SttReceived
<1>3. ASSUME NEW c \in Causes, Reboot(c) PROVE InfoInv'
  BY <1>3 DEF Reboot, NextBoot
<1>4. CASE PowerCut
  BY <1>4 DEF PowerCut, NextBoot
<1>5. CASE UNCHANGED vars
  BY <1>5 DEF vars
<1> QED BY <1>1, <1>2, <1>3, <1>4, <1>5 DEF Next

\* The copy of the parodus record is complete before the record is unlinked.
LEMMA CopyStep == TypeOK /\ InfoInv /\ CopyInv /\ [Next]_vars => CopyInv'
<1> SUFFICES ASSUME TypeOK, InfoInv, CopyInv, [Next]_vars PROVE CopyInv'
  OBVIOUS
<1> USE NamesAssumption, OneHolder
    DEF TypeOK, RecordTypes, ProcessTypes, InfoInv, CopyInv, States, Holding,
        Updating, Derived, None, Blank, Hard, Soft, records, flags, local, history
<1>1. ASSUME NEW i \in Instances,
             Invoke(i) \/ AcquireLock(i) \/ LockFails(i) \/ Work(i) \/ Kill(i)
      PROVE CopyInv'
  <2>1. CASE Invoke(i)
    BY <2>1 DEF Invoke, Goto
  <2>2. CASE AcquireLock(i)
    BY <2>2 DEF AcquireLock, Goto
  <2>3. CASE LockFails(i)
    BY <2>3 DEF LockFails, Goto, Fault
  <2>4. CASE SkipUpdate(i)
    BY <2>4 DEF SkipUpdate, Goto
  <2>5. CASE PropertiesFail(i)
    BY <2>5 DEF PropertiesFail, Goto, Fault
  <2>6. CASE BeginUpdate(i)
    BY <2>6 DEF BeginUpdate, Goto
  <2>7. CASE RenameRecord(i)
    BY <2>7 DEF RenameRecord, Goto
  <2>8. CASE NoRecord(i)
    BY <2>8 DEF NoRecord, Goto
  <2>9. CASE RenameFails(i)
    BY <2>9 DEF RenameFails, Goto, Fault
  <2>10. CASE Derive(i)
    BY <2>10 DEF Derive, Goto
  <2>11. CASE UpdateLogFields(i)
    BY <2>11 DEF UpdateLogFields, Goto
  <2>12. CASE OpenPrevious(i)
    BY <2>12 DEF OpenPrevious, Goto, Fault
  <2>13. CASE WritePrevious(i)
    BY <2>13 DEF WritePrevious, Goto
  <2>14. CASE NoParodus(i)
    BY <2>14 DEF NoParodus, Goto, Fault, AfterParodus
  <2>15. CASE OpenParodus(i)
    BY <2>15 DEF OpenParodus, Goto
  <2>16. CASE CopyParodus(i)
    BY <2>16 DEF CopyParodus, Goto, AfterParodus
  <2>17. CASE UnlinkParodus(i)
    BY <2>17 DEF UnlinkParodus, Goto, AfterParodus
  <2>18. CASE StampHardPower(i)
    BY <2>18 DEF StampHardPower, Goto, Fault
  <2>19. CASE CopyKeypress(i)
    BY <2>19 DEF CopyKeypress, Goto
  <2>20. CASE ReleaseLock(i)
    BY <2>20 DEF ReleaseLock, Goto
  <2>21. CASE WriteSentinel(i)
    BY <2>21 DEF WriteSentinel, Goto, Fault
  <2>22. CASE Kill(i)
    BY <2>22 DEF Kill
  <2> QED BY <1>1, <2>1, <2>2, <2>3, <2>4, <2>5, <2>6, <2>7, <2>8, <2>9,
     <2>10, <2>11, <2>12, <2>13, <2>14, <2>15, <2>16, <2>17, <2>18, <2>19,
     <2>20, <2>21, <2>22 DEF Work, Update, Parodus
<1>2. CASE SttReceived
  BY <1>2 DEF SttReceived
<1>3. ASSUME NEW c \in Causes, Reboot(c) PROVE CopyInv'
  BY <1>3 DEF Reboot, NextBoot
<1>4. CASE PowerCut
  BY <1>4 DEF PowerCut, NextBoot
<1>5. CASE UNCHANGED vars
  BY <1>5 DEF vars
<1> QED BY <1>1, <1>2, <1>3, <1>4, <1>5 DEF Next

\* Only the writer under the lock leaves a record torn.
LEMMA TornStep == TypeOK /\ TornOnlyUnderLock /\ [Next]_vars => TornOnlyUnderLock'
<1> SUFFICES ASSUME TypeOK, TornOnlyUnderLock, [Next]_vars PROVE TornOnlyUnderLock'
  OBVIOUS
<1> USE NamesAssumption
    DEF TypeOK, RecordTypes, ProcessTypes, TornOnlyUnderLock, Contents, Derived,
        Holding, Updating, None, Torn, Blank, Hard, Soft, records, flags, local,
        history
<1>1. ASSUME NEW i \in Instances,
             Invoke(i) \/ AcquireLock(i) \/ LockFails(i) \/ Work(i) \/ Kill(i)
      PROVE TornOnlyUnderLock'
  <2>1. CASE Invoke(i)
    BY <2>1 DEF Invoke, Goto
  <2>2. CASE AcquireLock(i)
    BY <2>2 DEF AcquireLock, Goto
  <2>3. CASE LockFails(i)
    BY <2>3 DEF LockFails, Goto, Fault
  <2>4. CASE SkipUpdate(i)
    BY <2>4 DEF SkipUpdate, Goto
  <2>5. CASE PropertiesFail(i)
    BY <2>5 DEF PropertiesFail, Goto, Fault
  <2>6. CASE BeginUpdate(i)
    BY <2>6 DEF BeginUpdate, Goto
  <2>7. CASE RenameRecord(i)
    BY <2>7 DEF RenameRecord, Goto
  <2>8. CASE NoRecord(i)
    BY <2>8 DEF NoRecord, Goto
  <2>9. CASE RenameFails(i)
    BY <2>9 DEF RenameFails, Goto, Fault
  <2>10. CASE Derive(i)
    BY <2>10 DEF Derive, Goto
  <2>11. CASE UpdateLogFields(i)
    BY <2>11 DEF UpdateLogFields, Goto
  <2>12. CASE OpenPrevious(i)
    BY <2>12 DEF OpenPrevious, Goto, Fault
  <2>13. CASE WritePrevious(i)
    BY <2>13 DEF WritePrevious, Goto
  <2>14. CASE NoParodus(i)
    BY <2>14 DEF NoParodus, Goto, Fault, AfterParodus
  <2>15. CASE OpenParodus(i)
    BY <2>15 DEF OpenParodus, Goto
  <2>16. CASE CopyParodus(i)
    BY <2>16 DEF CopyParodus, Goto, AfterParodus
  <2>17. CASE UnlinkParodus(i)
    BY <2>17 DEF UnlinkParodus, Goto, AfterParodus
  <2>18. CASE StampHardPower(i)
    BY <2>18 DEF StampHardPower, Goto, Fault
  <2>19. CASE CopyKeypress(i)
    BY <2>19 DEF CopyKeypress, Goto
  <2>20. CASE ReleaseLock(i)
    BY <2>20 DEF ReleaseLock, Goto
  <2>21. CASE WriteSentinel(i)
    BY <2>21 DEF WriteSentinel, Goto, Fault
  <2>22. CASE Kill(i)
    BY <2>22 DEF Kill
  <2> QED BY <1>1, <2>1, <2>2, <2>3, <2>4, <2>5, <2>6, <2>7, <2>8, <2>9,
     <2>10, <2>11, <2>12, <2>13, <2>14, <2>15, <2>16, <2>17, <2>18, <2>19,
     <2>20, <2>21, <2>22 DEF Work, Update, Parodus
<1>2. CASE SttReceived
  BY <1>2 DEF SttReceived
<1>3. ASSUME NEW c \in Causes, Reboot(c) PROVE TornOnlyUnderLock'
  BY <1>3 DEF Reboot, NextBoot
<1>4. CASE PowerCut
  BY <1>4 DEF PowerCut, NextBoot
<1>5. CASE UNCHANGED vars
  BY <1>5 DEF vars
<1> QED BY <1>1, <1>2, <1>3, <1>4, <1>5 DEF Next

\* The first update of a boot loses the cause at none of its steps.
LEMMA KeptStep ==
    TypeOK /\ InfoInv /\ CopyInv /\ KeptInv /\ CauseNeverLost /\ [Next]_vars
    => (KeptInv /\ CauseNeverLost)'
<1> SUFFICES ASSUME TypeOK, InfoInv, CopyInv, KeptInv, CauseNeverLost, [Next]_vars
             PROVE  (KeptInv /\ CauseNeverLost)'
  OBVIOUS
<1> USE NamesAssumption, OneHolder
    DEF TypeOK, RecordTypes, ProcessTypes, HistoryTypes, InfoInv, CopyInv, KeptInv,
        CauseNeverLost, Persisting, Contents, Derived, Holding, Updating, None,
        Torn, Blank, Hard, Soft, Stale, records, flags, local, history
<1>1. ASSUME NEW i \in Instances,
             Invoke(i) \/ AcquireLock(i) \/ LockFails(i) \/ Work(i) \/ Kill(i)
      PROVE (KeptInv /\ CauseNeverLost)'
  <2>1. CASE Invoke(i)
    BY <2>1 DEF Invoke, Goto
  <2>2. CASE AcquireLock(i)
    BY <2>2 DEF AcquireLock, Goto
  <2>3. CASE LockFails(i)
    BY <2>3 DEF LockFails, Goto, Fault
  <2>4. CASE SkipUpdate(i)
    BY <2>4 DEF SkipUpdate, Goto
  <2>5. CASE PropertiesFail(i)
    BY <2>5 DEF PropertiesFail, Goto, Fault
  <2>6. CASE BeginUpdate(i)
    BY <2>6 DEF BeginUpdate, Goto
  <2>7. CASE RenameRecord(i)
    BY <2>7 DEF RenameRecord, Goto
  <2>8. CASE NoRecord(i)
    BY <2>8 DEF NoRecord, Goto
  <2>9. CASE RenameFails(i)
    BY <2>9 DEF RenameFails, Goto, Fault
  <2>10. CASE Derive(i)
    BY <2>10 DEF Derive, Goto
  <2>11. CASE UpdateLogFields(i)
    BY <2>11 DEF UpdateLogFields, Goto
  <2>12. CASE OpenPrevious(i)
    BY <2>12 DEF OpenPrevious, Goto, Fault
  <2>13. CASE WritePrevious(i)
    BY <2>13 DEF WritePrevious, Goto
  <2>14. CASE NoParodus(i)
    BY <2>14 DEF NoParodus, Goto, Fault, AfterParodus
  <2>15. CASE OpenParodus(i)
    BY <2>15 DEF OpenParodus, Goto
  <2>16. CASE CopyParodus(i)
    BY <2>16 DEF CopyParodus, Goto, AfterParodus
  <2>17. CASE UnlinkParodus(i)
    BY <2>17 DEF UnlinkParodus, Goto, AfterParodus
  <2>18. CASE StampHardPower(i)
    BY <2>18 DEF StampHardPower, Goto, Fault
  <2>19. CASE CopyKeypress(i)
    BY <2>19 DEF CopyKeypress, Goto
  <2>20. CASE ReleaseLock(i)
    BY <2>20 DEF ReleaseLock, Goto
  <2>21. CASE WriteSentinel(i)
    BY <2>21 DEF WriteSentinel, Goto, Fault
  <2>22. CASE Kill(i)
    BY <2>22 DEF Kill
  <2> QED BY <1>1, <2>1, <2>2, <2>3, <2>4, <2>5, <2>6, <2>7, <2>8, <2>9,
     <2>10, <2>11, <2>12, <2>13, <2>14, <2>15, <2>16, <2>17, <2>18, <2>19,
     <2>20, <2>21, <2>22 DEF Work, Update, Parodus
<1>2. CASE SttReceived
  BY <1>2 DEF SttReceived
<1>3. ASSUME NEW c \in Causes, Reboot(c) PROVE (KeptInv /\ CauseNeverLost)'
  BY <1>3 DEF Reboot, NextBoot
<1>4. CASE PowerCut
  BY <1>4 DEF PowerCut, NextBoot
<1>5. CASE UNCHANGED vars
  BY <1>5 DEF vars
<1> QED BY <1>1, <1>2, <1>3, <1>4, <1>5 DEF Next

\* A clean update goes through its stages.
LEMMA StageStep == TypeOK /\ InfoInv /\ StageInv /\ [Next]_vars => StageInv'
<1> SUFFICES ASSUME TypeOK, InfoInv, StageInv, [Next]_vars PROVE StageInv'
  OBVIOUS
<1> USE NamesAssumption, OneHolder
    DEF TypeOK, RecordTypes, ProcessTypes, HistoryTypes, InfoInv, StageInv, StageOf,
        Clean, Waiting, RecordTold, ParodusTold, StampTold, DerivedBy, Persisting,
        Contents, Derived, Holding, Updating, None, Torn, Blank, Hard, Soft, Stale,
        records, flags, local, history
<1>1. ASSUME NEW i \in Instances,
             Invoke(i) \/ AcquireLock(i) \/ LockFails(i) \/ Work(i) \/ Kill(i)
      PROVE StageInv'
  <2>1. CASE Invoke(i)
    BY <2>1 DEF Invoke, Goto
  <2>2. CASE AcquireLock(i)
    BY <2>2 DEF AcquireLock, Goto
  <2>3. CASE LockFails(i)
    BY <2>3 DEF LockFails, Goto, Fault
  <2>4. CASE SkipUpdate(i)
    BY <2>4 DEF SkipUpdate, Goto
  <2>5. CASE PropertiesFail(i)
    BY <2>5 DEF PropertiesFail, Goto, Fault
  <2>6. CASE BeginUpdate(i)
    BY <2>6 DEF BeginUpdate, Goto
  <2>7. CASE RenameRecord(i)
    BY <2>7 DEF RenameRecord, Goto
  <2>8. CASE NoRecord(i)
    BY <2>8 DEF NoRecord, Goto
  <2>9. CASE RenameFails(i)
    BY <2>9 DEF RenameFails, Goto, Fault
  <2>10. CASE Derive(i)
    BY <2>10 DEF Derive, Goto
  <2>11. CASE UpdateLogFields(i)
    BY <2>11 DEF UpdateLogFields, Goto
  <2>12. CASE OpenPrevious(i)
    BY <2>12 DEF OpenPrevious, Goto, Fault
  <2>13. CASE WritePrevious(i)
    BY <2>13 DEF WritePrevious, Goto
  <2>14. CASE NoParodus(i)
    BY <2>14 DEF NoParodus, Goto, Fault, AfterParodus
  <2>15. CASE OpenParodus(i)
    BY <2>15 DEF OpenParodus, Goto
  <2>16. CASE CopyParodus(i)
    BY <2>16 DEF CopyParodus, Goto, AfterParodus
  <2>17. CASE UnlinkParodus(i)
    BY <2>17 DEF UnlinkParodus, Goto, AfterParodus
  <2>18. CASE StampHardPower(i)
    <3>1. CASE (hardPower' = (hardPower \/ info[i] = Hard)) /\ UNCHANGED history
      <4>1. pc[i] = "hardpower" /\ pc' = [pc EXCEPT ![i] = "keypress"]
        BY <2>18 DEF StampHardPower, Goto
      <4>2. Clean => /\ ~hardPower /\ info[i] = cause /\ RecordTold /\ ParodusTold
                     /\ started = 1 /\ ~finished
        BY <4>1
      <4>3. Clean => StampTold'
        BY <3>1, <4>2, Zenon DEF StampTold, history
      <4>4. UNCHANGED <<rebootInfo, previousInfo, parodusInfo, previousParodus, info, history>>
        BY <2>18, <3>1 DEF StampHardPower
      <4>5. Clean => RecordTold' /\ ParodusTold' /\ started' = 1 /\ ~finished'
        BY <4>2, <4>4
      <4>6. Clean => \A j \in Instances : StageOf(j)'
        <5> SUFFICES ASSUME Clean, NEW j \in Instances PROVE StageOf(j)'
          OBVIOUS
        <5>1. CASE j = i
          BY <4>1, <4>3, <4>5, <5>1 DEF StampTold
        <5>2. CASE j # i
          BY <4>1, <5>2
        <5> QED BY <5>1, <5>2
      <4> QED BY <4>4, <4>5, <4>6
    <3>2. CASE Fault("opt")
      BY <3>2 DEF Fault
    <3> QED BY <2>18, <3>1, <3>2 DEF StampHardPower
  <2>19. CASE CopyKeypress(i)
    BY <2>19 DEF CopyKeypress, Goto
  <2>20. CASE ReleaseLock(i)
    BY <2>20 DEF ReleaseLock, Goto
  <2>21. CASE WriteSentinel(i)
    BY <2>21 DEF WriteSentinel, Goto, Fault
  <2>22. CASE Kill(i)
    BY <2>22 DEF Kill
  <2> QED BY <1>1, <2>1, <2>2, <2>3, <2>4, <2>5, <2>6, <2>7, <2>8, <2>9,
     <2>10, <2>11, <2>12, <2>13, <2>14, <2>15, <2>16, <2>17, <2>18, <2>19,
     <2>20, <2>21, <2>22 DEF Work, Update, Parodus
<1>2. CASE SttReceived
  BY <1>2 DEF SttReceived
<1>3. ASSUME NEW c \in Causes, Reboot(c) PROVE StageInv'
  BY <1>3 DEF Reboot, NextBoot
<1>4. CASE PowerCut
  BY <1>4 DEF PowerCut, NextBoot
<1>5. CASE UNCHANGED vars
  BY <1>5 DEF vars
<1> QED BY <1>1, <1>2, <1>3, <1>4, <1>5 DEF Next

-----------------------------------------------------------------------------
FetchInv == TypeOK /\ InfoInv /\ CopyInv /\ KeptInv /\ CauseNeverLost /\ StageInv

\* All of it together is an invariant.
LEMMA Invariance == Spec => []FetchInv
<1>1. Init => FetchInv
  <2> SUFFICES ASSUME Init PROVE InfoInv /\ CopyInv /\ KeptInv /\ CauseNeverLost /\ StageInv
    BY InitTyped DEF FetchInv
  <2> USE NamesAssumption
      DEF Init, Updating, Derived, None, Torn, Blank, Hard, Soft, Stale, Persisting
  <2>1. InfoInv /\ CopyInv
    BY DEF InfoInv, CopyInv
  <2>2. KeptInv /\ CauseNeverLost
    BY DEF KeptInv, CauseNeverLost
  <2>3. StageInv
    BY DEF StageInv, StageOf, Clean, Waiting
  <2> QED BY <2>1, <2>2, <2>3
<1>2. FetchInv /\ [Next]_vars => FetchInv'
  BY TypeStep, InfoStep, CopyStep, KeptStep, StageStep DEF FetchInv
<1> QED BY <1>1, <1>2, PTL DEF Spec

\* The cause that rebootnow has recorded is not lost before a second update of
\* the boot begins, however many invocations overlap and wherever they are
\* killed, fail, or lose power: rename, and copy before unlink, see to that.
THEOREM CauseKept == Spec => []CauseNeverLost
<1>1. FetchInv => CauseNeverLost
  BY DEF FetchInv
<1> QED BY <1>1, Invariance, PTL

\* One update without failures tells the cause of the boot in all records.
THEOREM CauseReported == Spec => []CauseTold
<1>1. FetchInv => CauseTold
  <2> SUFFICES ASSUME FetchInv, OneUpdate, finished, cause # Stale
               PROVE  /\ previousInfo = cause /\ previousParodus = cause
                      /\ hardPower <=> cause = Hard
                      /\ rebootInfo = None /\ parodusInfo = None
    BY DEF CauseTold
  <2>1. Clean
    BY DEF Clean, OneUpdate
  <2> QED BY <2>1 DEF FetchInv, StageInv, RecordTold, ParodusTold, StampTold
<1> QED BY <1>1, Invariance, PTL

\* A half-written previousreboot.info is seen only while the holder of the lock
\* writes it, or after a kill.
THEOREM TornUnderLock == Spec => []TornOnlyUnderLock
<1>1. Init => TornOnlyUnderLock
  BY DEF Init, TornOnlyUnderLock, None, Torn
<1> QED BY <1>1, TypeCorrect, TornStep, PTL DEF Spec

-----------------------------------------------------------------------------
(***************************************************************************)
(* The refinement.  Every step of the fetcher is a step of the handover of *)
(* a record, or leaves the record alone.                                   *)
(***************************************************************************)

\* An invocation that moves elsewhere does not change who writes.
MovesElsewhere(i, at) ==
    pc[i] # at /\ \E to \in States \ {at} : pc' = [pc EXCEPT ![i] = to]

LEMMA OthersStay ==
    ASSUME TypeOK, NEW i \in Instances, NEW at, MovesElsewhere(i, at)
    PROVE  Someone(at)' = Someone(at)
BY DEF TypeOK, ProcessTypes, Someone, MovesElsewhere

\* The one writer of a record, under the lock, is done or dies.
LEMMA WriterLeaves ==
    ASSUME TypeOK, NEW i \in Instances, NEW at \in Holding, NEW to,
           pc' = [pc EXCEPT ![i] = to], pc[i] = at, to # at
    PROVE  Someone(at) = TRUE /\ Someone(at)' = FALSE
<1>1. \A j \in Instances \ {i} : pc[j] # at /\ pc'[j] = pc[j]
  BY OneHolder DEF TypeOK, ProcessTypes
<1> QED BY <1>1 DEF TypeOK, ProcessTypes, Someone

\* Whoever holds the lock elsewhere excludes a writer.
LEMMA NoWriter ==
    ASSUME TypeOK, NEW i \in Instances, NEW at \in Holding, pc[i] \in Holding, pc[i] # at
    PROVE  Someone(at) = FALSE
BY OneHolder DEF Someone

\* After a boot no invocation runs.
LEMMA NobodyAfterBoot == ASSUME NextBoot, NEW at, at # "off" PROVE Someone(at)' = FALSE
BY DEF NextBoot, Someone

\* The steps of reboot.info and previousreboot.info.
LEMMA RecordStep == TypeOK /\ InfoInv /\ [Next]_vars => [ByRename!Next]_(ByRename!vars)
<1> SUFFICES ASSUME TypeOK, InfoInv, [Next]_vars PROVE [ByRename!Next]_(ByRename!vars)
  OBVIOUS
<1> USE DEF ByRename!vars, records, flags, local, history
<1>1. ASSUME NEW i \in Instances,
             Invoke(i) \/ AcquireLock(i) \/ LockFails(i) \/ Work(i) \/ Kill(i)
      PROVE [ByRename!Next]_(ByRename!vars)
  <2>1. CASE Invoke(i)
    <3>1. MovesElsewhere(i, "write")
      BY <2>1 DEF Invoke, Goto, MovesElsewhere, States, Holding, Updating
    <3> QED BY <2>1, <3>1, OthersStay DEF Invoke
  <2>2. CASE AcquireLock(i)
    <3>1. MovesElsewhere(i, "write")
      BY <2>2 DEF AcquireLock, Goto, MovesElsewhere, States, Holding, Updating
    <3> QED BY <2>2, <3>1, OthersStay DEF AcquireLock
  <2>3. CASE LockFails(i)
    <3>1. MovesElsewhere(i, "write")
      BY <2>3 DEF LockFails, Goto, Fault, MovesElsewhere, States, Holding, Updating
    <3> QED BY <2>3, <3>1, OthersStay DEF LockFails
  <2>4. CASE SkipUpdate(i)
    <3>1. MovesElsewhere(i, "write")
      BY <2>4 DEF SkipUpdate, Goto, MovesElsewhere, States, Holding, Updating
    <3> QED BY <2>4, <3>1, OthersStay DEF SkipUpdate
  <2>5. CASE PropertiesFail(i)
    <3>1. MovesElsewhere(i, "write")
      BY <2>5 DEF PropertiesFail, Goto, Fault, MovesElsewhere, States, Holding, Updating
    <3> QED BY <2>5, <3>1, OthersStay DEF PropertiesFail
  <2>6. CASE BeginUpdate(i)
    <3>1. MovesElsewhere(i, "write")
      BY <2>6 DEF BeginUpdate, Goto, MovesElsewhere, States, Holding, Updating
    <3> QED BY <2>6, <3>1, OthersStay DEF BeginUpdate
  <2>7. CASE RenameRecord(i)
    <3>1. Someone("write") = FALSE /\ Someone("write")' = Someone("write")
      BY <2>7, NoWriter, OthersStay
         DEF RenameRecord, Goto, MovesElsewhere, States, Holding, Updating
    <3> QED BY <2>7, <3>1 DEF RenameRecord, ByRename!Next, ByRename!Take
  <2>8. CASE NoRecord(i)
    <3>1. MovesElsewhere(i, "write")
      BY <2>8 DEF NoRecord, Goto, MovesElsewhere, States, Holding, Updating
    <3> QED BY <2>8, <3>1, OthersStay DEF NoRecord
  <2>9. CASE RenameFails(i)
    <3>1. MovesElsewhere(i, "write")
      BY <2>9 DEF RenameFails, Goto, Fault, MovesElsewhere, States, Holding, Updating
    <3> QED BY <2>9, <3>1, OthersStay DEF RenameFails
  <2>10. CASE Derive(i)
    <3>1. MovesElsewhere(i, "write")
      BY <2>10 DEF Derive, Goto, MovesElsewhere, States, Holding, Updating
    <3> QED BY <2>10, <3>1, OthersStay DEF Derive
  <2>11. CASE UpdateLogFields(i)
    <3>1. MovesElsewhere(i, "write")
      BY <2>11 DEF UpdateLogFields, Goto, MovesElsewhere, States, Holding, Updating
    <3> QED BY <2>11, <3>1, OthersStay DEF UpdateLogFields
  <2>12. CASE OpenPrevious(i)
    <3>1. CASE Goto(i, "open", "write") /\ previousInfo' = Torn
      <4>1. Someone("write") = FALSE
        BY <3>1, NoWriter DEF Goto, Holding, Updating
      <4>2. Someone("write")' = TRUE
        BY <3>1 DEF Goto, Someone, TypeOK, ProcessTypes
      <4> QED BY <2>12, <3>1, <4>1, <4>2
              DEF OpenPrevious, ByRename!Next, ByRename!BeginWrite
    <3>2. CASE Goto(i, "open", "release") /\ UNCHANGED previousInfo
      BY <2>12, <3>2, OthersStay
         DEF OpenPrevious, Goto, MovesElsewhere, States, Holding
    <3> QED BY <2>12, <3>1, <3>2 DEF OpenPrevious
  <2>13. CASE WritePrevious(i)
    <3>1. Someone("write") = TRUE /\ Someone("write")' = FALSE
      BY <2>13, WriterLeaves DEF WritePrevious, Goto, Holding, Updating
    <3>2. info[i] \in Derived \cup {Blank}
      BY <2>13 DEF WritePrevious, Goto, TypeOK, ProcessTypes, InfoInv
    <3> QED BY <2>13, <3>1, <3>2 DEF WritePrevious, ByRename!Next, ByRename!EndWrite
  <2>14. CASE NoParodus(i)
    <3>1. MovesElsewhere(i, "write")
      BY <2>14 DEF NoParodus, Goto, Fault, AfterParodus, MovesElsewhere, States, Holding, Updating
    <3> QED BY <2>14, <3>1, OthersStay DEF NoParodus
  <2>15. CASE OpenParodus(i)
    <3>1. MovesElsewhere(i, "write")
      BY <2>15 DEF OpenParodus, Goto, MovesElsewhere, States, Holding, Updating
    <3> QED BY <2>15, <3>1, OthersStay DEF OpenParodus
  <2>16. CASE CopyParodus(i)
    <3>1. MovesElsewhere(i, "write")
      BY <2>16 DEF CopyParodus, Goto, AfterParodus, MovesElsewhere, States, Holding, Updating
    <3> QED BY <2>16, <3>1, OthersStay DEF CopyParodus
  <2>17. CASE UnlinkParodus(i)
    <3>1. MovesElsewhere(i, "write")
      BY <2>17 DEF UnlinkParodus, Goto, AfterParodus, MovesElsewhere, States, Holding, Updating
    <3> QED BY <2>17, <3>1, OthersStay DEF UnlinkParodus
  <2>18. CASE StampHardPower(i)
    <3>1. MovesElsewhere(i, "write")
      BY <2>18 DEF StampHardPower, Goto, Fault, MovesElsewhere, States, Holding, Updating
    <3> QED BY <2>18, <3>1, OthersStay DEF StampHardPower
  <2>19. CASE CopyKeypress(i)
    <3>1. MovesElsewhere(i, "write")
      BY <2>19 DEF CopyKeypress, Goto, MovesElsewhere, States, Holding, Updating
    <3> QED BY <2>19, <3>1, OthersStay DEF CopyKeypress
  <2>20. CASE ReleaseLock(i)
    <3>1. MovesElsewhere(i, "write")
      BY <2>20 DEF ReleaseLock, Goto, MovesElsewhere, States, Holding, Updating
    <3> QED BY <2>20, <3>1, OthersStay DEF ReleaseLock
  <2>21. CASE WriteSentinel(i)
    <3>1. MovesElsewhere(i, "write")
      BY <2>21 DEF WriteSentinel, Goto, Fault, MovesElsewhere, States, Holding, Updating
    <3> QED BY <2>21, <3>1, OthersStay DEF WriteSentinel
  <2>22. CASE Kill(i)
    <3>1. CASE pc[i] = "write"
      <4>1. Someone("write") = TRUE /\ Someone("write")' = FALSE
        BY <2>22, <3>1, WriterLeaves DEF Kill, Holding, Updating
      <4> QED BY <2>22, <4>1 DEF Kill, ByRename!Next, ByRename!Abandon
    <3>2. CASE pc[i] # "write"
      BY <2>22, <3>2, OthersStay DEF Kill, MovesElsewhere, States
    <3> QED BY <3>1, <3>2
  <2> QED BY <1>1, <2>1, <2>2, <2>3, <2>4, <2>5, <2>6, <2>7, <2>8, <2>9,
     <2>10, <2>11, <2>12, <2>13, <2>14, <2>15, <2>16, <2>17, <2>18, <2>19,
     <2>20, <2>21, <2>22 DEF Work, Update, Parodus
<1>2. CASE SttReceived
  BY <1>2 DEF SttReceived, Someone
<1>3. ASSUME NEW c \in Causes, Reboot(c) PROVE [ByRename!Next]_(ByRename!vars)
  <2>1. Someone("write")' = FALSE
    BY <1>3, NobodyAfterBoot DEF Reboot
  <2> QED BY <1>3, <2>1 DEF Reboot, ByRename!Next, ByRename!Request
<1>4. CASE PowerCut
  <2>1. Someone("write")' = FALSE
    BY <1>4, NobodyAfterBoot DEF PowerCut
  <2>2. CASE Someone("write")
    BY <1>4, <2>1, <2>2 DEF PowerCut, ByRename!Next, ByRename!Abandon
  <2>3. CASE ~Someone("write")
    BY <1>4, <2>1, <2>3 DEF PowerCut, Someone
  <2> QED BY <2>2, <2>3
<1>5. CASE UNCHANGED vars
  BY <1>5 DEF vars, Someone
<1> QED BY <1>1, <1>2, <1>3, <1>4, <1>5 DEF Next

\* The steps of the two parodus records.
LEMMA ParodusStep == TypeOK /\ CopyInv /\ [Next]_vars => [ByCopy!Next]_(ByCopy!vars)
<1> SUFFICES ASSUME TypeOK, CopyInv, [Next]_vars PROVE [ByCopy!Next]_(ByCopy!vars)
  OBVIOUS
<1> USE DEF ByCopy!vars, records, flags, local, history
<1>1. ASSUME NEW i \in Instances,
             Invoke(i) \/ AcquireLock(i) \/ LockFails(i) \/ Work(i) \/ Kill(i)
      PROVE [ByCopy!Next]_(ByCopy!vars)
  <2>1. CASE Invoke(i)
    <3>1. MovesElsewhere(i, "copy")
      BY <2>1 DEF Invoke, Goto, MovesElsewhere, States, Holding, Updating
    <3> QED BY <2>1, <3>1, OthersStay DEF Invoke
  <2>2. CASE AcquireLock(i)
    <3>1. MovesElsewhere(i, "copy")
      BY <2>2 DEF AcquireLock, Goto, MovesElsewhere, States, Holding, Updating
    <3> QED BY <2>2, <3>1, OthersStay DEF AcquireLock
  <2>3. CASE LockFails(i)
    <3>1. MovesElsewhere(i, "copy")
      BY <2>3 DEF LockFails, Goto, Fault, MovesElsewhere, States, Holding, Updating
    <3> QED BY <2>3, <3>1, OthersStay DEF LockFails
  <2>4. CASE SkipUpdate(i)
    <3>1. MovesElsewhere(i, "copy")
      BY <2>4 DEF SkipUpdate, Goto, MovesElsewhere, States, Holding, Updating
    <3> QED BY <2>4, <3>1, OthersStay DEF SkipUpdate
  <2>5. CASE PropertiesFail(i)
    <3>1. MovesElsewhere(i, "copy")
      BY <2>5 DEF PropertiesFail, Goto, Fault, MovesElsewhere, States, Holding, Updating
    <3> QED BY <2>5, <3>1, OthersStay DEF PropertiesFail
  <2>6. CASE BeginUpdate(i)
    <3>1. MovesElsewhere(i, "copy")
      BY <2>6 DEF BeginUpdate, Goto, MovesElsewhere, States, Holding, Updating
    <3> QED BY <2>6, <3>1, OthersStay DEF BeginUpdate
  <2>7. CASE RenameRecord(i)
    <3>1. MovesElsewhere(i, "copy")
      BY <2>7 DEF RenameRecord, Goto, MovesElsewhere, States, Holding, Updating
    <3> QED BY <2>7, <3>1, OthersStay DEF RenameRecord
  <2>8. CASE NoRecord(i)
    <3>1. MovesElsewhere(i, "copy")
      BY <2>8 DEF NoRecord, Goto, MovesElsewhere, States, Holding, Updating
    <3> QED BY <2>8, <3>1, OthersStay DEF NoRecord
  <2>9. CASE RenameFails(i)
    <3>1. MovesElsewhere(i, "copy")
      BY <2>9 DEF RenameFails, Goto, Fault, MovesElsewhere, States, Holding, Updating
    <3> QED BY <2>9, <3>1, OthersStay DEF RenameFails
  <2>10. CASE Derive(i)
    <3>1. MovesElsewhere(i, "copy")
      BY <2>10 DEF Derive, Goto, MovesElsewhere, States, Holding, Updating
    <3> QED BY <2>10, <3>1, OthersStay DEF Derive
  <2>11. CASE UpdateLogFields(i)
    <3>1. MovesElsewhere(i, "copy")
      BY <2>11 DEF UpdateLogFields, Goto, MovesElsewhere, States, Holding, Updating
    <3> QED BY <2>11, <3>1, OthersStay DEF UpdateLogFields
  <2>12. CASE OpenPrevious(i)
    <3>1. MovesElsewhere(i, "copy")
      BY <2>12 DEF OpenPrevious, Goto, Fault, MovesElsewhere, States, Holding, Updating
    <3> QED BY <2>12, <3>1, OthersStay DEF OpenPrevious
  <2>13. CASE WritePrevious(i)
    <3>1. MovesElsewhere(i, "copy")
      BY <2>13 DEF WritePrevious, Goto, MovesElsewhere, States, Holding, Updating
    <3> QED BY <2>13, <3>1, OthersStay DEF WritePrevious
  <2>14. CASE NoParodus(i)
    <3>1. MovesElsewhere(i, "copy")
      BY <2>14 DEF NoParodus, Goto, Fault, AfterParodus, MovesElsewhere, States, Holding, Updating
    <3> QED BY <2>14, <3>1, OthersStay DEF NoParodus
  <2>15. CASE OpenParodus(i)
    <3>1. Someone("copy") = FALSE
      BY <2>15, NoWriter DEF OpenParodus, Goto, Holding, Updating
    <3>2. Someone("copy")' = TRUE
      BY <2>15 DEF OpenParodus, Goto, Someone, TypeOK, ProcessTypes
    <3> QED BY <2>15, <3>1, <3>2 DEF OpenParodus, ByCopy!Next, ByCopy!BeginWrite
  <2>16. CASE CopyParodus(i)
    <3>1. Someone("copy") = TRUE /\ Someone("copy")' = FALSE
      BY <2>16, WriterLeaves DEF CopyParodus, Goto, AfterParodus, Holding, Updating
    <3>2. previousParodus' \in Derived \cup ({parodusInfo} \ {None})
      BY <2>16 DEF CopyParodus, Goto, CopyInv
    <3> QED BY <2>16, <3>1, <3>2 DEF CopyParodus, ByCopy!Next, ByCopy!EndWrite
  <2>17. CASE UnlinkParodus(i)
    <3>1. Someone("copy") = FALSE /\ Someone("copy")' = Someone("copy")
      BY <2>17, NoWriter, OthersStay
         DEF UnlinkParodus, Goto, AfterParodus, MovesElsewhere, States, Holding, Updating
    <3>2. parodusInfo # None /\ previousParodus = parodusInfo
      BY <2>17 DEF UnlinkParodus, Goto, CopyInv
    <3> QED BY <2>17, <3>1, <3>2 DEF UnlinkParodus, ByCopy!Next, ByCopy!Take
  <2>18. CASE StampHardPower(i)
    <3>1. MovesElsewhere(i, "copy")
      BY <2>18 DEF StampHardPower, Goto, Fault, MovesElsewhere, States, Holding, Updating
    <3> QED BY <2>18, <3>1, OthersStay DEF StampHardPower
  <2>19. CASE CopyKeypress(i)
    <3>1. MovesElsewhere(i, "copy")
      BY <2>19 DEF CopyKeypress, Goto, MovesElsewhere, States, Holding, Updating
    <3> QED BY <2>19, <3>1, OthersStay DEF CopyKeypress
  <2>20. CASE ReleaseLock(i)
    <3>1. MovesElsewhere(i, "copy")
      BY <2>20 DEF ReleaseLock, Goto, MovesElsewhere, States, Holding, Updating
    <3> QED BY <2>20, <3>1, OthersStay DEF ReleaseLock
  <2>21. CASE WriteSentinel(i)
    <3>1. MovesElsewhere(i, "copy")
      BY <2>21 DEF WriteSentinel, Goto, Fault, MovesElsewhere, States, Holding, Updating
    <3> QED BY <2>21, <3>1, OthersStay DEF WriteSentinel
  <2>22. CASE Kill(i)
    <3>1. CASE pc[i] = "copy"
      <4>1. Someone("copy") = TRUE /\ Someone("copy")' = FALSE
        BY <2>22, <3>1, WriterLeaves DEF Kill, Holding, Updating
      <4> QED BY <2>22, <4>1 DEF Kill, ByCopy!Next, ByCopy!Abandon
    <3>2. CASE pc[i] # "copy"
      BY <2>22, <3>2, OthersStay DEF Kill, MovesElsewhere, States
    <3> QED BY <3>1, <3>2
  <2> QED BY <1>1, <2>1, <2>2, <2>3, <2>4, <2>5, <2>6, <2>7, <2>8, <2>9,
     <2>10, <2>11, <2>12, <2>13, <2>14, <2>15, <2>16, <2>17, <2>18, <2>19,
     <2>20, <2>21, <2>22 DEF Work, Update, Parodus
<1>2. CASE SttReceived
  BY <1>2 DEF SttReceived, Someone
<1>3. ASSUME NEW c \in Causes, Reboot(c) PROVE [ByCopy!Next]_(ByCopy!vars)
  <2>1. Someone("copy")' = FALSE
    BY <1>3, NobodyAfterBoot DEF Reboot
  <2> QED BY <1>3, <2>1 DEF Reboot, ByCopy!Next, ByCopy!Request
<1>4. CASE PowerCut
  <2>1. Someone("copy")' = FALSE
    BY <1>4, NobodyAfterBoot DEF PowerCut
  <2>2. CASE Someone("copy")
    BY <1>4, <2>1, <2>2 DEF PowerCut, ByCopy!Next, ByCopy!Abandon
  <2>3. CASE ~Someone("copy")
    BY <1>4, <2>1, <2>3 DEF PowerCut, Someone
  <2> QED BY <2>2, <2>3
<1>5. CASE UNCHANGED vars
  BY <1>5 DEF vars, Someone
<1> QED BY <1>1, <1>2, <1>3, <1>4, <1>5 DEF Next

\* Rename, derivation and persisting of any number of overlapping, failing and
\* killed invocations implement one handover of reboot.info.
THEOREM RecordHandedOver == Spec => RecordHandover
<1>1. Init => ByRename!Init
  BY DEF Init, ByRename!Init, Someone
<1>2. FetchInv /\ [Next]_vars => [ByRename!Next]_(ByRename!vars)
  BY RecordStep DEF FetchInv
<1> QED BY <1>1, <1>2, Invariance, PTL DEF Spec, RecordHandover, ByRename!Spec

\* The copy and the unlink of the parodus record implement the same handover.
THEOREM ParodusHandedOver == Spec => ParodusHandover
<1>1. Init => ByCopy!Init
  BY DEF Init, ByCopy!Init, Someone
<1>2. FetchInv /\ [Next]_vars => [ByCopy!Next]_(ByCopy!vars)
  BY ParodusStep DEF FetchInv
<1> QED BY <1>1, <1>2, Invariance, PTL DEF Spec, ParodusHandover, ByCopy!Spec
=============================================================================
