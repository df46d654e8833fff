--------------------------- MODULE PidGuardProofs ---------------------------
(***************************************************************************)
(* Proofs about PidGuard, for every set of pids and inodes: the guard of   *)
(* rebootnow fails only through the windows named in Breaches, and a PID   *)
(* file outlives its instance only if an instance was killed.              *)
(***************************************************************************)
EXTENDS PidGuard, TLAPS

(***************************************************************************)
(* The inductive invariant.                                                *)
(***************************************************************************)

\* F_SETLK: one instance at a time works on an existing file.
LockInv ==
    \A p, q \in Pids :
        pc[p] \in Locking /\ pc[q] \in Locking /\ file[p] = file[q] => p = q

\* What a claiming instance, or one about to be, claims is what the path names.
ClaimInv == \A p \in Pids : pc[p] \in Claiming \cup {"write"} => path = file[p]

OneClaim ==
    \A p, q \in Pids : pc[p] \in Claiming /\ pc[q] \in Claiming => p = q

\* A claimed file holds the pid of the instance, or nothing.
DataInv ==
    \A p \in Pids :
        /\ pc[p] = "created" => data[file[p]] = Empty
        /\ pc[p] = "active" => data[file[p]] \in {p, Empty}

\* A file that is being taken over is nobody's: the pid read from it is still
\* in it, its creator is past its write, and, from truncate on, no claiming
\* instance uses it.
TakeInv ==
    \A p, q \in Pids :
        /\ pc[p] = "check" => data[file[p]] = found[p]
        /\ pc[p] = "check" /\ pc[q] = "created" => file[q] # file[p]
        /\ pc[p] \in {"truncate", "write"} /\ pc[q] \in Claiming => file[q] # file[p]

Sound == ClaimInv /\ OneClaim /\ DataInv /\ TakeInv

GuardInv == LockInv /\ (breach = None => Sound)

\* An instance that is alone finds no file where it has found none before, and
\* is refused for its own pid only.
LoneInv ==
    \A p \in Pids : alone = p =>
        /\ \A q \in Pids \ {p} : pc[q] = "down"
        /\ pc[p] = "recreate" => path = None
        /\ pc[p] = "refused" => found[p] = p

\* Unless one was killed: the pid that the path's file holds is that of a running
\* instance.  A pid that an instance comes across in the guard is not its own,
\* and its process has not yet used the guard again.
NamedInv ==
    ~killed /\ path # None =>
        \A q \in Pids : data[path] = q => pc[q] = "active" /\ file[q] = path

Admitted == {"active", "exiting", "down"}

FoundInv ==
    ~killed => \A p \in Pids :
        /\ pc[p] \in {"lock", "read"} /\ data[file[p]] # Empty =>
             data[file[p]] # p /\ pc[data[file[p]]] \in Admitted
        /\ pc[p] = "check" => found[p] # p /\ pc[found[p]] \in Admitted

-----------------------------------------------------------------------------
\* The system calls of the guard, of the exit and of the signal handler keep
\* the variables in their types.
LEMMA TypeStep == TypeOK /\ [Next]_vars => TypeOK'
<1> SUFFICES ASSUME TypeOK, [Next]_vars PROVE TypeOK'
  OBVIOUS
<1> USE NamesAssumption
    DEF TypeOK, None, Empty, States, Guarding, Locking, Breaches, code, history
<1>1. ASSUME NEW p \in Pids,
             Start(p) \/ Guard(p) \/ Exit(p) \/ Leave(p) \/ Signal(p) \/ Kill(p)
      PROVE TypeOK'
  <2>1. CASE Start(p)
    BY <2>1 DEF Start, Goto
  <2>2. CASE Create(p)
    BY <2>2 DEF Create, Goto
  <2>3. CASE CreateExists(p)
    BY <2>3 DEF CreateExists, Goto
  <2>4. CASE WritePid(p)
    BY <2>4 DEF WritePid, Goto
  <2>5. CASE Open(p)
    BY <2>5 DEF Open, Goto
  <2>6. CASE Lock(p)
    BY <2>6 DEF Lock, LockedByOther, Goto
  <2>7. CASE ReadEmpty(p)
    BY <2>7 DEF ReadEmpty, BreachIf, Goto
  <2>8. CASE ReadPid(p)
    BY <2>8 DEF ReadPid, Goto
  <2>9. CASE CheckProcess(p)
    BY <2>9 DEF CheckProcess, Alive, Goto
  <2>10. CASE Truncate(p)
    BY <2>10 DEF Truncate, BreachIf, Goto
  <2>11. CASE WriteTakeover(p)
    BY <2>11 DEF WriteTakeover, Goto
  <2>12. CASE GuardFails(p)
    BY <2>12 DEF GuardFails, Goto
  <2>13. CASE Exit(p)
    BY <2>13 DEF Exit, Goto
  <2>14. CASE Leave(p)
    BY <2>14 DEF Leave, Gone
  <2>15. CASE Signal(p)
    BY <2>15 DEF Signal, BreachIf
  <2>16. CASE Kill(p)
    BY <2>16 DEF Kill, Gone, Alive
  <2> QED BY <1>1, <2>1, <2>2, <2>3, <2>4, <2>5, <2>6, <2>7, <2>8, <2>9,
     <2>10, <2>11, <2>12, <2>13, <2>14, <2>15, <2>16 DEF Guard
<1>2. CASE UNCHANGED vars
  BY <1>2 DEF vars
<1> QED BY <1>1, <1>2 DEF Next

\* The type invariant, for every set of pids: an instance never works on a file
\* that it has not opened.
THEOREM TypeCorrect == Spec => []TypeOK
<1>1. Init => TypeOK
  BY NamesAssumption DEF Init, TypeOK, None, Empty, States, Guarding, Locking, Breaches
<1> QED BY <1>1, TypeStep, PTL DEF Spec

-----------------------------------------------------------------------------
\* The lock alone, whether or not the guard was breached.
LEMMA LockStep == TypeOK /\ LockInv /\ [Next]_vars => LockInv'
<1> SUFFICES ASSUME TypeOK, LockInv, [Next]_vars PROVE LockInv'
  OBVIOUS
<1> USE DEF TypeOK, LockInv, Locking, code, history
<1>1. ASSUME NEW p \in Pids,
             Start(p) \/ Guard(p) \/ Exit(p) \/ Leave(p) \/ Signal(p) \/ Kill(p)
      PROVE LockInv'
  <2>1. CASE Start(p)
    BY <2>1 DEF Start, Goto
  <2>2. CASE Create(p)
    BY <2>2 DEF Create, Goto
  <2>3. CASE CreateExists(p)
    BY <2>3 DEF CreateExists, Goto
  <2>4. CASE WritePid(p)
    BY <2>4 DEF WritePid, Goto
  <2>5. CASE Open(p)
    BY <2>5 DEF Open, Goto
  <2>6. CASE Lock(p)
    BY <2>6 DEF Lock, LockedByOther, Goto
  <2>7. CASE ReadEmpty(p)
    BY <2>7 DEF ReadEmpty, BreachIf, Goto
  <2>8. CASE ReadPid(p)
    BY <2>8 DEF ReadPid, Goto
  <2>9. CASE CheckProcess(p)
    BY <2>9 DEF CheckProcess, Alive, Goto
  <2>10. CASE Truncate(p)
    BY <2>10 DEF Truncate, BreachIf, Goto
  <2>11. CASE WriteTakeover(p)
    BY <2>11 DEF WriteTakeover, Goto
  <2>12. CASE GuardFails(p)
    BY <2>12 DEF GuardFails, Goto
  <2>13. CASE Exit(p)
    BY <2>13 DEF Exit, Goto
  <2>14. CASE Leave(p)
    BY <2>14 DEF Leave, Gone
  <2>15. CASE Signal(p)
    BY <2>15 DEF Signal, BreachIf
  <2>16. CASE Kill(p)
    BY <2>16 DEF Kill, Gone, Alive
  <2> QED BY <1>1, <2>1, <2>2, <2>3, <2>4, <2>5, <2>6, <2>7, <2>8, <2>9,
     <2>10, <2>11, <2>12, <2>13, <2>14, <2>15, <2>16 DEF Guard
<1>2. CASE UNCHANGED vars
  BY <1>2 DEF vars
<1> QED BY <1>1, <1>2 DEF Next

\* No window is hit before the step if none is hit after it.
LEMMA BreachStays == [Next]_vars /\ breach' = None => breach = None
  BY DEF Next, vars, code, history, Guard, Start, Create, CreateExists, WritePid, Open,
         Lock, ReadEmpty, ReadPid, CheckProcess, Truncate, WriteTakeover, GuardFails,
         Exit, Leave, Signal, Kill, BreachIf, None

\* As long as no window is hit, the claims stay sound.
LEMMA SoundStep ==
    TypeOK /\ LockInv /\ Sound /\ breach' = None /\ [Next]_vars => Sound'
<1> SUFFICES ASSUME TypeOK, LockInv, Sound, breach' = None, [Next]_vars PROVE Sound'
  OBVIOUS
<1> USE NamesAssumption
    DEF TypeOK, Sound, None, Empty, Locking, Claiming, code, history
<1>1. ASSUME NEW p \in Pids,
             Start(p) \/ Guard(p) \/ Exit(p) \/ Leave(p) \/ Signal(p) \/ Kill(p)
      PROVE Sound'
  <2>1. CASE Start(p)
    <3>1. ClaimInv'
      BY <2>1 DEF Start, Goto, ClaimInv, OneClaim, TakeInv
    <3>2. OneClaim'
      BY <2>1 DEF Start, Goto, ClaimInv, OneClaim, TakeInv
    <3>3. DataInv'
      BY <2>1 DEF Start, Goto, LockInv, ClaimInv, OneClaim, DataInv, TakeInv
    <3>4. TakeInv'
      BY <2>1 DEF Start, Goto, LockInv, ClaimInv, OneClaim, DataInv, TakeInv
    <3> QED BY <3>1, <3>2, <3>3, <3>4
  <2>2. CASE Create(p)
    <3>1. ClaimInv'
      BY <2>2 DEF Create, Goto, ClaimInv, OneClaim, TakeInv
    <3>2. OneClaim'
      BY <2>2 DEF Create, Goto, ClaimInv, OneClaim, TakeInv
    <3>3. DataInv'
      BY <2>2 DEF Create, Goto, LockInv, ClaimInv, OneClaim, DataInv,
         TakeInv
    <3>4. TakeInv'
      BY <2>2 DEF Create, Goto, LockInv, ClaimInv, OneClaim, DataInv,
         TakeInv
    <3> QED BY <3>1, <3>2, <3>3, <3>4
  <2>3. CASE CreateExists(p)
    <3>1. ClaimInv'
      BY <2>3 DEF CreateExists, Goto, ClaimInv, OneClaim, TakeInv
    <3>2. OneClaim'
      BY <2>3 DEF CreateExists, Goto, ClaimInv, OneClaim, TakeInv
    <3>3. DataInv'
      BY <2>3 DEF CreateExists, Goto, LockInv, ClaimInv, OneClaim, DataInv,
         TakeInv
    <3>4. TakeInv'
      BY <2>3 DEF CreateExists, Goto, LockInv, ClaimInv, OneClaim, DataInv,
         TakeInv
    <3> QED BY <3>1, <3>2, <3>3, <3>4
  <2>4. CASE WritePid(p)
    <3>1. ClaimInv'
      BY <2>4 DEF WritePid, Goto, ClaimInv, OneClaim, TakeInv
    <3>2. OneClaim'
      BY <2>4 DEF WritePid, Goto, ClaimInv, OneClaim, TakeInv
    <3>3. DataInv'
      BY <2>4 DEF WritePid, Goto, LockInv, ClaimInv, OneClaim, DataInv,
         TakeInv
    <3>4. TakeInv'
      BY <2>4 DEF WritePid, Goto, LockInv, ClaimInv, OneClaim, DataInv,
         TakeInv
    <3> QED BY <3>1, <3>2, <3>3, <3>4
  <2>5. CASE Open(p)
    <3>1. ClaimInv'
      BY <2>5 DEF Open, Goto, ClaimInv, OneClaim, TakeInv
    <3>2. OneClaim'
      BY <2>5 DEF Open, Goto, ClaimInv, OneClaim, TakeInv
    <3>3. DataInv'
      BY <2>5 DEF Open, Goto, LockInv, ClaimInv, OneClaim, DataInv, TakeInv
    <3>4. TakeInv'
      BY <2>5 DEF Open, Goto, LockInv, ClaimInv, OneClaim, DataInv, TakeInv
    <3> QED BY <3>1, <3>2, <3>3, <3>4
  <2>6. CASE Lock(p)
    <3>1. ClaimInv'
      BY <2>6 DEF Lock, LockedByOther, Goto, ClaimInv, OneClaim, TakeInv
    <3>2. OneClaim'
      BY <2>6 DEF Lock, LockedByOther, Goto, ClaimInv, OneClaim, TakeInv
    <3>3. DataInv'
      BY <2>6 DEF Lock, LockedByOther, Goto, LockInv, ClaimInv, OneClaim,
         DataInv, TakeInv
    <3>4. TakeInv'
      BY <2>6 DEF Lock, LockedByOther, Goto, LockInv, ClaimInv, OneClaim,
         DataInv, TakeInv
    <3> QED BY <3>1, <3>2, <3>3, <3>4
  <2>7. CASE ReadEmpty(p)
    <3>1. ClaimInv'
      BY <2>7 DEF ReadEmpty, BreachIf, Goto, ClaimInv, OneClaim, TakeInv
    <3>2. OneClaim'
      BY <2>7 DEF ReadEmpty, BreachIf, Goto, ClaimInv, OneClaim, TakeInv
    <3>3. DataInv'
      BY <2>7 DEF ReadEmpty, BreachIf, Goto, LockInv, ClaimInv, OneClaim,
         DataInv, TakeInv
    <3>4. TakeInv'
      BY <2>7 DEF ReadEmpty, BreachIf, Goto, LockInv, ClaimInv, OneClaim,
         DataInv, TakeInv
    <3> QED BY <3>1, <3>2, <3>3, <3>4
  <2>8. CASE ReadPid(p)
    <3>1. ClaimInv'
      BY <2>8 DEF ReadPid, Goto, ClaimInv, OneClaim, TakeInv
    <3>2. OneClaim'
      BY <2>8 DEF ReadPid, Goto, ClaimInv, OneClaim, TakeInv
    <3>3. DataInv'
      BY <2>8 DEF ReadPid, Goto, LockInv, ClaimInv, OneClaim, DataInv,
         TakeInv
    <3>4. TakeInv'
      BY <2>8 DEF ReadPid, Goto, LockInv, ClaimInv, OneClaim, DataInv,
         TakeInv
    <3> QED BY <3>1, <3>2, <3>3, <3>4
  <2>9. CASE CheckProcess(p)
    <3>1. ClaimInv'
      BY <2>9 DEF CheckProcess, Alive, Goto, ClaimInv, OneClaim, TakeInv
    <3>2. OneClaim'
      BY <2>9 DEF CheckProcess, Alive, Goto, ClaimInv, OneClaim, TakeInv
    <3>3. DataInv'
      BY <2>9 DEF CheckProcess, Alive, Goto, LockInv, ClaimInv, OneClaim,
         DataInv, TakeInv
    <3>4. TakeInv'
      BY <2>9 DEF CheckProcess, Alive, Goto, LockInv, ClaimInv, OneClaim,
         DataInv, TakeInv
    <3> QED BY <3>1, <3>2, <3>3, <3>4
  <2>10. CASE Truncate(p)
    <3>1. ClaimInv'
      BY <2>10 DEF Truncate, BreachIf, Goto, ClaimInv, OneClaim, TakeInv
    <3>2. OneClaim'
      BY <2>10 DEF Truncate, BreachIf, Goto, ClaimInv, OneClaim, TakeInv
    <3>3. DataInv'
      BY <2>10 DEF Truncate, BreachIf, Goto, LockInv, ClaimInv, OneClaim,
         DataInv, TakeInv
    <3>4. TakeInv'
      BY <2>10 DEF Truncate, BreachIf, Goto, LockInv, ClaimInv, OneClaim,
         DataInv, TakeInv
    <3> QED BY <3>1, <3>2, <3>3, <3>4
  <2>11. CASE WriteTakeover(p)
    <3>1. ClaimInv'
      BY <2>11 DEF WriteTakeover, Goto, ClaimInv, OneClaim, TakeInv
    <3>2. OneClaim'
      BY <2>11 DEF WriteTakeover, Goto, ClaimInv, OneClaim, TakeInv
    <3>3. DataInv'
      BY <2>11 DEF WriteTakeover, Goto, LockInv, ClaimInv, OneClaim,
         DataInv, TakeInv
    <3>4. TakeInv'
      BY <2>11 DEF WriteTakeover, Goto, LockInv, ClaimInv, OneClaim,
         DataInv, TakeInv
    <3> QED BY <3>1, <3>2, <3>3, <3>4
  <2>12. CASE GuardFails(p)
    <3>1. ClaimInv'
      BY <2>12 DEF GuardFails, Goto, ClaimInv, OneClaim, TakeInv
    <3>2. OneClaim'
      BY <2>12 DEF GuardFails, Goto, ClaimInv, OneClaim, TakeInv
    <3>3. DataInv'
      BY <2>12 DEF GuardFails, Goto, LockInv, ClaimInv, OneClaim, DataInv,
         TakeInv
    <3>4. TakeInv'
      BY <2>12 DEF GuardFails, Goto, LockInv, ClaimInv, OneClaim, DataInv,
         TakeInv
    <3> QED BY <3>1, <3>2, <3>3, <3>4
  <2>13. CASE Exit(p)
    <3>1. ClaimInv'
      BY <2>13 DEF Exit, Goto, ClaimInv, OneClaim, TakeInv
    <3>2. OneClaim'
      BY <2>13 DEF Exit, Goto, ClaimInv, OneClaim, TakeInv
    <3>3. DataInv'
      BY <2>13 DEF Exit, Goto, LockInv, ClaimInv, OneClaim, DataInv, TakeInv
    <3>4. TakeInv'
      BY <2>13 DEF Exit, Goto, LockInv, ClaimInv, OneClaim, DataInv, TakeInv
    <3> QED BY <3>1, <3>2, <3>3, <3>4
  <2>14. CASE Leave(p)
    <3>1. ClaimInv'
      BY <2>14 DEF Leave, Gone, ClaimInv, OneClaim, TakeInv
    <3>2. OneClaim'
      BY <2>14 DEF Leave, Gone, ClaimInv, OneClaim, TakeInv
    <3>3. DataInv'
      BY <2>14 DEF Leave, Gone, LockInv, ClaimInv, OneClaim, DataInv,
         TakeInv
    <3>4. TakeInv'
      BY <2>14 DEF Leave, Gone, LockInv, ClaimInv, OneClaim, DataInv,
         TakeInv
    <3> QED BY <3>1, <3>2, <3>3, <3>4
  <2>15. CASE Signal(p)
    <3>1. ClaimInv'
      BY <2>15 DEF Signal, BreachIf, ClaimInv, OneClaim, TakeInv
    <3>2. OneClaim'
      BY <2>15 DEF Signal, BreachIf, ClaimInv, OneClaim, TakeInv
    <3>3. DataInv'
      BY <2>15 DEF Signal, BreachIf, LockInv, ClaimInv, OneClaim, DataInv,
         TakeInv
    <3>4. TakeInv'
      BY <2>15 DEF Signal, BreachIf, LockInv, ClaimInv, OneClaim, DataInv,
         TakeInv
    <3> QED BY <3>1, <3>2, <3>3, <3>4
  <2>16. CASE Kill(p)
    <3>1. ClaimInv'
      BY <2>16 DEF Kill, Gone, Alive, ClaimInv, OneClaim, TakeInv
    <3>2. OneClaim'
      BY <2>16 DEF Kill, Gone, Alive, ClaimInv, OneClaim, TakeInv
    <3>3. DataInv'
      BY <2>16 DEF Kill, Gone, Alive, LockInv, ClaimInv, OneClaim, DataInv,
         TakeInv
    <3>4. TakeInv'
      BY <2>16 DEF Kill, Gone, Alive, LockInv, ClaimInv, OneClaim, DataInv,
         TakeInv
    <3> QED BY <3>1, <3>2, <3>3, <3>4
  <2> QED BY <1>1, <2>1, <2>2, <2>3, <2>4, <2>5, <2>6, <2>7, <2>8, <2>9,
     <2>10, <2>11, <2>12, <2>13, <2>14, <2>15, <2>16 DEF Guard
<1>2. CASE UNCHANGED vars
  BY <1>2 DEF vars, ClaimInv, OneClaim, DataInv, TakeInv
<1> QED BY <1>1, <1>2 DEF Next

\* The guard fails only through the windows named in Breaches, for every number
\* of instances: takeovers, second attempts, deaths and reused pids are safe.
THEOREM ExclusionHolds == Spec => []ExclusionUnlessBreached
<1>1. Init => GuardInv
  BY DEF Init, GuardInv, LockInv, Sound, ClaimInv, OneClaim, DataInv, TakeInv,
         Locking, Claiming
<1>2. TypeOK /\ GuardInv /\ [Next]_vars => GuardInv'
  BY LockStep, SoundStep, BreachStays DEF GuardInv
<1>3. GuardInv => ExclusionUnlessBreached
  BY DEF GuardInv, Sound, OneClaim, Claiming, ExclusionUnlessBreached, MutualExclusion
<1> QED BY <1>1, <1>2, <1>3, TypeCorrect, PTL DEF Spec

-----------------------------------------------------------------------------
\* The PID file goes with its instance, unless one is killed.
LEMMA ReleaseStep == TypeOK /\ PidFileReleased /\ [Next]_vars => PidFileReleased'
<1> SUFFICES ASSUME TypeOK, PidFileReleased, [Next]_vars PROVE PidFileReleased'
  OBVIOUS
<1> USE DEF TypeOK, PidFileReleased, Claiming, code, history
<1>1. ASSUME NEW p \in Pids,
             Start(p) \/ Guard(p) \/ Exit(p) \/ Leave(p) \/ Signal(p) \/ Kill(p)
      PROVE PidFileReleased'
  <2>1. CASE Start(p)
    BY <2>1 DEF Start, Goto
  <2>2. CASE Create(p)
    BY <2>2 DEF Create, Goto
  <2>3. CASE CreateExists(p)
    BY <2>3 DEF CreateExists, Goto
  <2>4. CASE WritePid(p)
    BY <2>4 DEF WritePid, Goto
  <2>5. CASE Open(p)
    BY <2>5 DEF Open, Goto
  <2>6. CASE Lock(p)
    BY <2>6 DEF Lock, LockedByOther, Goto
  <2>7. CASE ReadEmpty(p)
    BY <2>7 DEF ReadEmpty, BreachIf, Goto
  <2>8. CASE ReadPid(p)
    BY <2>8 DEF ReadPid, Goto
  <2>9. CASE CheckProcess(p)
    BY <2>9 DEF CheckProcess, Alive, Goto
  <2>10. CASE Truncate(p)
    BY <2>10 DEF Truncate, BreachIf, Goto
  <2>11. CASE WriteTakeover(p)
    BY <2>11 DEF WriteTakeover, Goto
  <2>12. CASE GuardFails(p)
    BY <2>12 DEF GuardFails, Goto
  <2>13. CASE Exit(p)
    BY <2>13 DEF Exit, Goto
  <2>14. CASE Leave(p)
    BY <2>14 DEF Leave, Gone
  <2>15. CASE Signal(p)
    BY <2>15 DEF Signal, BreachIf
  <2>16. CASE Kill(p)
    BY <2>16 DEF Kill, Gone, Alive
  <2> QED BY <1>1, <2>1, <2>2, <2>3, <2>4, <2>5, <2>6, <2>7, <2>8, <2>9,
     <2>10, <2>11, <2>12, <2>13, <2>14, <2>15, <2>16 DEF Guard
<1>2. CASE UNCHANGED vars
  BY <1>2 DEF vars
<1> QED BY <1>1, <1>2 DEF Next

\* A stale PID file is always the trace of a death, for every number of
\* instances: cleanup_pidfile and the refused instances leave none behind.
THEOREM ReleaseHolds == Spec => []PidFileReleased
<1>1. Init => PidFileReleased
  BY DEF Init, PidFileReleased
<1> QED BY <1>1, ReleaseStep, TypeCorrect, PTL DEF Spec

-----------------------------------------------------------------------------
\* Nobody else starts without ending the solitude of an instance.
LEMMA LoneStep == TypeOK /\ LoneInv /\ [Next]_vars => LoneInv'
<1> SUFFICES ASSUME TypeOK, LoneInv, [Next]_vars PROVE LoneInv'
  OBVIOUS
<1> USE NamesAssumption
    DEF TypeOK, LoneInv, None, Empty, Locking, code, history
<1>1. ASSUME NEW p \in Pids,
             Start(p) \/ Guard(p) \/ Exit(p) \/ Leave(p) \/ Signal(p) \/ Kill(p)
      PROVE LoneInv'
  <2>1. CASE Start(p)
    BY <2>1 DEF Start, Goto, LookedUp, Alive
  <2>2. CASE Create(p)
    BY <2>2 DEF Create, Goto
  <2>3. CASE CreateExists(p)
    BY <2>3 DEF CreateExists, Goto
  <2>4. CASE WritePid(p)
    BY <2>4 DEF WritePid, Goto
  <2>5. CASE Open(p)
    BY <2>5 DEF Open, Goto
  <2>6. CASE Lock(p)
    BY <2>6 DEF Lock, LockedByOther, Goto
  <2>7. CASE ReadEmpty(p)
    BY <2>7 DEF ReadEmpty, BreachIf, Goto
  <2>8. CASE ReadPid(p)
    BY <2>8 DEF ReadPid, Goto
  <2>9. CASE CheckProcess(p)
    BY <2>9 DEF CheckProcess, Alive, Goto
  <2>10. CASE Truncate(p)
    BY <2>10 DEF Truncate, BreachIf, Goto
  <2>11. CASE WriteTakeover(p)
    BY <2>11 DEF WriteTakeover, Goto
  <2>12. CASE GuardFails(p)
    BY <2>12 DEF GuardFails, Goto
  <2>13. CASE Exit(p)
    BY <2>13 DEF Exit, Goto
  <2>14. CASE Leave(p)
    BY <2>14 DEF Leave, Gone
  <2>15. CASE Signal(p)
    BY <2>15 DEF Signal, BreachIf
  <2>16. CASE Kill(p)
    BY <2>16 DEF Kill, Gone, Alive
  <2> QED BY <1>1, <2>1, <2>2, <2>3, <2>4, <2>5, <2>6, <2>7, <2>8, <2>9,
     <2>10, <2>11, <2>12, <2>13, <2>14, <2>15, <2>16 DEF Guard
<1>2. CASE UNCHANGED vars
  BY <1>2 DEF vars
<1> QED BY <1>1, <1>2 DEF Next

\* A stale file does not block: alone, an instance is refused only when the file
\* holds its own pid, for every set of pids.
THEOREM LoneHolds == Spec => []LoneInstanceAccepted
<1>1. Init => LoneInv
  BY NamesAssumption DEF Init, LoneInv, None
<1>2. LoneInv => LoneInstanceAccepted
  BY DEF LoneInv, LoneInstanceAccepted
<1> QED BY <1>1, <1>2, LoneStep, TypeCorrect, PTL DEF Spec

\* The exit handler unlinks the path before the pid is free.
LEMMA NamedStep == TypeOK /\ NamedInv /\ [Next]_vars => NamedInv'
<1> SUFFICES ASSUME TypeOK, NamedInv, [Next]_vars PROVE NamedInv'
  OBVIOUS
<1> USE NamesAssumption
    DEF TypeOK, NamedInv, None, Empty, Locking, code, history
<1>1. ASSUME NEW p \in Pids,
             Start(p) \/ Guard(p) \/ Exit(p) \/ Leave(p) \/ Signal(p) \/ Kill(p)
      PROVE NamedInv'
  <2>1. CASE Start(p)
    BY <2>1 DEF Start, Goto, LookedUp, Alive
  <2>2. CASE Create(p)
    BY <2>2 DEF Create, Goto
  <2>3. CASE CreateExists(p)
    BY <2>3 DEF CreateExists, Goto
  <2>4. CASE WritePid(p)
    BY <2>4 DEF WritePid, Goto
  <2>5. CASE Open(p)
    BY <2>5 DEF Open, Goto
  <2>6. CASE Lock(p)
    BY <2>6 DEF Lock, LockedByOther, Goto
  <2>7. CASE ReadEmpty(p)
    BY <2>7 DEF ReadEmpty, BreachIf, Goto
  <2>8. CASE ReadPid(p)
    BY <2>8 DEF ReadPid, Goto
  <2>9. CASE CheckProcess(p)
    BY <2>9 DEF CheckProcess, Alive, Goto
  <2>10. CASE Truncate(p)
    BY <2>10 DEF Truncate, BreachIf, Goto
  <2>11. CASE WriteTakeover(p)
    BY <2>11 DEF WriteTakeover, Goto
  <2>12. CASE GuardFails(p)
    BY <2>12 DEF GuardFails, Goto
  <2>13. CASE Exit(p)
    BY <2>13 DEF Exit, Goto
  <2>14. CASE Leave(p)
    BY <2>14 DEF Leave, Gone
  <2>15. CASE Signal(p)
    BY <2>15 DEF Signal, BreachIf
  <2>16. CASE Kill(p)
    BY <2>16 DEF Kill, Gone, Alive
  <2> QED BY <1>1, <2>1, <2>2, <2>3, <2>4, <2>5, <2>6, <2>7, <2>8, <2>9,
     <2>10, <2>11, <2>12, <2>13, <2>14, <2>15, <2>16 DEF Guard
<1>2. CASE UNCHANGED vars
  BY <1>2 DEF vars
<1> QED BY <1>1, <1>2 DEF Next

\* A pid does not come back while it is being looked up.
LEMMA FoundStep == TypeOK /\ NamedInv /\ FoundInv /\ [Next]_vars => FoundInv'
<1> SUFFICES ASSUME TypeOK, NamedInv, FoundInv, [Next]_vars PROVE FoundInv'
  OBVIOUS
<1> USE NamesAssumption
    DEF TypeOK, NamedInv, FoundInv, Admitted, None, Empty, Locking, Guarding, code,
        history
<1>1. ASSUME NEW p \in Pids,
             Start(p) \/ Guard(p) \/ Exit(p) \/ Leave(p) \/ Signal(p) \/ Kill(p)
      PROVE FoundInv'
  <2>1. CASE Start(p)
    BY <2>1 DEF Start, Goto, LookedUp, Alive
  <2>2. CASE Create(p)
    <3>1. PICK i \in Inodes : /\ \A q \in Pids : file[q] # i /\ path' = i
                             /\ data' = [data EXCEPT ![i] = Empty]
                             /\ file' = [file EXCEPT ![p] = i]
      BY <2>2 DEF Create
    <3>2. pc[p] \in {"create", "recreate"} /\ pc' = [pc EXCEPT ![p] = "created"]
      BY <2>2 DEF Create, Goto
    <3>3. \A q \in Pids \ {p} : /\ pc'[q] = pc[q] /\ file'[q] = file[q]
                               /\ file[q] # None => data'[file[q]] = data[file[q]]
      BY <3>1, <3>2
    <3>4. \A q \in Pids : pc[q] \in Admitted => pc'[q] \in Admitted
      BY <3>2
    <3>5. found' = found /\ killed' = killed
      BY <2>2 DEF Create
    <3> QED BY <3>1, <3>2, <3>3, <3>4, <3>5
  <2>3. CASE CreateExists(p)
    BY <2>3 DEF CreateExists, Goto
  <2>4. CASE WritePid(p)
    BY <2>4 DEF WritePid, Goto
  <2>5. CASE Open(p)
    BY <2>5 DEF Open, Goto
  <2>6. CASE Lock(p)
    BY <2>6 DEF Lock, LockedByOther, Goto
  <2>7. CASE ReadEmpty(p)
    BY <2>7 DEF ReadEmpty, BreachIf, Goto
  <2>8. CASE ReadPid(p)
    BY <2>8 DEF ReadPid, Goto
  <2>9. CASE CheckProcess(p)
    BY <2>9 DEF CheckProcess, Alive, Goto
  <2>10. CASE Truncate(p)
    BY <2>10 DEF Truncate, BreachIf, Goto
  <2>11. CASE WriteTakeover(p)
    BY <2>11 DEF WriteTakeover, Goto
  <2>12. CASE GuardFails(p)
    BY <2>12 DEF GuardFails, Goto
  <2>13. CASE Exit(p)
    BY <2>13 DEF Exit, Goto
  <2>14. CASE Leave(p)
    BY <2>14 DEF Leave, Gone
  <2>15. CASE Signal(p)
    BY <2>15 DEF Signal, BreachIf
  <2>16. CASE Kill(p)
    BY <2>16 DEF Kill, Gone, Alive
  <2> QED BY <1>1, <2>1, <2>2, <2>3, <2>4, <2>5, <2>6, <2>7, <2>8, <2>9,
     <2>10, <2>11, <2>12, <2>13, <2>14, <2>15, <2>16 DEF Guard
<1>2. CASE UNCHANGED vars
  BY <1>2 DEF vars
<1> QED BY <1>1, <1>2 DEF Next

\* Who refuses whom: the file's instance, the holder of its lock, or the process
\* it names.
LEMMA RefusalStep ==
    ASSUME TypeOK, PidFileReleased, FoundInv, ~killed, [Next]_vars,
           NEW p \in Pids, pc[p] # "refused", pc'[p] = "refused"
    PROVE  \E q \in Pids \ {p} : pc[q] \notin {"down", "refused", "failed"}
<1>1. CreateExists(p) \/ Lock(p) \/ CheckProcess(p)
  <2> USE DEF TypeOK, code, history
  <2>1. ASSUME NEW q \in Pids, Start(q) \/ Exit(q) \/ Leave(q) \/ Signal(q) \/ Kill(q)
        PROVE FALSE
    BY <2>1 DEF Start, Exit, Leave, Signal, Kill, Goto, Gone
  <2>2. ASSUME NEW q \in Pids, Guard(q)
        PROVE CreateExists(p) \/ Lock(p) \/ CheckProcess(p)
    <3>1. CASE CreateExists(q) \/ Lock(q) \/ CheckProcess(q)
      BY <3>1 DEF CreateExists, Lock, CheckProcess, Goto
    <3>2. CASE Create(q) \/ WritePid(q) \/ Open(q)
      BY <3>2 DEF Create, WritePid, Open, Goto
    <3>3. CASE ReadEmpty(q) \/ ReadPid(q) \/ Truncate(q) \/ WriteTakeover(q)
      BY <3>3 DEF ReadEmpty, ReadPid, Truncate, WriteTakeover, Goto
    <3>4. CASE GuardFails(q)
      BY <3>4 DEF GuardFails, Goto
    <3> QED BY <2>2, <3>1, <3>2, <3>3, <3>4 DEF Guard
  <2> QED BY <2>1, <2>2 DEF Next, vars
<1>2. CASE CreateExists(p)
  <2>1. pc[p] = "recreate" /\ path # None
    BY <1>2 DEF CreateExists, Goto, TypeOK
  <2>2. PICK q \in Pids : pc[q] \in Claiming /\ file[q] = path
    BY <2>1 DEF PidFileReleased
  <2> QED BY <2>1, <2>2 DEF Claiming
<1>3. CASE Lock(p)
  <2>1. LockedByOther(p)
    BY <1>3 DEF Lock, Goto, TypeOK
  <2> QED BY <2>1 DEF LockedByOther, Locking
<1>4. CASE CheckProcess(p)
  <2>1. pc[p] = "check" /\ pc[found[p]] # "down"
    BY <1>4 DEF CheckProcess, Goto, Alive, TypeOK
  <2>2. found[p] \in Pids \ {p} /\ pc[found[p]] \in {"active", "exiting"}
    BY <2>1 DEF FoundInv, Admitted, TypeOK
  <2> QED BY <2>2
<1> QED BY <1>1, <1>2, <1>3, <1>4

\* As long as no instance is killed, whoever is refused is refused in favour of
\* one that is past the guard or still trying, for any number of simultaneous
\* requests.
THEOREM RefusalHolds == Spec => NoMutualRefusal
<1>1. Init => NamedInv /\ FoundInv
  BY DEF Init, NamedInv, FoundInv
<1>2. Spec => [](TypeOK /\ PidFileReleased /\ FoundInv)
  BY <1>1, NamedStep, FoundStep, TypeCorrect, ReleaseHolds, PTL DEF Spec
<1>3. TypeOK /\ PidFileReleased /\ FoundInv /\ [Next]_vars
      => [\A p \in Pids : pc[p] # "refused" /\ pc'[p] = "refused" /\ ~killed =>
            \E q \in Pids \ {p} : pc[q] \notin {"down", "refused", "failed"}]_vars
  BY RefusalStep
<1> QED BY <1>2, <1>3, PTL DEF Spec, NoMutualRefusal
=============================================================================
