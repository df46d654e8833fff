-------------------------- MODULE BackupWaitProofs --------------------------
(***************************************************************************)
(* Proofs about BackupWait, for every timeout, heartbeat, queue length and *)
(* number of other files: type correctness, no lost wakeup, the reasons    *)
(* for which the wait ends, and its deadline.                              *)
(***************************************************************************)
EXTENDS BackupWait, TLAPS

(***************************************************************************)
(* The inductive invariant.                                                *)
(***************************************************************************)

HasDone(q) == \E k \in DOMAIN q : q[k] = Done

\* An event of the flag is in the queue only after the flag was created.
DoneInv == HasDone(queue) => flag

\* select returns before the deadline is overrun by a heartbeat.
SelectInv == pc = "select" => now + idle < Timeout + Heartbeat

WaitInv == DoneInv /\ SelectInv /\ NoLostWakeup /\ EarlyOnlyOnFailure /\ TimeoutBound

-----------------------------------------------------------------------------
(***************************************************************************)
(* The queue.                                                              *)
(***************************************************************************)
Events == {Done, Other, Overflow}

\* The event constants are three different values.
LEMMA EventsDistinct == Done # Other /\ Done # Overflow /\ Other # Overflow
BY DEF Done, Other, Overflow

\* Queued keeps a queue within its limit, drops no event that is in it, and
\* adds no event of the flag but the one it is called with; while the watch is
\* set and there is room it does add that one.
LEMMA QueuedFacts ==
    ASSUME NEW event \in Events, queue \in Seq(Events), Len(queue) <= QueueLimit + 1
    PROVE  /\ Queued(event) \in Seq(Events) /\ Len(Queued(event)) <= QueueLimit + 1
           /\ HasDone(queue) => HasDone(Queued(event))
           /\ HasDone(Queued(event)) => HasDone(queue) \/ event = Done
           /\ watch /\ Len(queue) < QueueLimit /\ event = Done => HasDone(Queued(event))
<1> USE TimesAssumption, EventsDistinct
<1>1. CASE ~watch \/ Len(queue) > QueueLimit
  BY <1>1 DEF Queued
<1>2. CASE watch /\ Len(queue) <= QueueLimit
  <2> DEFINE e == IF Len(queue) = QueueLimit THEN Overflow ELSE event
  <2>1. Queued(event) = Append(queue, e) /\ e \in Events
    BY <1>2 DEF Queued, Events
  <2> HIDE DEF e
  <2>2. Append(queue, e) \in Seq(Events) /\ Len(Append(queue, e)) = Len(queue) + 1
    BY <2>1
  <2>3. /\ DOMAIN queue = 1..Len(queue)
        /\ DOMAIN Append(queue, e) = 1..(Len(queue) + 1)
        /\ \A k \in 1..Len(queue) : Append(queue, e)[k] = queue[k]
        /\ Append(queue, e)[Len(queue) + 1] = e
        /\ Len(queue) \in Nat
    BY <2>1
  <2>4. HasDone(queue) => HasDone(Append(queue, e))
    BY <2>3 DEF HasDone
  <2>5. HasDone(Append(queue, e)) => HasDone(queue) \/ e = Done
    BY <2>3 DEF HasDone
  <2>6. e = Done => event = Done
    BY DEF e
  <2>7. Len(queue) < QueueLimit => e = event
    <3> DEFINE l == Len(queue)
    <3>0. l \in Nat
      BY <2>3
    <3> HIDE DEF l
    <3>1. l < QueueLimit => l # QueueLimit
      BY <3>0
    <3> USE DEF l
    <3> QED BY <3>1, Zenon DEF e
  <2>8. e = Done => HasDone(Append(queue, e))
    BY <2>3 DEF HasDone
  <2> QED BY <1>2, <2>1, <2>2, <2>4, <2>5, <2>6, <2>7, <2>8
<1> QED
  <2>1. Len(queue) \in Nat
    OBVIOUS
  <2> QED BY <1>1, <1>2, <2>1

\* What a read leaves behind: a queue again, no longer than before, that has the
\* event of the flag exactly if it was in the queue and not in what was read.
LEMMA ReadFacts ==
    ASSUME NEW q \in Seq(Events), NEW n \in 1..Len(q),
           \A k \in 1..n : q[k] # Done
    PROVE  LET r == SubSeq(q, n + 1, Len(q))
           IN  /\ r \in Seq(Events) /\ Len(r) <= Len(q)
               /\ HasDone(r) <=> HasDone(q)
<1> DEFINE r == SubSeq(q, n + 1, Len(q))
<1>1. Len(q) \in Nat /\ n \in Nat /\ n <= Len(q) /\ DOMAIN q = 1..Len(q)
  OBVIOUS
<1>2. /\ r \in Seq(Events) /\ Len(r) = Len(q) - n
      /\ \A k \in 1..(Len(q) - n) : r[k] = q[n + k]
  <2>1. r \in Seq(Events)
    OBVIOUS
  <2>2. Len(r) = Len(q) - n
    OBVIOUS
  <2>3. ASSUME NEW k \in 1..(Len(q) - n) PROVE r[k] = q[n + k]
    OBVIOUS
  <2> HIDE DEF r
  <2> QED BY <2>1, <2>2, <2>3
<1> HIDE DEF r
<1>3. DOMAIN r = 1..(Len(q) - n)
  BY <1>2
<1>4. ASSUME HasDone(r) PROVE HasDone(q)
  <2>1. PICK k \in 1..(Len(q) - n) : r[k] = Done
    BY <1>3, <1>4 DEF HasDone
  <2>2. n + k \in 1..Len(q) /\ q[n + k] = Done
    BY <1>1, <1>2, <2>1
  <2> QED BY <1>1, <2>2 DEF HasDone
<1>5. ASSUME HasDone(q) PROVE HasDone(r)
  <2>1. PICK k \in 1..Len(q) : q[k] = Done
    BY <1>1, <1>5 DEF HasDone
  <2>2. k - n \in 1..(Len(q) - n) /\ n + (k - n) = k
    BY <1>1, <2>1
  <2>3. r[k - n] = Done
    BY <1>2, <2>1, <2>2
  <2> QED BY <1>3, <2>2, <2>3 DEF HasDone
<1>6. r \in Seq(Events) /\ Len(r) <= Len(q)
  BY <1>1, <1>2
<1> QED BY <1>4, <1>5, <1>6 DEF r

\* An empty queue has no event of the flag.
LEMMA EmptyFacts == <<>> \in Seq(Events) /\ Len(<<>>) = 0 /\ ~HasDone(<<>>)
BY DEF HasDone

-----------------------------------------------------------------------------
(***************************************************************************)
(* Type correctness.                                                       *)
(***************************************************************************)

\* The two parts of TypeOK: what is a set or a sequence, and what is counted.
Flags ==
    /\ flag \in BOOLEAN /\ watch \in BOOLEAN /\ failed \in BOOLEAN /\ dropped \in BOOLEAN
    /\ pc \in States
    /\ watch <=> pc \in {"recheck"} \cup Loop

Queue == queue \in Seq(Events) /\ Len(queue) <= QueueLimit + 1

Counts == now \in Nat /\ idle \in 0..Heartbeat /\ others \in 0..MaxOthers

\* TypeOK falls into these parts.
LEMMA TypeParts == TypeOK <=> Flags /\ Queue /\ Counts
BY DEF TypeOK, Flags, Queue, Counts, Events

\* Every way out of wait_for_backup_logs_done removes the watch.
LEMMA FlagsStep == TypeOK /\ [Next]_vars => Flags'
<1> SUFFICES ASSUME Flags, [Next]_vars PROVE Flags'
  BY TypeParts
<1> USE DEF Flags, States, Loop, Goto, env, outside
<1>1. CASE CheckFlag
  BY <1>1 DEF CheckFlag
<1>2. CASE InotifyInit
  BY <1>2 DEF InotifyInit
<1>3. CASE AddWatch
  BY <1>3 DEF AddWatch
<1>4. CASE Recheck
  BY <1>4 DEF Recheck, Finish
<1>5. CASE CheckDeadline
  BY <1>5 DEF CheckDeadline, Finish
<1>6. CASE SelectTimesOut
  BY <1>6 DEF SelectTimesOut
<1>7. CASE SelectReady
  BY <1>7 DEF SelectReady
<1>8. CASE ReadEvents
  <2>1. \/ pc' = "end" /\ watch' = FALSE
        \/ pc' = "loop" /\ watch' = watch
    BY <1>8, Zenon DEF ReadEvents, Finish
  <2>2. pc = "read" /\ UNCHANGED <<outside, failed>>
    BY <1>8, Zenon DEF ReadEvents
  <2> QED BY <2>1, <2>2
<1>9. CASE SystemCallFails
  BY <1>9 DEF SystemCallFails
<1>10. CASE SelectFails
  BY <1>10 DEF SelectFails, Finish
<1>11. CASE ReadFails
  BY <1>11 DEF ReadFails
<1>12. CASE SelectInterrupted
  BY <1>12 DEF SelectInterrupted
<1>13. CASE BackupDone
  BY <1>13 DEF BackupDone
<1>14. CASE OtherFile
  BY <1>14 DEF OtherFile
<1>15. CASE Tick
  BY <1>15 DEF Tick
<1>16. CASE UNCHANGED vars
  BY <1>16 DEF vars
<1> QED
  BY <1>1, <1>2, <1>3, <1>4, <1>5, <1>6, <1>7, <1>8, <1>9, <1>10, <1>11, <1>12,
     <1>13, <1>14, <1>15, <1>16 DEF Next, Wait, Terminated

\* How a step changes the queue: a file is created, a read takes events that
\* are not the flag's, the wait ends, or nothing happens to it.
LEMMA QueueChange ==
    ASSUME [Next]_vars
    PROVE  \/ BackupDone
           \/ OtherFile
           \/ ReadEvents /\ \E n \in 1..Len(queue) :
                /\ \A k \in 1..n : queue[k] # Done
                /\ queue' = SubSeq(queue, n + 1, Len(queue))
           \/ queue' = <<>>
           \/ UNCHANGED queue
<1> USE DEF env, outside, Goto
<1>1. CASE CheckFlag \/ InotifyInit \/ AddWatch \/ SelectTimesOut
  BY <1>1 DEF CheckFlag, InotifyInit, AddWatch, SelectTimesOut
<1>2. CASE Recheck \/ CheckDeadline \/ SelectFails \/ SystemCallFails
  BY <1>2 DEF Recheck, CheckDeadline, SelectFails, SystemCallFails, Finish
<1>3. CASE ReadEvents
  BY <1>3 DEF ReadEvents, Finish
<1>4. CASE SelectReady \/ ReadFails \/ SelectInterrupted \/ Tick
  BY <1>4 DEF SelectReady, ReadFails, SelectInterrupted, Tick
<1>5. CASE UNCHANGED vars
  BY <1>5 DEF vars
<1> QED BY <1>1, <1>2, <1>3, <1>4, <1>5 DEF Next, Wait, Terminated

\* The kernel and the reads of the loop keep the queue within its limit.
LEMMA QueueStep == TypeOK /\ [Next]_vars => Queue'
<1> SUFFICES ASSUME Queue, [Next]_vars PROVE Queue'
  BY TypeParts
<1> USE TimesAssumption
<1>1. CASE BackupDone
  BY <1>1, QueuedFacts DEF BackupDone, Queue, Events
<1>2. CASE OtherFile
  BY <1>2, QueuedFacts DEF OtherFile, Queue, Events
<1>3. CASE \E n \in 1..Len(queue) :
             /\ \A k \in 1..n : queue[k] # Done
             /\ queue' = SubSeq(queue, n + 1, Len(queue))
  <2>1. queue' \in Seq(Events) /\ Len(queue') <= Len(queue)
    BY <1>3, ReadFacts DEF Queue
  <2>2. Len(queue) \in Nat /\ Len(queue') \in Nat
    BY <2>1 DEF Queue
  <2> QED BY <2>1, <2>2 DEF Queue
<1>4. CASE queue' = <<>>
  BY <1>4, EmptyFacts DEF Queue
<1>5. CASE UNCHANGED queue
  BY <1>5 DEF Queue
<1> QED BY <1>1, <1>2, <1>3, <1>4, <1>5, QueueChange

\* Time only grows, and select never waits longer than a heartbeat.
LEMMA CountsStep == TypeOK /\ [Next]_vars => Counts'
<1> SUFFICES ASSUME Counts, [Next]_vars PROVE Counts'
  BY TypeParts
<1> USE TimesAssumption DEF Counts, env, outside, Goto
<1>1. CASE CheckFlag \/ InotifyInit \/ AddWatch \/ SelectTimesOut \/ SelectReady
             \/ ReadFails \/ SelectInterrupted
  BY <1>1 DEF CheckFlag, InotifyInit, AddWatch, SelectTimesOut, SelectReady,
              ReadFails, SelectInterrupted
<1>2. CASE Recheck \/ SelectFails \/ SystemCallFails \/ ReadEvents
  BY <1>2 DEF Recheck, SelectFails, SystemCallFails, ReadEvents
<1>3. CASE CheckDeadline
  BY <1>3 DEF CheckDeadline
<1>4. CASE BackupDone
  BY <1>4 DEF BackupDone
<1>5. CASE OtherFile
  BY <1>5 DEF OtherFile
<1>6. CASE Tick
  BY <1>6 DEF Tick
<1>7. CASE UNCHANGED vars
  BY <1>7 DEF vars
<1> QED BY <1>1, <1>2, <1>3, <1>4, <1>5, <1>6, <1>7 DEF Next, Wait, Terminated

\* The variables of wait_for_backup_logs_done keep their types; the watch is set
\* exactly while the wait needs it, on every way out of the function.
THEOREM TypeCorrect == Spec => []TypeOK
<1>1. Init => TypeOK
  <2> SUFFICES ASSUME Init PROVE TypeOK
    OBVIOUS
  <2>1. Flags
    BY DEF Init, Flags, States, Loop
  <2>2. Queue
    BY EmptyFacts, TimesAssumption DEF Init, Queue
  <2>3. Counts
    BY TimesAssumption DEF Init, Counts
  <2> QED BY <2>1, <2>2, <2>3, TypeParts
<1>2. TypeOK /\ [Next]_vars => TypeOK'
  <2> SUFFICES ASSUME TypeOK, [Next]_vars PROVE TypeOK'
    OBVIOUS
  <2>1. Flags' /\ Queue' /\ Counts'
    BY FlagsStep, QueueStep, CountsStep
  <2> QED BY <2>1 DEF TypeOK, Flags, Queue, Counts, Events
<1> QED BY <1>1, <1>2, PTL DEF Spec

-----------------------------------------------------------------------------
(***************************************************************************)
(* The wait.                                                               *)
(***************************************************************************)

\* Only the creation of the flag puts its event into the queue.
LEMMA DoneStep == TypeOK /\ DoneInv /\ [Next]_vars => DoneInv'
<1> SUFFICES ASSUME TypeOK, DoneInv, [Next]_vars PROVE DoneInv'
  OBVIOUS
<1>0. Queue
  BY TypeParts
<1>1. CASE BackupDone
  BY <1>1 DEF BackupDone, DoneInv
<1>2. CASE OtherFile
  BY <1>0, <1>2, QueuedFacts, EventsDistinct DEF OtherFile, DoneInv, Queue, Events
<1>3. flag => flag'
  BY DEF Next, Wait, Terminated, vars, env, outside, CheckFlag, InotifyInit, AddWatch,
         Recheck, CheckDeadline, SelectTimesOut, SelectReady, ReadEvents, SystemCallFails,
         SelectFails, ReadFails, SelectInterrupted, BackupDone, OtherFile, Tick
<1>4. CASE \E n \in 1..Len(queue) :
             /\ \A k \in 1..n : queue[k] # Done
             /\ queue' = SubSeq(queue, n + 1, Len(queue))
  <2>1. HasDone(queue') => HasDone(queue)
    BY <1>0, <1>4, ReadFacts DEF Queue
  <2> QED BY <1>3, <2>1 DEF DoneInv
<1>5. CASE queue' = <<>>
  BY <1>5, EmptyFacts DEF DoneInv
<1>6. CASE UNCHANGED queue
  BY <1>3, <1>6 DEF DoneInv
<1> QED BY <1>1, <1>2, <1>4, <1>5, <1>6, QueueChange

\* The loop enters select before the deadline, for one heartbeat at most.
LEMMA SelectStep ==
    TypeOK /\ SelectInv /\ TimeoutBound /\ [Next]_vars => SelectInv' /\ TimeoutBound'
<1> SUFFICES ASSUME Counts, SelectInv, TimeoutBound, [Next]_vars
             PROVE  SelectInv' /\ TimeoutBound'
  BY TypeParts
<1> USE TimesAssumption DEF Counts, SelectInv, TimeoutBound, env, outside, Goto
<1>1. CASE CheckFlag \/ InotifyInit \/ AddWatch \/ SelectTimesOut \/ SelectReady
             \/ ReadFails \/ SelectInterrupted
  BY <1>1 DEF CheckFlag, InotifyInit, AddWatch, SelectTimesOut, SelectReady,
              ReadFails, SelectInterrupted
<1>2. CASE Recheck \/ SelectFails \/ SystemCallFails \/ ReadEvents
  BY <1>2 DEF Recheck, SelectFails, SystemCallFails, ReadEvents, Finish
<1>3. CASE CheckDeadline
  BY <1>3 DEF CheckDeadline, Finish
<1>4. CASE BackupDone \/ OtherFile
  BY <1>4 DEF BackupDone, OtherFile
<1>5. CASE Tick
  BY <1>5 DEF Tick
<1>6. CASE UNCHANGED vars
  BY <1>6 DEF vars
<1> QED BY <1>1, <1>2, <1>3, <1>4, <1>5, <1>6 DEF Next, Wait, Terminated

\* No step of the loop drops the event of the flag: the loop is entered
\* without the flag, and a read that meets the event ends the wait.
LEMMA WakeupStep == TypeOK /\ NoLostWakeup /\ [Next]_vars => NoLostWakeup'
<1> SUFFICES ASSUME TypeOK, NoLostWakeup, [Next]_vars,
                    pc' \in Loop, flag', ~dropped'
             PROVE  HasDone(queue')
  BY DEF NoLostWakeup, HasDone
<1>0. Queue /\ Flags /\ (pc \in Loop /\ flag /\ ~dropped => HasDone(queue))
  BY TypeParts DEF NoLostWakeup, HasDone
<1>1. CASE BackupDone
  <2>1. watch /\ Len(queue) < QueueLimit
    <3>1. watch /\ ~(Len(queue) >= QueueLimit)
      BY <1>0, <1>1 DEF BackupDone, Flags
    <3>2. Len(queue) \in Nat
      BY <1>0 DEF Queue
    <3> QED BY <3>1, <3>2, TimesAssumption
  <2> QED BY <1>0, <1>1, <2>1, QueuedFacts DEF BackupDone, Queue, Events
<1>2. CASE OtherFile
  <2>1. HasDone(queue)
    BY <1>0, <1>2 DEF OtherFile
  <2> QED BY <1>0, <1>2, <2>1, QueuedFacts DEF OtherFile, Queue, Events
<1>3. CASE Recheck
  BY <1>3 DEF Recheck, Finish, outside, Loop
<1>4. CASE ReadEvents
  <2>1. HasDone(queue)
    BY <1>0, <1>4 DEF ReadEvents, outside, Loop
  <2>2. PICK n \in 1..Len(queue) :
          /\ \A k \in 1..n : queue[k] # Done
          /\ queue' = SubSeq(queue, n + 1, Len(queue))
    BY <1>4 DEF ReadEvents, Finish, Loop
  <2> QED BY <1>0, <2>1, <2>2, ReadFacts DEF Queue
<1>5. CASE CheckDeadline
  BY <1>0, <1>5 DEF CheckDeadline, Finish, outside, Loop
<1>6. CASE SelectTimesOut \/ SelectReady \/ ReadFails \/ SelectInterrupted \/ Tick
  BY <1>0, <1>6 DEF SelectTimesOut, SelectReady, ReadFails, SelectInterrupted, Tick,
                    Goto, env, outside, Loop
<1>7. CASE CheckFlag \/ InotifyInit \/ AddWatch \/ SystemCallFails \/ SelectFails
  BY <1>7 DEF CheckFlag, InotifyInit, AddWatch, SystemCallFails, SelectFails, Goto,
              Finish, Loop
<1>8. CASE UNCHANGED vars
  BY <1>0, <1>8 DEF vars
<1> QED BY <1>1, <1>2, <1>3, <1>4, <1>5, <1>6, <1>7, <1>8 DEF Next, Wait, Terminated

\* Each step that ends the wait has the flag, a failure or the timeout as its
\* reason, and none takes that reason away.
LEMMA EarlyStep ==
    TypeOK /\ DoneInv /\ EarlyOnlyOnFailure /\ [Next]_vars => EarlyOnlyOnFailure'
<1> SUFFICES ASSUME TypeOK, DoneInv, EarlyOnlyOnFailure, [Next]_vars, pc' = "end"
             PROVE  flag' \/ failed' \/ now' >= Timeout
  BY DEF EarlyOnlyOnFailure
<1>0. Queue /\ Counts
  BY TypeParts
<1>1. CASE pc = "end"
  BY <1>1 DEF EarlyOnlyOnFailure, Next, Wait, Terminated, vars, env, outside, Goto,
       CheckFlag, InotifyInit, AddWatch, Recheck, CheckDeadline, SelectTimesOut,
       SelectReady, ReadEvents, SystemCallFails, SelectFails, ReadFails,
       SelectInterrupted, BackupDone, OtherFile, Tick
<1>2. CASE CheckFlag \/ Recheck \/ CheckDeadline
  BY <1>2 DEF CheckFlag, Recheck, CheckDeadline, Finish, Goto, env, outside
<1>3. CASE SystemCallFails \/ SelectFails
  BY <1>3 DEF SystemCallFails, SelectFails
<1>4. CASE ReadEvents
  <2>1. PICK n \in 1..Len(queue) : \E k \in 1..n : queue[k] = Done
    BY <1>4 DEF ReadEvents
  <2>2. PICK k \in 1..n : queue[k] = Done
    BY <2>1
  <2>3. k \in DOMAIN queue
    BY <1>0, <2>1, <2>2 DEF Queue
  <2> QED BY <1>4, <2>2, <2>3 DEF DoneInv, HasDone, ReadEvents, outside
<1>5. CASE pc # "end" /\ ~(CheckFlag \/ Recheck \/ CheckDeadline \/ SystemCallFails
                            \/ SelectFails \/ ReadEvents)
  BY <1>5 DEF Next, Wait, Terminated, vars, Goto, InotifyInit, AddWatch, SelectTimesOut,
       SelectReady, ReadFails, SelectInterrupted, BackupDone, OtherFile, Tick
<1> QED BY <1>1, <1>2, <1>3, <1>4, <1>5

\* The invariant of the wait holds in every reachable state.
LEMMA WaitInvariant == Spec => [](TypeOK /\ WaitInv)
<1>1. Init => WaitInv
  BY EmptyFacts, TimesAssumption
     DEF Init, WaitInv, DoneInv, SelectInv, NoLostWakeup, EarlyOnlyOnFailure,
         TimeoutBound, Loop
<1>2. TypeOK /\ WaitInv /\ [Next]_vars => WaitInv'
  BY DoneStep, SelectStep, WakeupStep, EarlyStep DEF WaitInv
<1> QED BY <1>1, <1>2, TypeCorrect, PTL DEF Spec

\* "closes race between access() and add_watch": whenever the flag is created,
\* the loop has its event, unless the kernel's queue was full.
THEOREM WakeupKept == Spec => []NoLostWakeup
BY WaitInvariant, PTL DEF WaitInv

\* The fetcher reads PreviousLogs/ before backup_logs is done only after the full
\* timeout or a failed system call.
THEOREM EarlyReasons == Spec => []EarlyOnlyOnFailure
BY WaitInvariant, PTL DEF WaitInv

\* The deadline of the wait is overrun by less than one heartbeat, however many
\* events and signals interrupt it.
THEOREM DeadlineKept == Spec => []TimeoutBound
BY WaitInvariant, PTL DEF WaitInv

\* No time passes in the wait once the flag is there, unless its event was lost
\* to a full queue.
THEOREM PromptWakeup == Spec => NoWaitAfterFlag
<1>1. TypeOK /\ WaitInv /\ [Next]_vars => [now' # now => ~flag \/ dropped]_vars
  <2> SUFFICES ASSUME WaitInv, [Next]_vars, now' # now PROVE ~flag \/ dropped
    OBVIOUS
  <2>1. Tick
    BY DEF Next, Wait, Terminated, vars, CheckFlag, InotifyInit, AddWatch, Recheck,
         CheckDeadline, SelectTimesOut, SelectReady, ReadEvents, SystemCallFails,
         SelectFails, ReadFails, SelectInterrupted, BackupDone, OtherFile
  <2>2. pc \in Loop /\ ~HasDone(queue)
    BY <2>1, EmptyFacts DEF Tick, Loop
  <2> QED BY <2>2 DEF WaitInv, NoLostWakeup, HasDone
<1> QED BY <1>1, WaitInvariant, PTL DEF Spec, NoWaitAfterFlag
=============================================================================
