----------------------------- MODULE BackupWait -----------------------------
(***************************************************************************)
(* wait_for_backup_logs_done: before the fetcher derives a reason from     *)
(* PreviousLogs/ it waits, for a limited time, until backup_logs has       *)
(* created /tmp/.backup_logs_done.  backup_logs and whoever else creates   *)
(* files in /tmp run beside it.  A step of the program takes no time; time *)
(* passes in select.                                                       *)
(***************************************************************************)
EXTENDS Naturals, Sequences

CONSTANTS
    Timeout,     \* BACKUP_LOGS_SYNC_TIMEOUT_S
    Heartbeat,   \* the time that select waits
    QueueLimit,  \* events that the kernel queues for one inotify descriptor
    MaxOthers    \* bound: other files created in /tmp during the wait

ASSUME TimesAssumption ==
    /\ Timeout \in Nat /\ Heartbeat \in Nat \ {0}
    /\ QueueLimit \in Nat \ {0} /\ MaxOthers \in Nat

Done     == "done"      \* the event of .backup_logs_done
Other    == "other"     \* the event of another name in /tmp
Overflow == "overflow"  \* IN_Q_OVERFLOW, an event without a name

VARIABLES
    flag,    \* /tmp/.backup_logs_done exists
    queue,   \* the events that inotify holds for the descriptor
    watch,   \* the watch on /tmp is set
    pc,
    now,     \* seconds since the wait began
    idle,    \* seconds left until select returns for its timeout
    failed,  \* history: a system call failed
    dropped, \* history: the event of the flag did not fit into the queue
    others   \* other files created so far

vars    == <<flag, queue, watch, pc, now, idle, failed, dropped, others>>
outside == <<flag, dropped, others>>
env     == <<queue, watch, outside>>

Loop   == {"loop", "select", "read"}
States == {"access", "init", "watch", "recheck", "end"} \cup Loop

\* The type invariant; the watch is set exactly while the wait needs it.
TypeOK ==
    /\ {flag, watch, failed, dropped} \subseteq BOOLEAN
    /\ queue \in Seq({Done, Other, Overflow}) /\ Len(queue) <= QueueLimit + 1
    /\ pc \in States
    /\ now \in Nat /\ idle \in 0..Heartbeat
    /\ others \in 0..MaxOthers
    /\ watch <=> pc \in {"recheck"} \cup Loop

Init ==
    /\ flag \in BOOLEAN
    /\ queue = <<>> /\ watch = FALSE
    /\ pc = "access" /\ now = 0 /\ idle = 0 /\ failed = FALSE
    /\ dropped = FALSE /\ others = 0

-----------------------------------------------------------------------------
Goto(from, to) == pc = from /\ pc' = to

\* access(BACKUP_LOGS_DONE_FLAG), the fast path.
CheckFlag ==
    /\ Goto("access", IF flag THEN "end" ELSE "init")
    /\ UNCHANGED <<env, now, idle, failed>>

\* inotify_init1, inotify_add_watch or the first clock_gettime fails: proceed.
SystemCallFails ==
    /\ pc \in {"init", "watch"} \/ (pc = "recheck" /\ ~flag)
    /\ pc' = "end" /\ failed' = TRUE
    /\ watch' = FALSE /\ queue' = <<>>
    /\ UNCHANGED <<outside, now, idle>>

InotifyInit ==
    /\ Goto("init", "watch")
    /\ UNCHANGED <<env, now, idle, failed>>

\* inotify_add_watch: from here on a file created in /tmp leaves an event.
AddWatch ==
    /\ Goto("watch", "recheck")
    /\ watch' = TRUE
    /\ UNCHANGED <<queue, outside, now, idle, failed>>

\* inotify_rm_watch and close.
Finish == pc' = "end" /\ watch' = FALSE /\ queue' = <<>>

\* Mutant: the flag is not looked at again once the watch is set.
NoRecheck ==
    /\ Goto("recheck", "loop")
    /\ UNCHANGED <<env, now, idle, failed>>

\* Mutant: the early return leaves the watch behind.
RecheckLeaks ==
    /\ Goto("recheck", IF flag THEN "end" ELSE "loop")
    /\ UNCHANGED <<env, now, idle, failed>>

\* access again, "closes race between access() and add_watch".
Recheck ==
    /\ pc = "recheck"
    /\ \/ flag /\ Finish
       \/ ~flag /\ pc' = "loop" /\ UNCHANGED <<queue, watch>>
    /\ UNCHANGED <<outside, now, idle, failed>>

\* Mutant: the deadline is looked at only after the last heartbeat passed it.
LateDeadline ==
    /\ pc = "loop"
    /\ \/ now > Timeout /\ Finish /\ UNCHANGED idle
       \/ now <= Timeout /\ pc' = "select" /\ idle' = Heartbeat /\ UNCHANGED <<queue, watch>>
    /\ UNCHANGED <<outside, now, failed>>

\* The top of the loop.  The clock that could be read once can be read again.
CheckDeadline ==
    /\ pc = "loop"
    /\ \/ now >= Timeout /\ Finish /\ UNCHANGED idle
       \/ now < Timeout /\ pc' = "select" /\ idle' = Heartbeat /\ UNCHANGED <<queue, watch>>
    /\ UNCHANGED <<outside, now, failed>>

\* Mutant: a heartbeat without an event ends the wait.
HeartbeatEnds ==
    /\ pc = "select" /\ queue = <<>> /\ idle = 0
    /\ Finish
    /\ UNCHANGED <<outside, now, idle, failed>>

\* The heartbeat: look at the deadline again.
SelectTimesOut ==
    /\ queue = <<>> /\ idle = 0
    /\ Goto("select", "loop")
    /\ UNCHANGED <<env, now, idle, failed>>

\* EINTR.
SelectInterrupted ==
    /\ Goto("select", "loop")
    /\ UNCHANGED <<env, now, idle, failed>>

\* select fails with another error: the loop is left.
SelectFails ==
    /\ pc = "select" /\ Finish
    /\ failed' = TRUE
    /\ UNCHANGED <<outside, now, idle>>

SelectReady ==
    /\ queue # <<>>
    /\ Goto("select", "read")
    /\ UNCHANGED <<env, now, idle, failed>>

\* Mutant: what follows the first event of a read is not looked at.
ReadFirstOnly ==
    /\ pc = "read"
    /\ \E n \in 1..Len(queue) :
         \/ queue[1] = Done /\ Finish
         \/ /\ queue[1] # Done /\ pc' = "loop"
            /\ queue' = SubSeq(queue, n + 1, Len(queue)) /\ UNCHANGED watch
    /\ UNCHANGED <<outside, now, idle, failed>>

\* read returns as many events as the buffer holds, at least one; the loop over
\* them ends at the one that has the name of the flag.
ReadEvents ==
    /\ pc = "read"
    /\ \E n \in 1..Len(queue) :
         \/ \E k \in 1..n : queue[k] = Done /\ Finish
         \/ /\ \A k \in 1..n : queue[k] # Done
            /\ pc' = "loop" /\ queue' = SubSeq(queue, n + 1, Len(queue)) /\ UNCHANGED watch
    /\ UNCHANGED <<outside, now, idle, failed>>

ReadFails ==
    /\ Goto("read", "loop")
    /\ failed' = TRUE
    /\ UNCHANGED <<env, now, idle>>

-----------------------------------------------------------------------------
\* The kernel queues an event; the one that finds the queue full is replaced by
\* an event without a name, and what follows is dropped.
Queued(event) ==
    IF ~watch \/ Len(queue) > QueueLimit THEN queue
    ELSE Append(queue, IF Len(queue) = QueueLimit THEN Overflow ELSE event)

\* backup_logs has filled PreviousLogs/ and creates the flag, once in a boot.
BackupDone ==
    /\ ~flag /\ flag' = TRUE
    /\ queue' = Queued(Done)
    /\ dropped' = (watch /\ Len(queue) >= QueueLimit)
    /\ UNCHANGED <<watch, others, pc, now, idle, failed>>

\* Only an event that somebody watches for makes a difference.
OtherFile ==
    /\ watch /\ others < MaxOthers /\ others' = others + 1
    /\ queue' = Queued(Other)
    /\ UNCHANGED <<flag, dropped, watch, pc, now, idle, failed>>

\* Time passes while select waits and has nothing to return for.
Tick ==
    /\ pc = "select" /\ queue = <<>> /\ idle > 0
    /\ now' = now + 1 /\ idle' = idle - 1
    /\ UNCHANGED <<env, pc, failed>>

\* The steps of the wait that need nothing but the processor.
Wait ==
    \/ CheckFlag \/ InotifyInit \/ AddWatch \/ Recheck
    \/ CheckDeadline \/ SelectTimesOut

Terminated == pc = "end" /\ UNCHANGED vars

Next ==
    \/ Wait \/ SelectReady \/ ReadEvents
    \/ SystemCallFails \/ SelectFails \/ ReadFails \/ SelectInterrupted
    \/ BackupDone \/ OtherFile \/ Tick
    \/ Terminated

Spec == Init /\ [][Next]_vars

\* The process runs; signals do not keep it from its events for ever.  Time need
\* not pass.
FairSpec == Spec /\ WF_vars(Wait) /\ SF_vars(SelectReady) /\ SF_vars(ReadEvents)

-----------------------------------------------------------------------------
\* "closes race between access() and add_watch": whenever the flag comes, the
\* loop has its event, until the kernel had no room for it.
NoLostWakeup ==
    pc \in Loop /\ flag /\ ~dropped =>
        \E k \in DOMAIN queue : queue[k] = Done

\* The logs are read before backup_logs is done only after the full timeout, or
\* when a system call failed.
EarlyOnlyOnFailure ==
    pc = "end" => flag \/ failed \/ now >= Timeout

\* "Waiting up to %us": the deadline is overrun by less than one heartbeat,
\* however many other events and signals interrupt the wait.
TimeoutBound == now < Timeout + Heartbeat

\* Not a second passes in the wait once the flag is there.
NoWaitAfterFlag == [][now' # now => ~flag \/ dropped]_vars

\* When backup_logs is done the wait ends without the timeout.
WakesUp == flag ~> pc = "end" \/ dropped \/ failed
=============================================================================
