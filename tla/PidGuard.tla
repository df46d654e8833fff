------------------------------ MODULE PidGuard ------------------------------
(***************************************************************************)
(* pidfile_write_and_guard and cleanup_pidfile: concurrent instances of    *)
(* rebootnow on one PID file, within one boot (/tmp does not survive).     *)
(* Every system call is a step.  A file is an inode, because an instance   *)
(* may hold one open after another instance has unlinked its path.         *)
(***************************************************************************)
EXTENDS Naturals, FiniteSets

CONSTANTS
    Pids,    \* process ids; a pid may be used again once its process is gone
    Inodes   \* bound: inodes that exist at one time

None  == "none"    \* no inode, no pid
Empty == "empty"   \* a file without content

ASSUME NamesAssumption == {None, Empty} \cap (Pids \cup Inodes) = {}

VARIABLES
    path,   \* the inode that PID_FILE names
    data,   \* content of each inode
    pc,     \* where each instance is
    file,   \* the inode an instance has opened, kept after it is closed
    found   \* the pid that an instance has read from it

(***************************************************************************)
(* History variables: no guard of the code depends on them.                *)
(***************************************************************************)
VARIABLES
    breach,  \* the first window of the guard that was hit
    killed,  \* an instance has died without its exit handlers
    alone    \* an instance that no other one was alive with since its start

code    == <<path, data, pc, file, found>>
history == <<breach, killed, alone>>
vars    == <<code, history>>

\* unwritten: a file was read before its creator's pid was in it;
\* unlinked:  a file was taken over after its path was gone;
\* signal:    SIGTERM or SIGINT removed the path of a running instance.
Breaches == {"unwritten", "unlinked", "signal"}

Locking  == {"read", "check", "truncate", "write"}
Claiming == {"created", "active"}
Guarding == {"create", "created", "open", "recreate", "lock"} \cup Locking
States   == {"down", "active", "exiting", "refused", "failed"} \cup Guarding

Alive(p) == pc[p] # "down"

\* The type invariant.  An instance that works on a file has opened one.
TypeOK ==
    /\ path \in Inodes \cup {None}
    /\ data \in [Inodes -> Pids \cup {Empty}]
    /\ pc \in [Pids -> States]
    /\ file \in [Pids -> Inodes \cup {None}]
    /\ found \in [Pids -> Pids \cup {Empty}]
    /\ breach \in Breaches \cup {None}
    /\ killed \in BOOLEAN
    /\ alone \in Pids \cup {None}
    /\ \A p \in Pids :
         /\ pc[p] \in {"created", "active", "lock"} \cup Locking => file[p] # None
         /\ pc[p] = "check" => found[p] # Empty

Init ==
    /\ path = None
    /\ data = [i \in Inodes |-> Empty]
    /\ pc = [p \in Pids |-> "down"]
    /\ file = [p \in Pids |-> None]
    /\ found = [p \in Pids |-> Empty]
    /\ breach = None /\ killed = FALSE /\ alone = None

-----------------------------------------------------------------------------
Goto(p, from, to) == pc[p] = from /\ pc' = [pc EXCEPT ![p] = to]

BreachIf(b, hit) == breach' = IF hit /\ breach = None THEN b ELSE breach

\* The process is gone and its pid is free.
Gone(p) ==
    /\ pc' = [pc EXCEPT ![p] = "down"]
    /\ file' = [file EXCEPT ![p] = None]
    /\ found' = [found EXCEPT ![p] = Empty]

\* Some instance in the guard is looking at a file that names p.
LookedUp(p) ==
    \E q \in Pids : /\ pc[q] \in Guarding /\ file[q] # None
                   /\ p \in {data[file[q]], found[q]}

\* Assumption: a pid may come back while a stale file lasts, but not within the
\* few system calls of another instance that is looking it up.
Start(p) ==
    /\ Goto(p, "down", "create")
    /\ ~LookedUp(p)
    /\ alone' = IF \E q \in Pids : Alive(q) THEN None ELSE p
    /\ UNCHANGED <<path, data, file, found, breach, killed>>

\* open(O_CREAT | O_EXCL) makes a new, empty file.
Create(p) ==
    /\ path = None
    /\ Goto(p, "create", "created") \/ Goto(p, "recreate", "created")
    /\ \E i \in Inodes :
         /\ \A q \in Pids : file[q] # i
         /\ path' = i
         /\ data' = [data EXCEPT ![i] = Empty]
         /\ file' = [file EXCEPT ![p] = i]
    /\ UNCHANGED <<found, history>>

\* EEXIST: look at the file; at the second attempt, give up.
CreateExists(p) ==
    /\ path # None
    /\ Goto(p, "create", "open") \/ Goto(p, "recreate", "refused")
    /\ UNCHANGED <<path, data, file, found, history>>

\* The pid goes into the new file, which carries no lock meanwhile.  A failed
\* write is ignored.
WritePid(p) ==
    /\ Goto(p, "created", "active")
    /\ data' = [data EXCEPT ![file[p]] = p] \/ UNCHANGED data
    /\ UNCHANGED <<path, file, found, history>>

\* Mutant: a failed open is not noticed.
OpenUnchecked(p) ==
    /\ Goto(p, "open", "lock")
    /\ file' = [file EXCEPT ![p] = path]
    /\ UNCHANGED <<path, data, found, history>>

\* open(O_RDWR), or ENOENT because the file is gone again.
Open(p) ==
    /\ \/ path # None /\ Goto(p, "open", "lock") /\ file' = [file EXCEPT ![p] = path]
       \/ path = None /\ Goto(p, "open", "recreate") /\ UNCHANGED file
    /\ UNCHANGED <<path, data, found, history>>

\* Another process has the lock on this inode.
LockedByOther(p) == \E q \in Pids \ {p} : pc[q] \in Locking /\ file[q] = file[p]

\* fcntl(F_SETLK, F_WRLCK) does not wait.
Lock(p) ==
    /\ \/ ~LockedByOther(p) /\ Goto(p, "lock", "read")
       \/ LockedByOther(p) /\ Goto(p, "lock", "refused")
    /\ UNCHANGED <<path, data, file, found, history>>

\* fgets finds no pid: the file is taken over.
ReadEmpty(p) ==
    /\ Goto(p, "read", "truncate")
    /\ data[file[p]] = Empty
    /\ BreachIf("unwritten", \E q \in Pids : pc[q] \in Claiming /\ file[q] = file[p])
    /\ UNCHANGED <<path, data, file, found, killed, alone>>

\* fgets and atoi.
ReadPid(p) ==
    /\ Goto(p, "read", "check")
    /\ data[file[p]] # Empty
    /\ found' = [found EXCEPT ![p] = data[file[p]]]
    /\ UNCHANGED <<path, data, file, history>>

\* Mutant: a file with a pid in it is never taken over.
NeverTakeOver(p) ==
    /\ Goto(p, "check", "refused")
    /\ UNCHANGED <<path, data, file, found, history>>

\* /proc/<pid>/cmdline contains "rebootnow".
CheckProcess(p) ==
    /\ \/ Goto(p, "check", "refused") /\ Alive(found[p])
       \/ Goto(p, "check", "truncate") /\ ~Alive(found[p])
    /\ UNCHANGED <<path, data, file, found, history>>

Truncate(p) ==
    /\ Goto(p, "truncate", "write")
    /\ data' = [data EXCEPT ![file[p]] = Empty]
    /\ BreachIf("unlinked", file[p] # path)
    /\ UNCHANGED <<path, file, found, killed, alone>>

\* The pid is written and fclose releases the lock.
WriteTakeover(p) ==
    /\ Goto(p, "write", "active")
    /\ data' = [data EXCEPT ![file[p]] = p]
    /\ UNCHANGED <<path, file, found, history>>

\* open, fcntl or fdopen fails for another reason: -1 as well.
GuardFails(p) ==
    /\ \/ Goto(p, "create", "failed") \/ Goto(p, "open", "failed")
       \/ Goto(p, "recreate", "failed") \/ Goto(p, "lock", "failed")
       \/ Goto(p, "read", "failed")
    /\ UNCHANGED <<path, data, file, found, history>>

-----------------------------------------------------------------------------
\* Mutant: the exit handler does not remove the file.
ExitKeepsFile(p) ==
    /\ Goto(p, "active", "exiting")
    /\ UNCHANGED <<path, data, file, found, history>>

\* main returns and atexit runs cleanup_pidfile: whatever the path names is
\* unlinked.
Exit(p) ==
    /\ Goto(p, "active", "exiting")
    /\ path' = None
    /\ UNCHANGED <<data, file, found, history>>

\* Mutant: the exit handler is registered before the guard.
LeaveThroughHandler(p) ==
    /\ pc[p] \in {"exiting", "refused", "failed"}
    /\ Gone(p)
    /\ path' = None
    /\ UNCHANGED <<data, history>>

\* The process is gone.  One that the guard refused returns before the exit
\* handler is registered.
Leave(p) ==
    /\ pc[p] \in {"exiting", "refused", "failed"}
    /\ Gone(p)
    /\ UNCHANGED <<path, data, history>>

\* signal_cleanup_handler removes the file and returns: the run goes on.
Signal(p) ==
    /\ pc[p] \in {"active", "exiting"}
    /\ path' = None
    /\ BreachIf("signal", path # None)
    /\ UNCHANGED <<data, pc, file, found, killed, alone>>

\* SIGKILL, a crash, or SIGTERM before the handler is installed.
Kill(p) ==
    /\ Alive(p)
    /\ Gone(p)
    /\ killed' = TRUE
    /\ UNCHANGED <<path, data, breach, alone>>

Guard(p) ==
    \/ Create(p) \/ CreateExists(p) \/ WritePid(p)
    \/ Open(p) \/ Lock(p) \/ ReadEmpty(p) \/ ReadPid(p) \/ CheckProcess(p)
    \/ Truncate(p) \/ WriteTakeover(p) \/ GuardFails(p)

Next == \E p \in Pids : Start(p) \/ Guard(p) \/ Exit(p) \/ Leave(p) \/ Signal(p) \/ Kill(p)

Spec == Init /\ [][Next]_vars

-----------------------------------------------------------------------------
\* README.md, "PID guard path prevents two `rebootnow` instances from running
\* concurrently": no two instances are past pidfile_write_and_guard.
MutualExclusion ==
    \A p, q \in Pids : pc[p] = "active" /\ pc[q] = "active" => p = q

\* The guard fails only through the three windows named in Breaches: without
\* one of them, takeovers under the lock, the second O_EXCL attempt, instances
\* that are killed and pids that are used again never let two instances run.
ExclusionUnlessBreached == breach = None => MutualExclusion

\* Unless an instance was killed, the PID file never outlives the instance
\* that made it, so a stale file is always the trace of a death.
PidFileReleased ==
    ~killed /\ path # None => \E p \in Pids : pc[p] \in Claiming /\ file[p] = path

\* A stale file does not block: an instance that has been alone since its start
\* is refused only if the file holds its own pid, used before by a dead one.
LoneInstanceAccepted ==
    \A p \in Pids : pc[p] = "refused" /\ alone = p => found[p] = p

\* Two requests never refuse each other: as long as no instance was killed, the
\* guard refuses one only while another is past it or still trying, so that of
\* any number of simultaneous requests one is accepted or fails by itself.
NoMutualRefusal ==
    [][\A p \in Pids : pc[p] # "refused" /\ pc'[p] = "refused" /\ ~killed =>
         \E q \in Pids \ {p} : pc[q] \notin {"down", "refused", "failed"}]_vars
=============================================================================
