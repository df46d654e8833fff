------------------------------ MODULE Handover ------------------------------
(***************************************************************************)
(* What the fetcher promises about a record, for readers outside its lock: *)
(* a cause waits in one file until it has been told in another one, and    *)
(* nothing but a request or the telling itself takes it away.  What is not *)
(* told at once is written by one writer at a time, and torn meanwhile.    *)
(***************************************************************************)
CONSTANTS
    Causes,       \* what a request can record
    Substitutes,  \* what is told if nothing waits, or if it cannot be had
    None, Torn    \* no file; a file that is truncated and not yet written

VARIABLES
    pending,  \* the cause that waits
    told,     \* what readers are told
    writing   \* somebody is between opening the file and writing it

vars == <<pending, told, writing>>

Init == pending = None /\ told = None /\ writing = FALSE

\* A new cause replaces what waits; the device goes down, and all writers.  The
\* request may tell its cause itself.
Request(c) ==
    /\ pending' = c /\ told' \in {told, c}
    /\ writing' = FALSE

\* What waits is told, and waits no longer.
Take ==
    /\ pending # None /\ ~writing
    /\ told' = pending /\ pending' = None
    /\ UNCHANGED writing

BeginWrite ==
    /\ ~writing /\ writing' = TRUE
    /\ told' = Torn
    /\ UNCHANGED pending

\* What waits is told and goes on waiting, or something else is told.
EndWrite ==
    /\ writing /\ writing' = FALSE
    /\ told' \in Substitutes \cup ({pending} \ {None})
    /\ UNCHANGED pending

\* The writer dies.
Abandon ==
    /\ writing /\ writing' = FALSE
    /\ UNCHANGED <<pending, told>>

Next ==
    \/ \E c \in Causes : Request(c)
    \/ Take \/ BeginWrite \/ EndWrite \/ Abandon

Spec == Init /\ [][Next]_vars
=============================================================================
