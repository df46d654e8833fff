------------------------------ MODULE CronTime ------------------------------
(***************************************************************************)
(* How long a device in stop mode waits for its deferred reboot: the       *)
(* duration that the policy accepts, the hour and minute it computes for   *)
(* the cron entry, and the clock that has to reach them.  Cron knows the   *)
(* time of day only, so that an entry that is a minute off, or that comes  *)
(* too late, waits for another day.                                        *)
(***************************************************************************)
EXTENDS Integers

CONSTANT Durations  \* ints that rfc_get_int_param can return

Hour == 60
Day  == 1440

DefaultDuration == 30

VARIABLES
    pc,
    now,           \* the local time, in minutes of the day
    stop_duration,
    hr, mn         \* locals of compute_cron_time, then the cron entry

(***************************************************************************)
(* History variables: no guard of the code depends on them.                *)
(***************************************************************************)
VARIABLES
    start,   \* the minute in which compute_cron_time read the clock
    waited,  \* minutes that have passed since
    turns,   \* midnights among them
    wraps,   \* how often the loop has passed midnight
    late     \* the entry was added only after its minute had come

clock == <<now, waited, turns>>
entry == <<hr, mn, wraps>>
vars  == <<pc, clock, stop_duration, entry, start, late>>

\* The minutes that the device is to wait, the alignment included.
Due    == stop_duration + 1
Target == Hour * hr + mn

TypeOK ==
    /\ pc \in {"rfc", "clock", "borrow", "carry", "add", "halted", "fired"}
    /\ now \in 0 .. Day - 1 /\ stop_duration \in 1 .. Day - 1
    /\ hr \in 0 .. 23 /\ mn \in Int
    /\ start \in 0 .. Day - 1 /\ waited \in Nat
    /\ turns \in Int /\ wraps \in Int /\ late \in BOOLEAN

Init ==
    /\ pc = "rfc" /\ now \in 0 .. Day - 1
    /\ stop_duration = DefaultDuration
    /\ hr = 0 /\ mn = 0 /\ start = now /\ waited = 0 /\ turns = 0 /\ wraps = 0
    /\ late = FALSE

Goto(from, to) == pc = from /\ pc' = to

\* The RFC is not set or no number, or it is out of range, or it is taken.
ReadDuration ==
    /\ Goto("rfc", "clock")
    /\ stop_duration' \in {DefaultDuration} \cup (Durations \cap 1 .. Day - 1)
    /\ UNCHANGED <<clock, entry, start, late>>

\* localtime_r, and the two additions.
ReadClock ==
    /\ Goto("clock", "borrow")
    /\ hr' = now \div Hour /\ mn' = (now % Hour) + 1 + stop_duration
    /\ start' = now /\ waited' = 0 /\ turns' = 0 /\ wraps' = 0
    /\ UNCHANGED <<now, stop_duration, late>>

\* while (mn < 0): no duration leads there, see InTime.
Borrow ==
    /\ pc = "borrow"
    /\ \/ /\ mn < 0 /\ UNCHANGED pc
          /\ mn' = mn + Hour
          /\ \/ hr > 0 /\ hr' = hr - 1 /\ UNCHANGED wraps
             \/ hr = 0 /\ hr' = 23 /\ wraps' = wraps - 1
       \/ mn >= 0 /\ pc' = "carry" /\ UNCHANGED entry
    /\ UNCHANGED <<clock, stop_duration, start, late>>

\* while (mn >= 60).
Carry ==
    /\ pc = "carry"
    /\ \/ /\ mn >= Hour /\ UNCHANGED pc
          /\ mn' = mn - Hour
          /\ \/ hr < 23 /\ hr' = hr + 1 /\ UNCHANGED wraps
             \/ hr = 23 /\ hr' = 0 /\ wraps' = wraps + 1
       \/ mn < Hour /\ pc' = "add" /\ UNCHANGED entry
    /\ UNCHANGED <<clock, stop_duration, start, late>>

\* cronjobs_update.sh add.
AddEntry ==
    /\ Goto("add", "halted")
    /\ late' = (waited >= Due)
    /\ UNCHANGED <<clock, stop_duration, entry, start>>

\* The next minute begins; cron looks for entries with its hour and minute.
Tick ==
    /\ pc # "fired"
    /\ waited' = waited + 1
    /\ \/ now < Day - 1 /\ now' = now + 1 /\ UNCHANGED turns
       \/ now = Day - 1 /\ now' = 0 /\ turns' = turns + 1
    /\ pc' = IF pc = "halted" /\ now' = Target THEN "fired" ELSE pc
    /\ UNCHANGED <<stop_duration, entry, start, late>>

Next == ReadDuration \/ ReadClock \/ Borrow \/ Carry \/ AddEntry \/ Tick

Spec == Init /\ [][Next]_vars

-----------------------------------------------------------------------------
\* The deferred reboot comes exactly one minute more than the accepted duration
\* after compute_cron_time has read the clock, over midnight too and for the
\* longest duration, where the entry names the minute it is written in; and it
\* is never missed, unless the entry was added only after its minute.
InTime ==
    /\ pc = "borrow" => mn >= 0
    /\ pc = "fired" /\ ~late => waited = Due
    /\ pc = "halted" /\ ~late => waited < Due
=============================================================================
