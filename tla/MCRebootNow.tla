---------------------------- MODULE MCRebootNow ----------------------------
(***************************************************************************)
(* RebootNow for TLC: the cron entry's cause, an ordinary one, a           *)
(* maintenance one, and one with a quote in its text, which the records    *)
(* give back as the ordinary one's.                                        *)
(***************************************************************************)
EXTENDS RebootNow

CONSTANTS app, maint, quoted, cyclic

MCCauses      == {app, maint, quoted, cyclic}
MCMaintenance == {maint}
MCReadBack    == [c \in MCCauses |-> IF c = quoted THEN app ELSE c]

\* The liveness run: two causes, both given back by the records.
LiveCauses   == {app, cyclic}
LiveReadBack == [c \in LiveCauses |-> c]
NoCauses     == {}
=============================================================================
