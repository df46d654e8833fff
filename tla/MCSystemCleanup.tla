---------------------------- MODULE MCSystemCleanup ----------------------------
(***************************************************************************)
(* A device with a log that is copied and a file that is not, an           *)
(* application of two levels beside a plain file, and three services.      *)
(***************************************************************************)
EXTENDS SystemCleanup

MCBelow == [e \in Entries |-> CASE e = "app"  -> {"lib", "run"}
                                [] e = "lib"  -> {"so"}
                                [] OTHER      -> {}]

MCImages == {<<"A">>, <<"B">>, <<"A", NewLine>>, <<"A", ".bin", NewLine>>, <<"B", NewLine>>}

MCServices == <<"btmgr", "bt", "syslog-ng">>

\* A full device, one that keeps its logs in one place, one whose kill switch
\* is on, and one that has just been upgraded or not.
MCEnvironments ==
    {{"persistent", "temp", "log", "systime", "bluetooth"},
     {"persistent", "temp", "log", "same"},
     {"persistent", "temp", "log", "systime", "killSwitch"},
     {"manifest"}}
=============================================================================
