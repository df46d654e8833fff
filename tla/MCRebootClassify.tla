-------------------------- MODULE MCRebootClassify --------------------------
(***************************************************************************)
(* RebootClassify for TLC: every name that the script knows as the only    *)
(* one in the register, and lines with more names, none and unknown ones.  *)
(***************************************************************************)
EXTENDS RebootClassifyTests

MCRegisters ==
    {NoRegister}
    \cup {<<name>> : name \in KnownNames}
    \cup {<<NoName>>, <<NoName, Software>>, <<Unknown>>, <<<<"UNKNOWN", "RESET">>>>,
          <<<<"WARM">>>>, <<FwFailure>>, <<HardPower>>, <<<<"FRONT", "PANEL", "RESET">>>>,
          <<<<"GEN", "WATCHDOG", "RESET">>>>,
          <<PowerOn, Software>>, <<Software, PowerOn>>}

\* All from the library, all from the file, and a file that names the device
\* before it gives its type.
MCSources ==
    {[given |-> Properties, file |-> <<"SOC", "RDK_PROFILE", "DEVICE_TYPE", "DEVICE_NAME">>],
     [given |-> {}, file |-> <<"SOC", "RDK_PROFILE", "DEVICE_TYPE", "DEVICE_NAME">>],
     [given |-> {"SOC"}, file |-> <<"DEVICE_NAME", "SOC", "RDK_PROFILE", "DEVICE_TYPE">>]}
=============================================================================
