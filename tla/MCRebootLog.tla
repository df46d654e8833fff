---------------------------- MODULE MCRebootLog ----------------------------
(***************************************************************************)
(* Three requests, the second one in the name of HAL_SYS_Reboot, over four *)
(* boots: enough for a backup that find_previous_reboot_log overlooks.     *)
(***************************************************************************)
EXTENDS RebootLogTests
=============================================================================
