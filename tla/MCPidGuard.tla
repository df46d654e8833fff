----------------------------- MODULE MCPidGuard -----------------------------
(***************************************************************************)
(* PidGuard for TLC: three instances and as many inodes, so that each      *)
(* instance can hold another file than the one the path names.             *)
(***************************************************************************)
EXTENDS PidGuard, TLC

CONSTANTS p1, p2, p3, i1, i2, i3

MCPids   == {p1, p2, p3}
MCInodes == {i1, i2, i3}

Symmetry == Permutations(MCPids) \cup Permutations(MCInodes)
=============================================================================
