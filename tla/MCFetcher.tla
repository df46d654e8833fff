----------------------------- MODULE MCFetcher -----------------------------
(***************************************************************************)
(* Fetcher for TLC: two overlapping invocations and two causes.            *)
(***************************************************************************)
EXTENDS Fetcher, TLC

CONSTANTS f1, f2, c1, c2

MCInstances == {f1, f2}
MCCauses    == {c1, c2}

Symmetry == Permutations(MCInstances) \cup Permutations(MCCauses)
=============================================================================
