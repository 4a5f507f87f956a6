-------------------------- MODULE MC_CascadingScan --------------------------
(***************************************************************************)
(* Small instances of CascadingScan: one to three worker threads and up to *)
(* four scans, enough for a scan to start while the reader of the one     *)
(* before it is still running.                                             *)
(***************************************************************************)
EXTENDS CascadingScan, TLC

CONSTANTS w1, w2, w3

MCWorkersOne == {w1}
MCWorkersTwo == {w1, w2}
MCWorkersThree == {w1, w2, w3}
WorkerSymmetryTwo == Permutations(MCWorkersTwo)
WorkerSymmetryThree == Permutations(MCWorkersThree)

=============================================================================
