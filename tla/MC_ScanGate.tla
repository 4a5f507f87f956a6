---------------------------- MODULE MC_ScanGate ----------------------------
(***************************************************************************)
(* Model-checking instance of ScanGate: model values for threads and scan *)
(* names, and the symmetry of the scan names for the safety runs.         *)
(***************************************************************************)
EXTENDS ScanGate, TLC

CONSTANTS t1, t2, n1, n2

MCThreadsOne == {t1}
MCThreadsTwo == {t1, t2}
MCNames == {n1, n2}

\* Scan names are interchangeable: nothing in the handlers compares them
\* except for equality.
NameSymmetry == Permutations(MCNames)

=============================================================================
