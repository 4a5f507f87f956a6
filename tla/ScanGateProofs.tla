--------------------------- MODULE ScanGateProofs ---------------------------
(***************************************************************************)
(* Proofs about the scan gate of webapp-all/main.py (module ScanGate).    *)
(***************************************************************************)
EXTENDS ScanGate, TLAPS

(***************************************************************************)
(* Each step keeps TypeOK.                                                  *)
(***************************************************************************)
LEMMA TypeOKStep == TypeOK /\ [Next]_vars => TypeOK'
<1> SUFFICES ASSUME TypeOK, [Next]_vars PROVE TypeOK'
  OBVIOUS
<1>1. ASSUME NEW t \in Threads, ScanRequest(t) PROVE TypeOK'
  BY <1>1 DEF ScanRequest, TypeOK, PCs
<1>2. ASSUME NEW t \in Threads, ScanAcquire(t) PROVE TypeOK'
  BY <1>2 DEF ScanAcquire, TypeOK, PCs
<1>3. ASSUME NEW t \in Threads, ScanSetName(t) PROVE TypeOK'
  BY <1>3 DEF ScanSetName, TypeOK, PCs
<1>4. ASSUME NEW t \in Threads, ScriptFinish(t) PROVE TypeOK'
  BY <1>4 DEF ScriptFinish, Release, TypeOK, PCs
<1>5. ASSUME NEW t \in Threads, CrdCreated(t) PROVE TypeOK'
  BY <1>5 DEF CrdCreated, TypeOK, PCs, CrdStates
<1>6. ASSUME NEW t \in Threads, CrdCreateFailed(t) PROVE TypeOK'
  BY <1>6 DEF CrdCreateFailed, Release, TypeOK, PCs
<1>7. ASSUME NEW t \in Threads, StatusRequest(t) PROVE TypeOK'
  BY <1>7 DEF StatusRequest, TypeOK, PCs
<1>8. ASSUME NEW t \in Threads, StatusGet(t) PROVE TypeOK'
  BY <1>8 DEF StatusGet, TypeOK, PCs
<1>9. ASSUME NEW t \in Threads, StatusGetFailed(t) PROVE TypeOK'
  BY <1>9 DEF StatusGetFailed, TypeOK, PCs
<1>10. ASSUME NEW t \in Threads, StatusRelease(t) PROVE TypeOK'
  BY <1>10 DEF StatusRelease, Release, TypeOK, PCs
<1>11. ASSUME NEW t \in Threads, ResetRequest(t) PROVE TypeOK'
  BY <1>11 DEF ResetRequest, TypeOK, PCs
<1>12. ASSUME NEW t \in Threads, ResetRelease(t) PROVE TypeOK'
  BY <1>12 DEF ResetRelease, Release, TypeOK, PCs
<1>13. ASSUME NEW t \in Threads, ResetClear(t) PROVE TypeOK'
  BY <1>13 DEF ResetClear, RunningScans, TypeOK, PCs
<1>14. ASSUME NEW n \in Names, OperatorFinish(n) PROVE TypeOK'
  BY <1>14 DEF OperatorFinish, TypeOK, CrdStates
<1>15. CASE UNCHANGED vars
  BY <1>15 DEF vars, TypeOK
<1>16. QED
  BY <1>1, <1>2, <1>3, <1>4, <1>5, <1>6, <1>7, <1>8, <1>9, <1>10, <1>11,
     <1>12, <1>13, <1>14, <1>15 DEF Next, Thread

(***************************************************************************)
(* Every handler step keeps the variables in their types: the lock is a   *)
(* flag, current_scan_name a scan name or None, and a /status or create   *)
(* step in flight holds a scan name, never None, for every number of      *)
(* threads and names.                                                      *)
(***************************************************************************)
THEOREM TypeCorrect == Spec => []TypeOK
<1>1. Init => TypeOK
  BY ConstantsAssumption DEF Init, TypeOK, CrdStates, PCs
<1>2. TypeOK /\ [Next]_vars => TypeOK'
  BY TypeOKStep
<1>3. QED
  BY <1>1, <1>2, PTL DEF Spec


=============================================================================
