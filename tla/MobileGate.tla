----------------------------- MODULE MobileGate -----------------------------
(***************************************************************************)
(* The mobile scan gate of src/scb/secureCodeBox/scanners/webapp-all/      *)
(* main_patched.py: /mobile, /mobile-scan, /mobile-status and             *)
(* /mobile-reset share the lock mobile_scan_in_progress and the global     *)
(* mobile_current_scan_name, independently of the cascading controller    *)
(* but in the same server and served by the same worker threads.          *)
(*                                                                         *)
(* Unlike /scan, /mobile-scan takes the lock with a BLOCKING acquire()     *)
(* after its locked() check, so a request that passed the check while the *)
(* lock was free waits in acquire() and keeps its worker thread.          *)
(*                                                                         *)
(* Scans are numbered 1..MaxMobileScans in the order they are named        *)
(* (safe_mobile_scan_name appends the time; a name can only repeat within *)
(* one second, after a scan that created nothing).  NoMobileScan (0)       *)
(* stands for None.  mobile_current_scanner and mobile_current_target are *)
(* set and cleared together with the name and are not kept.  The names    *)
(* of this module carry the prefix Mobile so that it composes with        *)
(* CascadingScan.                                                          *)
(***************************************************************************)
EXTENDS Naturals, FiniteSets

CONSTANTS
    Workers,          \* the server's worker threads
    MaxMobileScans,   \* bound on the number of mobile scans named
    MobileResets      \* whether the client uses /mobile-reset

NoMobileScan == 0
MobileIds == 1..MaxMobileScans

MobileCrdStates == {"absent", "Running", "Done"}
MobilePCs == {"idle", "scan_acquire", "scan_named", "scan_create",
              "status_get", "status_release", "reset_release", "reset_clear",
              "index_clear"}

VARIABLES
    mobileLocked,   \* mobile_scan_in_progress.locked()
    mobileName,     \* global mobile_current_scan_name
    mobileCrd,      \* the Scan resource of each mobile scan in Kubernetes
    mobileNextId,   \* the number the next named scan gets
    mobileScan,     \* the local scan_name of each worker's /mobile-scan
    mobilePc        \* each worker thread's step in a mobile route

mobileVars == <<mobileLocked, mobileName, mobileCrd, mobileNextId,
                mobileScan, mobilePc>>

MobileInit ==
    /\ mobileLocked = FALSE
    /\ mobileName = NoMobileScan
    /\ mobileCrd = [i \in MobileIds |-> "absent"]
    /\ mobileNextId = 1
    /\ mobileScan = [t \in Workers |-> NoMobileScan]
    /\ mobilePc = [t \in Workers |-> "idle"]

\* threading.Lock.release(): unlocked afterwards; on an unlocked lock it
\* raises RuntimeError instead, with the same state.
MobileRelease == mobileLocked' = FALSE

\* Requests past the check that will still name a scan.
MobileScansInFlight ==
    Cardinality({t \in Workers : mobilePc[t] \in {"scan_acquire", "scan_named"}})

MobileGo(t, to) == mobilePc' = [mobilePc EXCEPT ![t] = to]

(***************************************************************************)
(* POST /mobile-scan                                                       *)
(***************************************************************************)

\* Mutant: the `if mobile_scan_in_progress.locked()` check is dropped.
MobileScanCheckNoLockedTest(t) ==
    /\ mobilePc[t] = "idle"
    /\ mobileNextId + MobileScansInFlight <= MaxMobileScans
    /\ MobileGo(t, "scan_acquire")
    /\ UNCHANGED <<mobileLocked, mobileName, mobileCrd, mobileNextId, mobileScan>>

\* `if mobile_scan_in_progress.locked(): return ... "Please wait"`.
MobileScanCheck(t) ==
    /\ mobilePc[t] = "idle"
    /\ mobileNextId + MobileScansInFlight <= MaxMobileScans
    /\ MobileGo(t, IF mobileLocked THEN "idle" ELSE "scan_acquire")
    /\ UNCHANGED <<mobileLocked, mobileName, mobileCrd, mobileNextId, mobileScan>>

\* `mobile_scan_in_progress.acquire()` waits until the lock is free.
MobileScanAcquire(t) ==
    /\ mobilePc[t] = "scan_acquire"
    /\ ~mobileLocked
    /\ mobileLocked' = TRUE
    /\ MobileGo(t, "scan_named")
    /\ UNCHANGED <<mobileName, mobileCrd, mobileNextId, mobileScan>>

\* Mutant: the create call is not handed the scan_name just made.
MobileScanSetNameNoLocal(t) ==
    /\ mobilePc[t] = "scan_named"
    /\ mobileName' = mobileNextId
    /\ mobileNextId' = mobileNextId + 1
    /\ \/ MobileGo(t, "scan_create") /\ UNCHANGED mobileLocked
       \/ MobileRelease /\ MobileGo(t, "idle")
    /\ UNCHANGED <<mobileCrd, mobileScan>>

(***************************************************************************)
(* The name is made and the globals set; then the scanner form field       *)
(* selects a Scan template (mobsf, semgrep, apkhunt) or, for any other     *)
(* value, the lock is released and an error page returned -- with the     *)
(* globals still naming the scan.                                          *)
(***************************************************************************)
MobileScanSetName(t) ==
    /\ mobilePc[t] = "scan_named"
    /\ mobileName' = mobileNextId
    /\ mobileNextId' = mobileNextId + 1
    /\ \/ /\ mobileScan' = [mobileScan EXCEPT ![t] = mobileNextId]
          /\ MobileGo(t, "scan_create")
          /\ UNCHANGED mobileLocked
       \/ /\ MobileRelease
          /\ MobileGo(t, "idle")
          /\ UNCHANGED mobileScan
    /\ UNCHANGED mobileCrd

\* create_namespaced_custom_object succeeds; the handler returns, locked.
MobileCrdCreated(t) ==
    /\ mobilePc[t] = "scan_create"
    /\ mobileCrd' = [mobileCrd EXCEPT ![mobileScan[t]] = "Running"]
    /\ mobileScan' = [mobileScan EXCEPT ![t] = NoMobileScan]
    /\ MobileGo(t, "idle")
    /\ UNCHANGED <<mobileLocked, mobileName, mobileNextId>>

\* The create call raises: its except block releases the lock.
MobileCrdCreateFailed(t) ==
    /\ mobilePc[t] = "scan_create"
    /\ MobileRelease
    /\ mobileScan' = [mobileScan EXCEPT ![t] = NoMobileScan]
    /\ MobileGo(t, "idle")
    /\ UNCHANGED <<mobileName, mobileCrd, mobileNextId>>

(***************************************************************************)
(* GET /mobile-status                                                      *)
(***************************************************************************)

\* `if not mobile_current_scan_name: return idle`.
MobileStatusCheck(t) ==
    /\ mobilePc[t] = "idle"
    /\ MobileGo(t, IF mobileName = NoMobileScan THEN "idle" ELSE "status_get")
    /\ UNCHANGED <<mobileLocked, mobileName, mobileCrd, mobileNextId, mobileScan>>

(***************************************************************************)
(* get_namespaced_custom_object(name=mobile_current_scan_name) reads the   *)
(* global again.  "Done" leads to the release; a running scan answers      *)
(* "running"; a cleared name or a scan with no resource raises and the    *)
(* except block answers "error".                                           *)
(***************************************************************************)
MobileStatusGet(t) ==
    /\ mobilePc[t] = "status_get"
    /\ MobileGo(t, IF mobileName # NoMobileScan /\ mobileCrd[mobileName] = "Done"
                     THEN "status_release" ELSE "idle")
    /\ UNCHANGED <<mobileLocked, mobileName, mobileCrd, mobileNextId, mobileScan>>

\* `mobile_scan_in_progress.release()`; on an unlocked lock the RuntimeError
\* is caught by the same except block.  The name is never cleared here.
MobileStatusRelease(t) ==
    /\ mobilePc[t] = "status_release"
    /\ MobileRelease
    /\ MobileGo(t, "idle")
    /\ UNCHANGED <<mobileName, mobileCrd, mobileNextId, mobileScan>>

(***************************************************************************)
(* GET /mobile-reset                                                       *)
(***************************************************************************)

\* `if mobile_scan_in_progress.locked():`
MobileResetCheck(t) ==
    /\ MobileResets
    /\ mobilePc[t] = "idle"
    /\ MobileGo(t, IF mobileLocked THEN "reset_release" ELSE "reset_clear")
    /\ UNCHANGED <<mobileLocked, mobileName, mobileCrd, mobileNextId, mobileScan>>

\* `release()`; an unlocked lock raises RuntimeError, uncaught: the request
\* fails before the globals are cleared.
MobileResetRelease(t) ==
    /\ mobilePc[t] = "reset_release"
    /\ MobileRelease
    /\ MobileGo(t, IF mobileLocked THEN "reset_clear" ELSE "idle")
    /\ UNCHANGED <<mobileName, mobileCrd, mobileNextId, mobileScan>>

MobileResetClear(t) ==
    /\ mobilePc[t] = "reset_clear"
    /\ mobileName' = NoMobileScan
    /\ MobileGo(t, "idle")
    /\ UNCHANGED <<mobileLocked, mobileCrd, mobileNextId, mobileScan>>

(***************************************************************************)
(* GET /mobile: in_progress is locked() and a name; without it, old state *)
(* is cleared -- in a later step than the check.                           *)
(***************************************************************************)
MobileIndexCheck(t) ==
    /\ mobilePc[t] = "idle"
    /\ LET inProgress == mobileLocked /\ mobileName # NoMobileScan
       IN  MobileGo(t, IF ~inProgress /\ mobileName # NoMobileScan
                          THEN "index_clear" ELSE "idle")
    /\ UNCHANGED <<mobileLocked, mobileName, mobileCrd, mobileNextId, mobileScan>>

MobileIndexClear(t) ==
    /\ mobilePc[t] = "index_clear"
    /\ mobileName' = NoMobileScan
    /\ MobileGo(t, "idle")
    /\ UNCHANGED <<mobileLocked, mobileCrd, mobileNextId, mobileScan>>

\* Environment: the secureCodeBox operator finishes a mobile scan.
MobileOperatorFinish(i) ==
    /\ mobileCrd[i] = "Running"
    /\ mobileCrd' = [mobileCrd EXCEPT ![i] = "Done"]
    /\ UNCHANGED <<mobileLocked, mobileName, mobileNextId, mobileScan, mobilePc>>

MobileWorker(t) ==
    \/ MobileScanCheck(t) \/ MobileScanAcquire(t) \/ MobileScanSetName(t)
    \/ MobileCrdCreated(t) \/ MobileCrdCreateFailed(t)
    \/ MobileStatusCheck(t) \/ MobileStatusGet(t) \/ MobileStatusRelease(t)
    \/ MobileResetCheck(t) \/ MobileResetRelease(t) \/ MobileResetClear(t)
    \/ MobileIndexCheck(t) \/ MobileIndexClear(t)

MobileNext ==
    \/ \E t \in Workers : MobileWorker(t)
    \/ \E i \in MobileIds : MobileOperatorFinish(i)

MobileSpec == MobileInit /\ [][MobileNext]_mobileVars

(***************************************************************************)
(* A request that has got past its first statement runs to its end; the   *)
(* page polls /mobile-status; the operator finishes every scan.  Starting *)
(* a scan, a reset or a page load is the user's choice.  A thread waiting  *)
(* in acquire() gets the lock when it stays free (weak fairness), not when *)
(* other threads keep taking it first: Python's Lock is not fair.          *)
(***************************************************************************)
MobileFairness ==
    /\ \A t \in Workers :
          /\ WF_mobileVars(MobileScanAcquire(t) \/ MobileScanSetName(t))
          /\ WF_mobileVars(MobileCrdCreated(t) \/ MobileCrdCreateFailed(t))
          /\ WF_mobileVars(MobileStatusCheck(t))
          /\ WF_mobileVars(MobileStatusGet(t) \/ MobileStatusRelease(t))
          /\ WF_mobileVars(MobileResetRelease(t) \/ MobileResetClear(t)
                              \/ MobileIndexClear(t))
    /\ \A i \in MobileIds : WF_mobileVars(MobileOperatorFinish(i))

-----------------------------------------------------------------------------
(***************************************************************************)
(* Properties.                                                             *)
(***************************************************************************)

\* Type invariant; a thread past the naming step holds its scan's number.
MobileTypeOK ==
    /\ mobileLocked \in BOOLEAN
    /\ mobileName \in MobileIds \cup {NoMobileScan}
    /\ mobileCrd \in [MobileIds -> MobileCrdStates]
    /\ mobileNextId \in 1..(MaxMobileScans + 1)
    /\ mobileScan \in [Workers -> MobileIds \cup {NoMobileScan}]
    /\ mobilePc \in [Workers -> MobilePCs]
    /\ \A t \in Workers : mobilePc[t] = "scan_create" => mobileScan[t] \in MobileIds

(***************************************************************************)
(* Once taken, the mobile gate is free again without /mobile-reset: the    *)
(* scan is created and finishes and the polled /mobile-status releases    *)
(* the lock, or the create fails and its except block releases it.         *)
(***************************************************************************)
MobileGateEventuallyFree == mobileLocked ~> ~mobileLocked

(***************************************************************************)
(* The blocking acquire() of /mobile-scan never ties up every worker      *)
(* thread: while the lock is held, some thread is not waiting in          *)
(* acquire() and can serve /mobile-status, the route that releases it.    *)
(* It rests on the locked() check before acquire(): the thread that took  *)
(* the lock returns, and cannot get past the check again while it is held. *)
(***************************************************************************)
MobileWaitersLeaveAWorker ==
    mobileLocked => \E t \in Workers : mobilePc[t] # "scan_acquire"

=============================================================================
