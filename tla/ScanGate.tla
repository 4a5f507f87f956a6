------------------------------ MODULE ScanGate ------------------------------
(***************************************************************************)
(* The "one scan at a time" gate of the web front end                     *)
(* src/scb/secureCodeBox/scanners/webapp-all/main.py.                      *)
(*                                                                         *)
(* FastAPI runs every plain `def` route in a worker thread of its thread  *)
(* pool, so the handlers /scan, /status and /reset interleave statement by *)
(* statement on the shared globals `scan_in_progress` (a                  *)
(* threading.Lock, which any thread may release) and `current_scan_name`. *)
(* Each worker thread is a process of this module; a request is a short   *)
(* sequence of steps, split where the code reads shared state and acts    *)
(* on it later.  The secureCodeBox operator, which moves a Scan custom     *)
(* resource from running to "Done", is the environment.                    *)
(*                                                                         *)
(* Data is abstracted: a scan name is a member of Names (the timestamped   *)
(* name the code builds can repeat within one second, so a request may    *)
(* pick a name already used), and the scanner form field only matters     *)
(* through the branch it selects: the "tlsx-script" subprocess or a Scan   *)
(* resource.                                                               *)
(***************************************************************************)
EXTENDS FiniteSets

CONSTANTS
    Threads,    \* worker threads of the server's thread pool
    Names,      \* scan names safe_scan_name can return
    ScanKinds,  \* branches of scan(): "script" (tlsx-script) or "crd"
    ClientResets, \* whether the client ever calls /reset
    None        \* Python's None

ASSUME ConstantsAssumption ==
    /\ None \notin Names
    /\ ScanKinds \subseteq {"script", "crd"}
    /\ ClientResets \in BOOLEAN

VARIABLES
    locked,           \* scan_in_progress.locked()
    currentScanName,  \* the global current_scan_name
    crd,              \* state of the Scan resource of each name in Kubernetes
    pc,               \* the step each worker thread is at
    kind,             \* per thread: branch its scan request takes
    name,             \* per thread: scan_name of a scan, or the name a status read
    abandoned         \* history: scans still running when /reset forgot them

vars == <<locked, currentScanName, crd, pc, kind, name, abandoned>>

CrdStates == {"absent", "Running", "Done"}

PCs == {"idle", "scan_acquire", "scan_named", "script_run", "crd_create",
        "status_get", "status_release", "reset_release", "reset_clear"}

RunningScans == {n \in Names : crd[n] = "Running"}

Init ==
    /\ locked = FALSE
    /\ currentScanName = None
    /\ crd = [n \in Names |-> "absent"]
    /\ pc = [t \in Threads |-> "idle"]
    /\ kind = [t \in Threads |-> "crd"]
    /\ name = [t \in Threads |-> None]
    /\ abandoned = {}

(***************************************************************************)
(* threading.Lock.release(): the lock ends up unlocked either way; on an  *)
(* unlocked lock it raises RuntimeError, which the callers below turn     *)
(* into an aborted handler.                                                *)
(***************************************************************************)
Release == locked' = FALSE

(***************************************************************************)
(* POST /scan                                                             *)
(***************************************************************************)

\* `if scan_in_progress.locked(): return ... "Scan in progress."`
ScanRequest(t) ==
    /\ pc[t] = "idle"
    /\ \E k \in ScanKinds : kind' = [kind EXCEPT ![t] = k]
    /\ pc' = [pc EXCEPT ![t] = IF locked THEN "idle" ELSE "scan_acquire"]
    /\ UNCHANGED <<locked, currentScanName, crd, name, abandoned>>

\* `scan_in_progress.acquire()`: blocks while another thread holds the lock.
ScanAcquire(t) ==
    /\ pc[t] = "scan_acquire"
    /\ ~locked
    /\ locked' = TRUE
    /\ pc' = [pc EXCEPT ![t] = "scan_named"]
    /\ UNCHANGED <<currentScanName, crd, kind, name, abandoned>>

\* `scan_name = safe_scan_name(...)`, then the globals are set.
ScanSetName(t) ==
    /\ pc[t] = "scan_named"
    /\ \E n \in Names :
          /\ currentScanName' = n
          /\ name' = [name EXCEPT ![t] = n]
    /\ pc' = [pc EXCEPT ![t] = IF kind[t] = "script" THEN "script_run"
                                                     ELSE "crd_create"]
    /\ UNCHANGED <<locked, crd, kind, abandoned>>

(***************************************************************************)
(* The tlsx-script branch: subprocess.run of run_tlsx_scan.sh.  A nonzero  *)
(* exit or an exception releases the lock; success returns with the lock  *)
(* still held.                                                             *)
(***************************************************************************)
ScriptFinish(t) ==
    /\ pc[t] = "script_run"
    /\ \E succeeded \in BOOLEAN :
          IF succeeded THEN UNCHANGED locked ELSE Release
    /\ pc' = [pc EXCEPT ![t] = "idle"]
    /\ UNCHANGED <<currentScanName, crd, kind, name, abandoned>>

\* create_namespaced_custom_object succeeds: the Scan resource now exists.
CrdCreated(t) ==
    /\ pc[t] = "crd_create"
    /\ crd[name[t]] = "absent"
    /\ crd' = [crd EXCEPT ![name[t]] = "Running"]
    /\ pc' = [pc EXCEPT ![t] = "idle"]
    /\ UNCHANGED <<locked, currentScanName, kind, name, abandoned>>

\* Mutant: the except branch forgets `scan_in_progress.release()`.
CrdCreateFailedNoRelease(t) ==
    /\ pc[t] = "crd_create"
    /\ pc' = [pc EXCEPT ![t] = "idle"]
    /\ UNCHANGED <<locked, currentScanName, crd, kind, name, abandoned>>

\* The create call raises (the name is taken, or the API fails): release.
CrdCreateFailed(t) ==
    /\ pc[t] = "crd_create"
    /\ Release
    /\ pc' = [pc EXCEPT ![t] = "idle"]
    /\ UNCHANGED <<currentScanName, crd, kind, name, abandoned>>

(***************************************************************************)
(* GET /status                                                            *)
(***************************************************************************)

\* Mutant: the `if not current_scan_name` early return is missing.
StatusRequestNoIdleCheck(t) ==
    /\ pc[t] = "idle"
    /\ name' = [name EXCEPT ![t] = currentScanName]
    /\ pc' = [pc EXCEPT ![t] = "status_get"]
    /\ UNCHANGED <<locked, currentScanName, crd, kind, abandoned>>

\* `if not current_scan_name: return idle`; otherwise the name is read.
StatusRequest(t) ==
    /\ pc[t] = "idle"
    /\ name' = [name EXCEPT ![t] = currentScanName]
    /\ pc' = [pc EXCEPT ![t] = IF currentScanName = None THEN "idle"
                                                         ELSE "status_get"]
    /\ UNCHANGED <<locked, currentScanName, crd, kind, abandoned>>

(***************************************************************************)
(* get_namespaced_custom_object answers: "Done" leads to the release; a   *)
(* running scan returns "running" and a missing one raises ("error").     *)
(***************************************************************************)
\* Mutant: any answer of the API call leads to the release.
StatusGetAnyState(t) ==
    /\ pc[t] = "status_get"
    /\ pc' = [pc EXCEPT ![t] = "status_release"]
    /\ UNCHANGED <<locked, currentScanName, crd, kind, name, abandoned>>

StatusGet(t) ==
    /\ pc[t] = "status_get"
    /\ pc' = [pc EXCEPT ![t] = IF crd[name[t]] = "Done" THEN "status_release"
                                                         ELSE "idle"]
    /\ UNCHANGED <<locked, currentScanName, crd, kind, name, abandoned>>

\* The Kubernetes API call itself fails: `{"status": "error"}`.
StatusGetFailed(t) ==
    /\ pc[t] = "status_get"
    /\ pc' = [pc EXCEPT ![t] = "idle"]
    /\ UNCHANGED <<locked, currentScanName, crd, kind, name, abandoned>>

\* `scan_in_progress.release(); return {"status": "done"}`
StatusRelease(t) ==
    /\ pc[t] = "status_release"
    /\ Release
    /\ pc' = [pc EXCEPT ![t] = "idle"]
    /\ UNCHANGED <<currentScanName, crd, kind, name, abandoned>>

(***************************************************************************)
(* GET /reset                                                             *)
(***************************************************************************)

\* `if scan_in_progress.locked():`
ResetRequest(t) ==
    /\ ClientResets
    /\ pc[t] = "idle"
    /\ pc' = [pc EXCEPT ![t] = IF locked THEN "reset_release" ELSE "reset_clear"]
    /\ UNCHANGED <<locked, currentScanName, crd, kind, name, abandoned>>

\* `scan_in_progress.release()`; a RuntimeError aborts the handler.
ResetRelease(t) ==
    /\ pc[t] = "reset_release"
    /\ Release
    /\ pc' = [pc EXCEPT ![t] = IF locked THEN "reset_clear" ELSE "idle"]
    /\ UNCHANGED <<currentScanName, crd, kind, name, abandoned>>

\* The globals are cleared; scans still running are no longer tracked.
ResetClear(t) ==
    /\ pc[t] = "reset_clear"
    /\ currentScanName' = None
    /\ abandoned' = abandoned \cup RunningScans
    /\ pc' = [pc EXCEPT ![t] = "idle"]
    /\ UNCHANGED <<locked, crd, kind, name>>

(***************************************************************************)
(* Environment: the operator finishes a scan.                             *)
(***************************************************************************)
OperatorFinish(n) ==
    /\ crd[n] = "Running"
    /\ crd' = [crd EXCEPT ![n] = "Done"]
    /\ UNCHANGED <<locked, currentScanName, pc, kind, name, abandoned>>

Thread(t) ==
    \/ ScanRequest(t) \/ ScanAcquire(t) \/ ScanSetName(t)
    \/ ScriptFinish(t) \/ CrdCreated(t) \/ CrdCreateFailed(t)
    \/ StatusRequest(t) \/ StatusGet(t) \/ StatusGetFailed(t) \/ StatusRelease(t)
    \/ ResetRequest(t) \/ ResetRelease(t) \/ ResetClear(t)

Next ==
    \/ \E t \in Threads : Thread(t)
    \/ \E n \in Names : OperatorFinish(n)

(***************************************************************************)
(* Fairness.  A request that has started runs to completion (the thread   *)
(* pool schedules its thread), the page keeps polling /status, the        *)
(* Kubernetes API does not fail forever, and the operator finishes every  *)
(* scan.  Starting a scan or a reset is the user's choice and is not fair. *)
(***************************************************************************)
Fairness ==
    /\ \A t \in Threads :
          /\ WF_vars(ScanAcquire(t) \/ ScanSetName(t) \/ ScriptFinish(t))
          /\ WF_vars(CrdCreated(t) \/ CrdCreateFailed(t))
          /\ WF_vars(StatusRequest(t))
          /\ SF_vars(StatusGet(t))
          /\ WF_vars(StatusRelease(t) \/ ResetRelease(t) \/ ResetClear(t))
    /\ \A n \in Names : WF_vars(OperatorFinish(n))

Spec == Init /\ [][Next]_vars

FairSpec == Spec /\ Fairness

-----------------------------------------------------------------------------
(***************************************************************************)
(* Properties                                                              *)
(***************************************************************************)

\* Type invariant; a status or create step in flight always names a scan.
TypeOK ==
    /\ locked \in BOOLEAN
    /\ currentScanName \in Names \cup {None}
    /\ crd \in [Names -> CrdStates]
    /\ pc \in [Threads -> PCs]
    /\ kind \in [Threads -> ScanKinds \cup {"crd"}]
    /\ name \in [Threads -> Names \cup {None}]
    /\ abandoned \subseteq Names
    /\ \A t \in Threads :
          pc[t] \in {"script_run", "crd_create", "status_get", "status_release"}
             => name[t] \in Names

(***************************************************************************)
(* The gate admits one scan at a time (spec.md, Design Notes: "a          *)
(* single-slot mutual-exclusion gate over at most one active scan"): a     *)
(* Scan resource still running is the current scan, unless /reset         *)
(* explicitly forgot it.  Breaking it takes a scan, its completion, a     *)
(* /status release and a second scan in the wrong order.                  *)
(***************************************************************************)
SingleActiveScan ==
    \A n \in RunningScans : n = currentScanName \/ n \in abandoned

(***************************************************************************)
(* /status and /reset release the lock only while it is held: releasing  *)
(* an unlocked threading.Lock raises RuntimeError and the request fails.  *)
(***************************************************************************)
ReleaseOnlyHeld ==
    \A t \in Threads : pc[t] \in {"status_release", "reset_release"} => locked

(***************************************************************************)
(* Once taken, the gate is eventually free again without the user        *)
(* resetting it: the scan page reports the scan finished, so a new one    *)
(* can be started.                                                         *)
(***************************************************************************)
GateEventuallyFree == locked ~> ~locked

(***************************************************************************)
(* The lock a /scan took for a Scan resource is given back: once the       *)
(* create call is under way, the operator finishing the scan, the page     *)
(* polling /status (or the create failing) frees the gate.  Unlike         *)
(* GateEventuallyFree this says nothing of the tlsx-script branch.         *)
(***************************************************************************)
ScanResourceReleased ==
    \A t \in Threads : pc[t] = "crd_create" ~> ~locked

=============================================================================
