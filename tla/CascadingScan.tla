---------------------------- MODULE CascadingScan ----------------------------
(***************************************************************************)
(* The cascading scan controller of src/scb/secureCodeBox/scanners/        *)
(* webapp-all/main_patched.py.  Worker threads of the server run /scan,    *)
(* /clear-scan, /reset and the page handler "/" (and their copies          *)
(* /cascading-*, which share the same globals); each started scan has a    *)
(* script process (run_cascading_manual.sh) and a reader thread            *)
(* read_output() that reads the GLOBAL current_process line by line and    *)
(* releases the lock in its finally block.                                 *)
(*                                                                         *)
(* Scans are numbered 1..MaxScans in the order they are started; NoScan    *)
(* (0) stands for None.  current_target always changes together with       *)
(* current_scan_name and is not kept; the output queue, zap_done and       *)
(* current_results_dir only feed read-only routes and are not kept either. *)
(***************************************************************************)
EXTENDS Naturals, FiniteSets

CONSTANTS
    Workers,        \* the server's worker threads
    MaxScans,       \* bound on the number of scans started
    ClientClears,   \* whether the client uses /clear-scan
    ClientResets    \* whether the client uses /reset

ASSUME ConstantsAssumption ==
    /\ MaxScans \in Nat \ {0}
    /\ ClientClears \in BOOLEAN
    /\ ClientResets \in BOOLEAN

\* The server runs a finite pool of worker threads.
ASSUME WorkersAssumption == IsFiniteSet(Workers)

NoScan == 0
Ids == 1..MaxScans

ProcStates == {"none", "running", "exited"}
\* read_output(): at the top of its loop (about to read current_process),
\* blocked in readline() on one process, in its finally block, finished.
ReaderStates == {"none", "top", "blocked", "finally", "done"}
PCs == {"idle", "scan_acquire", "scan_start", "clear_release", "index_clear"}

VARIABLES
    locked,           \* scan_in_progress.locked()
    currentScanName,  \* global current_scan_name
    currentProcess,   \* global current_process (the scan whose Popen it is)
    proc,             \* the script process of each scan
    reader,           \* the reader thread of each scan
    readFrom,         \* the process whose stdout a blocked reader waits on
    nextId,           \* the number the next scan gets
    myScan,           \* the local scan_name of each worker's /scan
    pc                \* each worker thread's step

vars == <<locked, currentScanName, currentProcess, proc, reader, readFrom,
          nextId, myScan, pc>>

Init ==
    /\ locked = FALSE
    /\ currentScanName = NoScan
    /\ currentProcess = NoScan
    /\ proc = [i \in Ids |-> "none"]
    /\ reader = [i \in Ids |-> "none"]
    /\ readFrom = [i \in Ids |-> NoScan]
    /\ nextId = 1
    /\ myScan = [t \in Workers |-> NoScan]
    /\ pc = [t \in Workers |-> "idle"]

\* `if scan_in_progress.locked(): scan_in_progress.release()`
ReleaseIfLocked == locked' = FALSE

\* current_process is not None and current_process.poll() is None
ProcessRunning ==
    currentProcess # NoScan /\ proc[currentProcess] = "running"

-----------------------------------------------------------------------------
(***************************************************************************)
(* POST /scan.                                                             *)
(***************************************************************************)

\* The requests past the check that may still take a scan number (the bound).
ScansInFlight == Cardinality({t \in Workers : pc[t] = "scan_acquire"})

\* The check `scan_in_progress.locked() or <process running>` passes; when
\* it fails the handler only renders an error page.
ScanCheck(t) ==
    /\ pc[t] = "idle"
    /\ nextId + ScansInFlight <= MaxScans
    /\ ~locked /\ ~ProcessRunning
    /\ pc' = [pc EXCEPT ![t] = "scan_acquire"]
    /\ UNCHANGED <<locked, currentScanName, currentProcess, proc, reader,
                   readFrom, nextId, myScan>>

\* The same check fails: the handler renders the "Scan in progress" page
\* and changes nothing.
ScanRejected(t) ==
    /\ pc[t] = "idle"
    /\ locked \/ ProcessRunning
    /\ UNCHANGED vars

\* Mutant: the result of acquire(blocking=False) is not looked at.
ScanAcquireIgnoreResult(t) ==
    /\ pc[t] = "scan_acquire"
    /\ locked' = TRUE
    /\ currentScanName' = nextId
    /\ myScan' = [myScan EXCEPT ![t] = nextId]
    /\ nextId' = nextId + 1
    /\ pc' = [pc EXCEPT ![t] = "scan_start"]
    /\ UNCHANGED <<currentProcess, proc, reader, readFrom>>

\* acquired = scan_in_progress.acquire(blocking=False); `if not acquired`
\* renders an error page.  Otherwise the scan gets its name
\* (cascading-scan-<time>), which becomes current_scan_name.
ScanAcquire(t) ==
    /\ pc[t] = "scan_acquire"
    /\ \/ /\ locked
          /\ pc' = [pc EXCEPT ![t] = "idle"]
          /\ UNCHANGED <<locked, currentScanName, nextId, myScan>>
       \/ /\ ~locked
          /\ locked' = TRUE
          /\ currentScanName' = nextId
          /\ myScan' = [myScan EXCEPT ![t] = nextId]
          /\ nextId' = nextId + 1
          /\ pc' = [pc EXCEPT ![t] = "scan_start"]
    /\ UNCHANGED <<currentProcess, proc, reader, readFrom>>

\* Popen starts the script, the reader thread is started and the page is
\* returned; or Popen raises and the except block releases the lock if it
\* is locked and clears the globals.
ScanStart(t) ==
    LET id == myScan[t] IN
    /\ pc[t] = "scan_start"
    /\ pc' = [pc EXCEPT ![t] = "idle"]
    /\ myScan' = [myScan EXCEPT ![t] = NoScan]
    /\ \/ /\ currentProcess' = id
          /\ proc' = [proc EXCEPT ![id] = "running"]
          /\ reader' = [reader EXCEPT ![id] = "top"]
          /\ UNCHANGED <<locked, currentScanName, readFrom, nextId>>
       \/ /\ ReleaseIfLocked
          /\ currentScanName' = NoScan
          /\ currentProcess' = NoScan
          /\ UNCHANGED <<proc, reader, readFrom, nextId>>

-----------------------------------------------------------------------------
(***************************************************************************)
(* read_output() of scan i and the script process.                         *)
(***************************************************************************)

\* Mutant: the reader does not notice that current_process became None.
ReaderTopNoNoneCheck(i) ==
    /\ reader[i] = "top"
    /\ reader' = [reader EXCEPT ![i] = "blocked"]
    /\ readFrom' = [readFrom EXCEPT ![i] = currentProcess]
    /\ UNCHANGED <<locked, currentScanName, currentProcess, proc, nextId, myScan, pc>>

\* `current_process.stdout.readline()`: the global is read anew on every
\* iteration; when it is None the AttributeError ends the loop.
ReaderTop(i) ==
    /\ reader[i] = "top"
    /\ IF currentProcess = NoScan
          THEN /\ reader' = [reader EXCEPT ![i] = "finally"]
               /\ UNCHANGED readFrom
          ELSE /\ reader' = [reader EXCEPT ![i] = "blocked"]
               /\ readFrom' = [readFrom EXCEPT ![i] = currentProcess]
    /\ UNCHANGED <<locked, currentScanName, currentProcess, proc, nextId, myScan, pc>>

\* readline() returns a line of a running script (it goes to the queue).
ReaderLine(i) ==
    /\ reader[i] = "blocked"
    /\ proc[readFrom[i]] = "running"
    /\ reader' = [reader EXCEPT ![i] = "top"]
    /\ UNCHANGED <<locked, currentScanName, currentProcess, proc, readFrom,
                   nextId, myScan, pc>>

\* Mutant: the loop breaks on `current_process is None` instead of poll().
ReaderEOFNoPoll(i) ==
    /\ reader[i] = "blocked"
    /\ proc[readFrom[i]] = "exited"
    /\ reader' = [reader EXCEPT ![i] =
                    IF currentProcess # NoScan THEN "top" ELSE "finally"]
    /\ UNCHANGED <<locked, currentScanName, currentProcess, proc, readFrom,
                   nextId, myScan, pc>>

\* readline() returns '' once the script has exited; the loop breaks only
\* if `current_process.poll() is not None` -- of the global process again.
ReaderEOF(i) ==
    /\ reader[i] = "blocked"
    /\ proc[readFrom[i]] = "exited"
    /\ reader' = [reader EXCEPT ![i] =
                    IF ProcessRunning THEN "top" ELSE "finally"]
    /\ UNCHANGED <<locked, currentScanName, currentProcess, proc, readFrom,
                   nextId, myScan, pc>>

\* Mutant: the finally block forgets to release the lock.
ReaderFinallyNoRelease(i) ==
    /\ reader[i] = "finally"
    /\ reader' = [reader EXCEPT ![i] = "done"]
    /\ UNCHANGED <<locked, currentScanName, currentProcess, proc, readFrom,
                   nextId, myScan, pc>>

\* finally: release the lock if it is locked; `current_scan_name = None`
\* and `current_target = None` assign locals of read_output (there is no
\* global declaration for them) and change nothing.
ReaderFinally(i) ==
    /\ reader[i] = "finally"
    /\ ReleaseIfLocked
    /\ reader' = [reader EXCEPT ![i] = "done"]
    /\ UNCHANGED <<currentScanName, currentProcess, proc, readFrom, nextId, myScan, pc>>

\* The script finishes, fails, or is killed from outside.
ProcExit(i) ==
    /\ proc[i] = "running"
    /\ proc' = [proc EXCEPT ![i] = "exited"]
    /\ UNCHANGED <<locked, currentScanName, currentProcess, reader, readFrom,
                   nextId, myScan, pc>>

-----------------------------------------------------------------------------
(***************************************************************************)
(* GET /clear-scan, GET /reset and the page handler GET /.                 *)
(***************************************************************************)

\* If current_process is set: terminate(), wait(timeout=5), kill() and
\* wait() -- the script is gone -- and `finally: current_process = None`.
\* join_output_thread() then waits at most 5 s for the reader: it changes
\* no state here, and the reader may finish before or after the rest.
ClearKill(t) ==
    /\ ClientClears
    /\ pc[t] = "idle"
    /\ IF currentProcess # NoScan
          THEN proc' = [proc EXCEPT ![currentProcess] = "exited"]
          ELSE UNCHANGED proc
    /\ currentProcess' = NoScan
    /\ pc' = [pc EXCEPT ![t] = "clear_release"]
    /\ UNCHANGED <<locked, currentScanName, reader, readFrom, nextId, myScan>>

\* Release the lock if locked, clear the queue and the globals, remove the
\* temporary files.
ClearRelease(t) ==
    /\ pc[t] = "clear_release"
    /\ ReleaseIfLocked
    /\ currentScanName' = NoScan
    /\ pc' = [pc EXCEPT ![t] = "idle"]
    /\ UNCHANGED <<currentProcess, proc, reader, readFrom, nextId, myScan>>

\* /reset: release the lock if locked and clear the globals; the script and
\* its reader are left running.
Reset(t) ==
    /\ ClientResets
    /\ pc[t] = "idle"
    /\ ReleaseIfLocked
    /\ currentScanName' = NoScan
    /\ UNCHANGED <<currentProcess, proc, reader, readFrom, nextId, myScan, pc>>

\* `in_progress = scan_in_progress.locked() and current_scan_name is not
\* None`; when not in progress and a name is set the state is "stale".
IndexCheck(t) ==
    /\ pc[t] = "idle"
    /\ ~(locked /\ currentScanName # NoScan)
    /\ currentScanName # NoScan
    /\ pc' = [pc EXCEPT ![t] = "index_clear"]
    /\ UNCHANGED <<locked, currentScanName, currentProcess, proc, reader,
                   readFrom, nextId, myScan>>

\* ... and it clears current_scan_name, current_target, current_results_dir.
IndexClear(t) ==
    /\ pc[t] = "index_clear"
    /\ currentScanName' = NoScan
    /\ pc' = [pc EXCEPT ![t] = "idle"]
    /\ UNCHANGED <<locked, currentProcess, proc, reader, readFrom, nextId, myScan>>

(***************************************************************************)
(* The /cascading-* routes are copies of the handlers above on the same    *)
(* globals; only the template they render differs.                         *)
(***************************************************************************)
CascadingIndexCheck(t) == IndexCheck(t)
CascadingIndexClear(t) == IndexClear(t)
CascadingScanCheck(t) == ScanCheck(t)
CascadingScanRejected(t) == ScanRejected(t)
CascadingScanAcquire(t) == ScanAcquire(t)
CascadingScanStart(t) == ScanStart(t)
CascadingClearKill(t) == ClearKill(t)
CascadingClearRelease(t) == ClearRelease(t)
CascadingReset(t) == Reset(t)

Worker(t) ==
    \/ ScanCheck(t) \/ ScanRejected(t) \/ ScanAcquire(t) \/ ScanStart(t)
    \/ ClearKill(t) \/ ClearRelease(t) \/ Reset(t)
    \/ IndexCheck(t) \/ IndexClear(t)
    \/ CascadingScanCheck(t) \/ CascadingScanRejected(t)
    \/ CascadingScanAcquire(t) \/ CascadingScanStart(t)
    \/ CascadingClearKill(t) \/ CascadingClearRelease(t) \/ CascadingReset(t)
    \/ CascadingIndexCheck(t) \/ CascadingIndexClear(t)

Alive(i) == reader[i] \in {"top", "blocked", "finally"}

\* The bound on scans is reached and everything has ended: the server only
\* serves read-only requests from here on.
BoundReached ==
    /\ nextId > MaxScans
    /\ \A t \in Workers : pc[t] = "idle"
    /\ \A i \in Ids : ~Alive(i) /\ proc[i] # "running"
    /\ UNCHANGED vars

Reader(i) ==
    ReaderTop(i) \/ ReaderLine(i) \/ ReaderEOF(i) \/ ReaderFinally(i)

Next ==
    \/ \E t \in Workers : Worker(t)
    \/ \E i \in Ids : Reader(i) \/ ProcExit(i)
    \/ BoundReached

Spec == Init /\ [][Next]_vars

(***************************************************************************)
(* A request that has started runs to its end (its worker thread is        *)
(* scheduled), a reader thread runs, and every script ends (the scanners   *)
(* it calls are bounded).  Starting a scan, clearing and loading the page  *)
(* are the user's choice and are not fair.                                 *)
(***************************************************************************)
Fairness ==
    /\ \A t \in Workers :
          /\ WF_vars(ScanAcquire(t) \/ ScanStart(t))
          /\ WF_vars(ClearRelease(t) \/ IndexClear(t))
    /\ \A i \in Ids : WF_vars(Reader(i)) /\ WF_vars(ProcExit(i))

FairSpec == Spec /\ Fairness

-----------------------------------------------------------------------------
(***************************************************************************)
(* Refinement.  The scan whose /scan holds scan_in_progress -- between the *)
(* acquire and Popen, then through its reader thread up to the finally     *)
(* block -- is the holder of CascadeSlot's slot; the script processes are  *)
(* its scripts.                                                            *)
(***************************************************************************)
Holder ==
    IF \E t \in Workers : pc[t] = "scan_start"
       THEN myScan[CHOOSE t \in Workers : pc[t] = "scan_start"]
    ELSE IF \E i \in Ids : Alive(i)
       THEN CHOOSE i \in Ids : Alive(i)
    ELSE NoScan

Slot == INSTANCE CascadeSlot WITH Scans <- Ids, Free <- NoScan,
                                   slot <- Holder, script <- proc

-----------------------------------------------------------------------------
(***************************************************************************)
(* Properties.                                                             *)
(***************************************************************************)

TypeOK ==
    /\ locked \in BOOLEAN
    /\ currentScanName \in Ids \cup {NoScan}
    /\ currentProcess \in Ids \cup {NoScan}
    /\ proc \in [Ids -> ProcStates]
    /\ reader \in [Ids -> ReaderStates]
    /\ readFrom \in [Ids -> Ids \cup {NoScan}]
    /\ nextId \in 1..(MaxScans + 1)
    /\ myScan \in [Workers -> Ids \cup {NoScan}]
    /\ pc \in [Workers -> PCs]
    /\ \A i \in Ids : reader[i] = "blocked" => readFrom[i] \in Ids

(***************************************************************************)
(* The gate of /scan (the lock check, the running-process check and the    *)
(* non-blocking acquire) lets at most one cascading script run at a time. *)
(***************************************************************************)
OneScript ==
    \A i, j \in Ids : proc[i] = "running" /\ proc[j] = "running" => i = j

(***************************************************************************)
(* The lock is held exactly while a /scan is starting its script or the    *)
(* reader thread of a scan has not finished: the reader's finally block    *)
(* releases the lock of its own scan, never of another.                    *)
(***************************************************************************)
GateTracksScan ==
    locked <=> \/ \E t \in Workers : pc[t] = "scan_start"
               \/ \E i \in Ids : Alive(i)

(***************************************************************************)
(* While a cascading script runs, scan_in_progress is held: the lock that  *)
(* /scan took for it is released by its own reader's finally block, after *)
(* the script is gone, and not by the reader of an earlier scan.           *)
(***************************************************************************)
LockedWhileScriptRuns ==
    \A i \in Ids : proc[i] = "running" => locked

(***************************************************************************)
(* Every reader thread that was started finishes: read_output() leaves its *)
(* loop once the global process has exited or is gone, even after /reset   *)
(* or /clear-scan switched current_process under it.                       *)
(***************************************************************************)
ReadersFinish ==
    \A i \in Ids : reader[i] = "top" ~> reader[i] = "done"

(***************************************************************************)
(* Once locked, the gate is free again: the script ends and its reader's   *)
(* finally block releases the lock.                                        *)
(***************************************************************************)
GateEventuallyFree == locked ~> ~locked

(***************************************************************************)
(* Without /clear-scan and /reset, the controller is a single slot: a scan *)
(* takes the lock, launches its script or gives up, and the lock is given  *)
(* back only by its own reader after the script has ended.                 *)
(***************************************************************************)
SlotSpec == Slot!SlotSpec

=============================================================================
