# Verification project for SCB (secureCodeBox scanner front ends)

TLA+ models of the Python code under `src/scb/secureCodeBox/scanners/`,
TLC configurations that check them on small instances, and TLAPS proofs.

## 1. Inventory

### The system's parts

| Part | Source | State it keeps | Operations |
|---|---|---|---|
| Scan gate of the multi-scanner web app | `webapp-all/main.py` | `scan_in_progress` (a `threading.Lock`), `current_scan_name`, `current_scanner`, `current_target`; the Scan custom resources in Kubernetes | `POST /scan` (tlsx-script subprocess or Scan resource), `GET /status`, `GET /reset`, `GET /` (reads), `POST /download` (reads MinIO), `GET /debug` (reads) |
| Cascading scan controller | `webapp-all/main_patched.py` (and its older copy `webapp-all_safe_backup_20250728_102446/main_patched.py`) | the same lock and names, `current_process` (a `subprocess.Popen`), `output_thread`, `output_queue`, `zap_done`, `current_results_dir` | `POST /scan` (non-blocking acquire, starts `run_cascading_manual.sh`), the `read_output` reader thread, `/clear-scan`, `/reset`, `/` (clears stale state), `/status`, `/scan-status`, `/zap-ready`, `/stream-output`, and the `/cascading-*` copies |
| Mobile scan gate | `webapp-all/main_patched.py` lines 1593-1809 | `mobile_scan_in_progress` lock, `mobile_current_scan_name`, scanner, target | `/mobile` (clears stale state), `/mobile-scan`, `/mobile-status`, `/mobile-download`, `/mobile-reset` |
| Result discovery and downloads | `webapp-all/main_patched.py` | none of its own: reads the MinIO bucket | `discover_scanner_files` (classifies keys by substring), `/list-*`, `/download-*` |
| MobSF upload web app | `mobsf/webapp/main.py` | `scan_in_progress` lock, `current_scan_name`, `current_filename` | `/upload` (async, on the event loop), `/scan`, `/status`, `/download` |
| MobSF findings parser | `mobsf/parser/mobsf_parser.py` | none (one process run) | fetch or read stdin, empty check, JSON parse, normalise certificate and manifest findings, PUT or print |
| MobSF scanner wrapper | `mobsf/scanner/mobsf_wrapper.py` | none | download the APK, upload/scan/report calls to MobSF, write `result.json` |

### How they interact

The web apps are FastAPI servers. Every route written as a plain `def` runs
in a worker thread of the server's thread pool, so `/scan`, `/status`,
`/reset` and the page handler of one app run concurrently and share the
module globals. The lock is a `threading.Lock`: it has no owner, so any
handler may release it. A scan is either a subprocess started by the
handler (tlsx-script, the cascading script) or a Scan custom resource created
through the Kubernetes API. The secureCodeBox operator runs that resource,
marks it `Done`, and the parser (`mobsf_parser.py`, run by the operator as
the parse step) turns the raw MobSF report into findings in MinIO, which the
download routes serve.

### What is hard

* Check-then-act on shared globals across worker threads: `locked()` then
  `acquire()`; `locked()` then `release()`; reading `current_scan_name` before
  a Kubernetes call and releasing after it.
* A lock that any thread may release, released by request handlers
  (`/status`, `/reset`) rather than by the thread that took it.
* Error paths that leave the lock held (the tlsx-script success path, a
  `sys.exit` in `load_kube`, a create call outside any `try`) or release an
  unlocked one (a second `/status`).
* In the cascading controller: a background reader thread that reads the
  global `current_process`, releases the lock in its `finally`, and whose
  attempt to clear the globals only assigns locals; `/clear-scan`'s
  terminate with a 5 s join timeout.
* In the parser: sections that are `null` or not objects, tuples of the
  wrong length, a severity that is not a string.

### What makes each part correct

* Scan gates: at most one scan runs at a time unless the user explicitly
  reset the gate; the lock is only released while held; the gate is freed
  again once the scan ends; the page's notion of "scan in progress" matches
  the lock and the running scan.
* Cascading controller: at most one cascading script runs at a time; once
  the script has exited the gate is free and `/status` says idle; an old
  reader thread never acts on a newer scan.
* Parser: certificate findings first then manifest findings, each in input
  order; every severity mapped into the five canonical levels; exit codes
  and output channels as in spec.md section 6.

## 2. Modules

| Module | Models | Used by |
|---|---|---|
| `ScanGate` | the gate of `webapp-all/main.py` | `MC_ScanGate`, `ScanGateProofs` |
| `CascadingScan` | the cascading controller of `webapp-all/main_patched.py`, with its reader threads and script processes | `MC_CascadingScan`, `MC_PatchedServer`, `CascadingScanProofs` |
| `CascadeSlot` | what the controller promises: one slot, no threads | `CascadingScan` (INSTANCE ... WITH) |
| `MobileGate` | the mobile routes of `webapp-all/main_patched.py` | `MobileGateProofs`, which `MC_PatchedServer` INSTANCEs as `Mobile` |
| `MC_PatchedServer` | the whole `main_patched.py` server: both components over one worker pool | runs `patched_server`, `mobile_index_lockout`; `PatchedServerProofs` |
| `ResultFiles` | `discover_scanner_files` and the result listing and download routes | `MC_ResultFiles` |
| `MobsfParser` | `mobsf/parser/mobsf_parser.py` | `MC_MobsfParser`, `MobsfParserProofs` |

Worker threads are the processes of every server model: FastAPI runs each
plain `def` route in a thread of its pool, so any two requests interleave at
every access to a module global, and the handler steps are cut exactly
there. A `threading.Lock` has no owner; `release()` on an unlocked lock
raises RuntimeError, which the model treats as the handler's exception path.

## 3. `ScanGate`: the gate of `webapp-all/main.py`

State (module `ScanGate`):

| Variable | Code |
|---|---|
| `locked` | `scan_in_progress.locked()` |
| `currentScanName` | global `current_scan_name` (None = the model value `None`) |
| `crd` | each Scan resource: `absent`, `Running`, `Done` |
| `pc`, `kind`, `name` | per worker thread: the step it is at, the branch of its `/scan`, and the local `scan_name` (of a scan) or the name a `/status` read |
| `abandoned` | history only: scans still running when `/reset` cleared the globals |

Actions: `/scan` is `ScanRequest` (the `locked()` check), `ScanAcquire`
(the blocking `acquire()`), `ScanSetName` (name and globals), then
`ScriptFinish` (tlsx-script: success keeps the lock, failure or an exception
releases it) or `CrdCreated` / `CrdCreateFailed`. `/status` is
`StatusRequest` (the None check and the read of the name), `StatusGet` /
`StatusGetFailed` (the Kubernetes call), `StatusRelease`. `/reset` is
`ResetRequest`, `ResetRelease`, `ResetClear`. `OperatorFinish` is the
environment. Releasing an unlocked lock leaves it unlocked and raises
RuntimeError, which aborts the handler (`ResetRelease` then skips the
clearing). Scan names are model values; any name may be picked again, which
stands for the one-second resolution of the timestamp in `safe_scan_name`.
`ClientResets` says whether the client calls `/reset` at all.

Properties: `TypeOK`; `SingleActiveScan` (every running Scan resource is
the current one or one `/reset` forgot); `ReleaseOnlyHeld` (a handler about
to release finds the lock held); `GateEventuallyFree` (`locked ~> ~locked`).

Fairness (`FairSpec`): a request that has started runs to completion (WF on
each handler step; its worker thread is scheduled), the page keeps polling
`/status` (WF on `StatusRequest`), the Kubernetes API does not fail forever
(SF on `StatusGet`, which a transient failure disables), the operator
finishes every scan (WF on `OperatorFinish`). Starting a scan and `/reset`
are the user's choice and are not fair.

### Runs

| Run | Config | Expect | Shows |
|---|---|---|---|
| gate_single_client | `ScanGate_single.cfg` | pass | one thread, both branches, with reset, under `FairSpec`: `TypeOK`, `SingleActiveScan`, and `ScanResourceReleased` (the lock taken for a Scan resource is given back) |
| gate_concurrent_status | `ScanGate_concurrent.cfg` | violation | two threads, no reset: two polls of a finished scan; the second releases the next scan's lock and a third scan starts beside it |
| gate_script_release | `ScanGate_script.cfg` | violation | the tlsx-script success path returns with the lock held forever (`GateEventuallyFree`) |
| gate_double_release | `ScanGate_release.cfg` | violation | a second `/status` after done releases an unlocked lock; the RuntimeError is caught and the poll answers `{"status": "error"}` instead of done |

The violation runs are the findings in `PROJECT.json`. The passing runs use
a single worker thread because with two threads the gate's exclusion fails,
as the violation runs show; they show that the sequential protocol is right
and the failures are races.

### Proofs (`ScanGateProofs`)

* `TypeCorrect`: `Spec => []TypeOK` for any threads and names, from the
  lemma `TypeOKStep` (one step per action).
* No theorem states `SingleActiveScan`. It holds only with one worker
  thread (run `gate_single_client`), and FastAPI serves these routes from a
  pool of threads; with two, `gate_concurrent_status` refutes it. A proof
  under `Threads = {T}` would rest on a hypothesis the server does not meet.

Only model-checked: `GateEventuallyFree` (liveness is out of the prover's
reach), and everything about two or more threads.

## 4. `CascadingScan` and `CascadeSlot`: `webapp-all/main_patched.py`

| Variable | Code |
|---|---|
| `locked` | `scan_in_progress.locked()` |
| `currentScanName`, `currentProcess` | globals `current_scan_name`, `current_process` (scan numbers; 0 is None) |
| `proc`, `reader`, `readFrom` | each scan's script process, its `read_output` thread (at the loop top, blocked in `readline()` on a process, in `finally`, done) and the process it blocks on |
| `nextId`, `myScan`, `pc` | the next scan number; each worker's local `scan_name` and step |

Actions: `/scan` is `ScanCheck`/`ScanRejected` (the lock and `poll()`
checks, 427-437), `ScanAcquire` (non-blocking acquire and naming), `ScanStart`
(Popen and the reader thread, or the except block's release). The reader is
`ReaderTop` (re-reads the global `current_process`), `ReaderLine`,
`ReaderEOF`, `ReaderFinally` (releases if locked; its `current_scan_name =
None` binds a local and is not a state change). `/clear-scan` is `ClearKill`
then `ClearRelease`, `/reset` is `Reset`, the page handler is `IndexCheck`
then `IndexClear`; the `/cascading-*` routes are the same actions under their
own names. `ProcExit` is the script ending. `BoundReached` is the stutter
once every scan number is used.

Refinement: `CascadeSlot` is the abstract controller, a slot that a scan
claims, launches its script in or gives up, and vacates only after its
script has exited. `Holder` maps the detailed state to the slot: the scan of
a worker between acquire and Popen, else the scan whose reader is alive.
`SlotSpec` (`Slot!SlotSpec`, the instance with `slot <- Holder`,
`script <- proc`) is checked as a temporal property, so every step of the
controller is a slot step or a stutter.

Properties: `TypeOK`; `GateTracksScan` (the lock is held exactly while a
/scan is starting or a reader is alive); `GateEventuallyFree`; `SlotSpec`;
`ReadersFinish` (every started reader finishes, even when
`current_process` is switched under it); `OneScript` and
`LockedWhileScriptRuns` (violated, below).

Fairness (`Fairness`): a started request runs to its end, every reader
thread is scheduled, every script ends (the scanners are bounded). Starting
a scan, `/clear-scan`, `/reset` and page loads are the user's and not fair.

| Run | Config | Expect | Shows |
|---|---|---|---|
| cascade_clients | `CascadingScan_clients.cfg` | pass | 2 workers, 3 scans, `/clear-scan` and `/reset` at any time: `TypeOK`, `ReadersFinish` |
| cascade_clear_window | `CascadingScan_clear.cfg` | violation | a `/clear-scan` (or `/reset`) between a /scan's acquire and Popen frees its lock and a second script starts (`OneScript`) |
| cascade_stale_reader | `CascadingScan_stale_reader.cfg` | violation | one client: after `/clear-scan` the old reader outlives the join and its finally block frees the next scan's lock while that script runs (`LockedWhileScriptRuns`) |

Observed, not a run: `read_output` never clears the global
`current_scan_name` (line 491 assigns a local), so after a scan ends
`/status` answers running until a page load or `/reset`. The model keeps the
name set in `ReaderFinally`, as the code does.

### Proofs (`CascadingScanProofs`)

`CascadingScan` assumes `WorkersAssumption`: the pool of worker threads is
finite. `/scan`'s check counts the requests in flight with `Cardinality`, and
the proofs count them. All results hold for every such pool and every
`MaxScans`.

- `TypeCorrect`: `Spec => []TypeOK`, for every client, including those that
  use `/clear-scan` and `/reset`.
  - `TypeOK` alone is not inductive. Its bound `nextId <= MaxScans + 1`
    holds only because `/scan`'s check reserves a number for each request
    that is between the check and the acquire.
  - The inductive invariant `TypeInv` adds `NumbersReserved`:
    `nextId + ScansInFlight <= MaxScans + 1`.
  - `AcquiringUpdate` is a lemma about `FiniteSetTheorems`' cardinalities. A
    step changes the count by one when a worker enters or leaves the
    acquire, and does not change it otherwise.
  - From it, `AcquirerHasNumber` says that a request at the acquire has a
    number `nextId <= MaxScans` left.
- `LockTracksHolder`: under `NoClearOrReset` (the client of
  `patched_server`), `Spec => []GateTracksScan`.
- `ImplementsSlot`: under `NoClearOrReset`, `Spec => SlotSpec`, the
  refinement of `CascadeSlot`.
- `CleanClientScriptSafety`: under `NoClearOrReset`,
  `[](OneScript /\ LockedWhileScriptRuns)`. The two violation runs below
  therefore need `/clear-scan` or `/reset`; `/scan` and the reader threads
  alone never break these properties.

All three rest on the inductive invariant `SlotInv`, which TLC checked first
(2,269 states, 3 workers, 4 scans). It is `TypeInv` and:
- the lock has one holder: at most one worker is between acquire and Popen
  (`OneStarter`), it excludes live readers, and at most one reader is alive;
- the holder's scan number was taken, and its script and reader have not
  started (`StarterFresh`). Numbers not yet taken have neither
  (`UnusedFresh`);
- a running script's reader is alive and still in its loop
  (`RunningHasReader`);
- a live reader reads its own process through the global and on `readline()`
  (`ReaderOwnsProcess`);
- a reader reaches `finally` only after its script exited
  (`FinallyAfterExit`);
- no worker is in `/clear-scan` (`NoClearing`).

`ReaderOwnsProcess` is the fact `/clear-scan` breaks: once
`current_process` is switched under a reader, the reader's `finally`
releases a lock that is not its own.

The refinement is proved the standard way:
- `SlotInitHolds` maps the initial state to `SlotInit`.
- `SlotStep` maps each step to a slot step or a stutter:
  - the successful acquire is `Claim(nextId)`;
  - Popen is `Launch`, and its failure is `Abort`;
  - `ProcExit` of the holder is `End`;
  - the reader's `finally` is `Vacate`;
  - every other step leaves `Holder` and `proc` alone.
- `HolderOf` writes `Holder` over its arguments. `HolderOfValue` shows that,
  with a single holder, `Holder` names it in a state and in the next one
  alike. This is needed because `Holder` is a `CHOOSE`.

## 5. `MobileGate` and `MC_PatchedServer`

`MobileGate` has the same shape as `ScanGate`, with the prefix `Mobile` on
every name so that it composes: `mobileLocked`, `mobileName`, `mobileCrd`
(each Scan resource), `mobileNextId`, the local `mobileScan` and step
`mobilePc` of each worker. `/mobile-scan` is `MobileScanCheck` (the
`locked()` check, 1640), `MobileScanAcquire` (the BLOCKING `acquire()`,
1651), `MobileScanSetName` (name and globals, then a known scanner or the
else branch that releases, 1652-1702), `MobileCrdCreated` /
`MobileCrdCreateFailed`. `/mobile-status` is `MobileStatusCheck`,
`MobileStatusGet`, `MobileStatusRelease`; `/mobile-reset` is
`MobileResetCheck`, `MobileResetRelease` (an unlocked lock raises and the
request fails before the clearing), `MobileResetClear`; the page `/mobile`
is `MobileIndexCheck` (the `in_progress` snapshot) and `MobileIndexClear`.
`MobileOperatorFinish` is the operator.

`MC_PatchedServer` composes `CascadingScan` and `MobileGate` over the same
`Workers`: a worker starts a request of one kind only while idle in the
other, the reader threads and the operator run on their own, and the
specification is the conjunction of both fairness conditions. Mobile
fairness adds weak fairness on the acquire: a waiter gets a lock that stays
free, not one other threads keep taking (Python's Lock is not fair).

| Run | Config | Expect | Shows |
|---|---|---|---|
| patched_server | `PatchedServer.cfg` | pass | 2 workers, 3 cascading and 3 mobile scans, `/mobile-reset` allowed (about 536,000 states): `GateTracksScan`, `GateEventuallyFree`, `SlotSpec` still hold with the mobile routes taking workers, `MobileTypeOK`, and `MobileWaitersLeaveAWorker` (while the mobile lock is held some worker is not stuck in `acquire()`, so `/mobile-status` can be served) |
| mobile_index_lockout | `PatchedServer_mobile_lockout.cfg` | violation | without `/mobile-reset`: the page handler reads "unlocked, stale name", a `/mobile-scan` takes the lock and names its scan, the handler clears that name; `/mobile-status` answers idle forever and the lock is never released (`MobileGateEventuallyFree`) |

`patched_server` leaves out `/clear-scan` and `/reset` because `SlotSpec`
holds only without them (`cascade_clear_window` shows why); three mobile
scans let a request pass the `locked()` check, wait in `acquire()`, and a
later one come in, the case the mutant without the check needs.

### Proof (`MobileGateProofs`)

No theorem says that a held mobile lock always belongs to a scan
`/mobile-status` can see. That holds for one worker thread only; with two,
`mobile_index_lockout` shows the page handler clearing the name of a running
scan. A proof under `Workers = {T}` would rest on a hypothesis the server
does not meet.

`MobileTypeCorrect` and `WaitersLeaveAWorker` are proved for every worker
pool and every bound, under `MobileBounds`: finitely many workers, and a
bound in `Nat`. They are theorem hypotheses, because `MobileGate` is only
INSTANCEd and has no `ASSUME`.

- `MobileTypeCorrect`: `MobileSpec => []MobileTypeOK`.
  - Its inductive invariant `MobileTypeInv` adds `MobileNumbersReserved`:
    `/mobile-scan`'s check reserves a number for every request between the
    check and the naming step.
  - `NamingUpdate` is the counting lemma: a step changes that count by one
    when a worker enters or leaves the naming, and does not change it
    otherwise.
- `WaitersLeaveAWorker`: `MobileSpec => []MobileWaitersLeaveAWorker`, for
  any number of workers.
  - Together with the type invariant, the property is inductive.
  - `NoNewWaiter`: while the lock stays held, no worker newly waits in
    `acquire()`, because the `locked()` check sends every new `/mobile-scan`
    back.
  - The thread that takes the lock is past `acquire()`, in `scan_named`.
  - `patched_server` checks both properties on the composed server. There
    the cascading steps leave the mobile variables alone.

`PatchedServerProofs` carries both theorems over to the composed server.
- `MobileStepOfServer`: every `ServerNext` step is a `MobileNext` step or
  leaves the mobile variables unchanged. Hence `ServerIsMobileGate`:
  `ServerSpec => Mobile!MobileSpec`.
- `MC_PatchedServer` instances `MobileGateProofs` as `Mobile`, so
  `Mobile!MobileTypeCorrect` and `Mobile!WaitersLeaveAWorker` can be cited
  there.
- `MC_PatchedServer` assumes `MobileBoundAssumption`
  (`MaxMobileScans \in Nat \ {0}`).
- With it, `ServerMobileTypeOK` proves `ServerSpec => []MobileTypeOK` and
  `ServerWaitersLeaveAWorker` proves `ServerSpec =>
  []MobileWaitersLeaveAWorker`: the very definitions the `patched_server`
  run checks.

Observed, not a run: `/mobile-status` never clears `mobile_current_scan_name`
after Done, so a poll that read the old scan Done can release the lock a new
`/mobile-scan` has just acquired (hazard at line 1751).

## 6. `ResultFiles`: result discovery and downloads

The bucket is a sequence of abstract keys in upload order (newest first is
`Reverse`); `Write` appends a key. A key is what the classification reads:
its top-level `scan-` folder, whether it contains `scan-`, the scanner names
in it, its ending and whether it contains `report`. `Classify` is the
if/elif chain of `discover_scanner_files` (lines 223-247), including the
generic `findings.json` outside a scan folder that goes into no list;
`FolderScannerType` is the folder pages' different chain. The routes are
operators returning a status code and the key sent: `DiscoverFiles`,
`GetLatestScannerFile`/`DownloadScannerLatest`, `ListScannerFiles`,
`DownloadScannerFileByIndex` (Python indexing: negative from the end, below
`-len` a 500), `ListScanFolders`, `ListFolderContents`,
`DownloadFolderFile`; an empty bucket gives `{}` and a 500 where the code
indexes it.

| Run | Config | Expect | Shows |
|---|---|---|---|
| results_latest | `ResultFiles_latest.cfg` | violation | `ResultViewsAgree` (every link fetches the file its page shows) fails after one upload: `get_latest_scanner_file` looks the scanner up one level too high and `/download-scanner/{type}` answers 404 |

Seven keys, at most three objects, reach every branch of both classifiers
and two scan folders. With that lookup corrected, `ResultViewsAgree` holds
on every bucket of up to four objects, so the listing and index downloads
agree. Observed, not a run: the folder pages label nuclei or zap files named
`findings.json` as tlsx; a listing's indexes go stale once a new upload
shifts the newest-first list; `/download-folder` writes zip entries by
basename, so two `findings.json` of one folder collide.

## 7. `MobsfParser`: `mobsf/parser/mobsf_parser.py`

JSON values are tagged records (`Str`, `Null`, `List`, `Obj`); a string is a
sequence of words, so `""` is `<<>>` and `", ".join` (`Join`) is concatenation
with a separator atom. `str.lower()` is `Lower`, which maps the capitalised
severity words back to lower case. `dict.get` is `Get`. An exception the
code does not catch (a section that is `null` or a list, a findings value
that is `null`, a tuple of another length, a severity or component that is
not a string) is the predicate `NormalizeOK` failing, and it ends the
process with a traceback and exit status 1 (`NormalizeCrashed`).

| Variable | Code |
|---|---|
| `pc` | the stage of `main()`: `read`, `check`, `deliver`, `done` |
| `argv` | `sys.argv[1]`, `sys.argv[2]`: absent, starting with `http`, or other |
| `input`, `report`, `findings` | `input_data` (blank, invalid JSON, or a document), the parsed report, the findings list |
| `stdout`, `stderr`, `uploads`, `exitCode` | what was printed, the diagnostics, the PUT bodies, the exit status |

Actions: `FetchInput` / `FetchFailed` (lines 53-61), `ReadStdin` (62-63),
`NoInput` (65-67), `InvalidJson` (68-72), `Normalized` / `NormalizeCrashed`
(73-80), `Uploaded` / `UploadFailed` (82-90), `Printed` (91-93). The process
ends at `done`, so these runs do not check deadlock.

Properties:

* `FindingsMatchReference`: the findings about to be delivered equal
  `RefNormalize(report)`. This is the reference normaliser of spec.md 3 and
  4.2, stated by position rather than by concatenation: finding `i` is
  certificate finding `i`, then manifest finding `i - n`. A missing or
  ill-shaped section gives no findings. Each field takes its documented
  default.
* `OutputContract`: spec.md section 6 and scenarios 3 and 4.
  * The findings reach at most one destination, and it is the destination
    `argv` names.
  * The exit status is 0 exactly when the findings were delivered or the
    input was blank.
  * A failing run writes nothing to stdout and uploads nothing.
* `NoTraceback`: no run ends in a traceback. It is checked only on reports
  whose findings all have the documented shape. It is violated: a `null`
  section crashes `main()`.

| Run | Config | Expect | Shows |
|---|---|---|---|
| parser_all | `MobsfParser_all.cfg` | pass | every argv shape, fetch and upload outcome; about 1700 reports built from every section shape and up to two findings per section, including every malformed finding: `TypeOK`, `FindingsMatchReference`, `OutputContract` |
| parser_null_section | `MobsfParser_sections.cfg` | violation | `{"certificate_analysis": null}` makes `main()` exit 1 with a stack trace where spec.md says the section yields no findings |

Two findings per section are enough for the ordering to be observable: two
certificate findings, or one finding from each source. The severities cover
lower case, capitals, an unknown word and the empty string.

### Proofs (`MobsfParserProofs`)

The theorems hold for every set of reports. They rest on one assumption,
`ReportsAssumption`: a JSON array is a finite sequence. TLC evaluates it on
every run.

* `TypeCorrect`: `Spec => []TypeOK`.
* `ExitContract`: `Spec => []OutputContract`.
  * `OutputContract` is not inductive on its own, because the last step
    relies on nothing having been written before it.
  * The strengthening `ContractInv` says that before `done` all streams are
    empty.
  * It also says that `done` is reached in one of three `Outcome`s:
    delivered, blank input, or a failure with one diagnostic.
* `NormalizeMatchesSpec`: `Spec => []FindingsMatchReference`.
  * `DeliverInv` holds at `deliver`: the findings are `Normalize(report)`
    of a report that did not crash.
  * The lemma `NormalizeIsReference` shows that `Normalize` equals
    `RefNormalize` on such a report.
  * `ItemsMatch` shows that the code's lookups find the arrays the
    reference takes.
  * `ConcatProperties` and `LenProperties` of `SequenceTheorems` turn the
    two `extend` calls into the positional definition.

## 8. What is proved, and what is only model-checked

TLAPS proves, for every value of the constants that the stated hypotheses
allow:
- `ScanGateProofs` (section 3): `TypeCorrect`.
- `CascadingScanProofs` (section 4):
  - `TypeCorrect`, for every client;
  - `LockTracksHolder`, `ImplementsSlot` and `CleanClientScriptSafety`,
    without `/clear-scan` and `/reset`.
- `MobileGateProofs` (section 5): `MobileTypeCorrect`,
  `WaitersLeaveAWorker`.
- `PatchedServerProofs` (section 5): `ServerMobileTypeOK` and
  `ServerWaitersLeaveAWorker`, the mobile theorems in the composed server.
- `MobsfParserProofs` (section 7): `TypeCorrect`, `ExitContract`,
  `NormalizeMatchesSpec`.

Every invariant and the refinement that `patched_server` checks thus also
has a proof. What stays with TLC:
- Liveness: `GateEventuallyFree`, `ReadersFinish`, `ScanResourceReleased`
  and `MobileGateEventuallyFree`. They need fairness and ENABLED, which are
  beyond this prover.
- `ResultViewsAgree`. `ResultFiles` reaches the RECURSIVE operators of
  `SequencesExt`, and the prover loses its SMT backend in such a module.
- Every violation run: a counterexample is TLC's to find.
- `ScanGate` with two or more clients; its invariant is violated there.
- `CascadingScan` with `/clear-scan` and `/reset`, beyond its types.

## 9. What is not modelled

* Read-only routes (`/`, `/debug`, `/download` of `main.py`, `/status`,
  `/scan-status`, `/stream-output`, `/zap-ready`, `/mobile-download`): they
  change no state. `/download-folder/{folder}` and `download_file_by_key`
  stream files; the zip's basename collision is noted above.
* MinIO and Kubernetes failures in the result routes (their `except`
  branches answer 500).
* `load_kube`'s `sys.exit(1)`: what the server does with `SystemExit` raised
  in a worker thread depends on uvicorn, outside this repository.
* `mobsf/webapp/main.py`: the gate of `main.py` again (check, blocking
  acquire, create outside any `try`, release by `/status` on Done). Its
  create failing (for example a second scan of the same file:
  `safe_scan_name` has no timestamp, so the name already exists) leaves the
  lock held, and it has no reset route.
* The backup copy `webapp-all_safe_backup_20250728_102446/main_patched.py`:
  an older copy of the controller `CascadingScan` models.
* `mobsf_wrapper.py`: straight-line I/O without shared state.
* The YAML bodies, log output and HTML templates: data and layout, not
  control.
