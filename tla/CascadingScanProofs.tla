------------------------- MODULE CascadingScanProofs -------------------------
(***************************************************************************)
(* Proofs about the cascading scan controller of webapp-all/              *)
(* main_patched.py (CascadingScan), for every pool of worker threads and   *)
(* every bound on the number of scans.                                     *)
(***************************************************************************)
EXTENDS CascadingScan, FiniteSetTheorems, TLAPS

-----------------------------------------------------------------------------
(***************************************************************************)
(* Types.  TypeOK bounds nextId by MaxScans + 1, but a /scan that passed   *)
(* its check takes its number only at the acquire: the check reserves a    *)
(* number for every request between the two, and that is what keeps the   *)
(* bound.                                                                  *)
(***************************************************************************)
NumbersReserved == nextId + ScansInFlight <= MaxScans + 1

TypeInv == TypeOK /\ NumbersReserved

\* The workers of a pc function that passed /scan's check, not yet acquired.
AcquiringIn(p) == {t \in Workers : p[t] = "scan_acquire"}

\* Within the finite pool, the requests in flight can be counted.
LEMMA AcquiringFinite ==
    ASSUME NEW p
    PROVE  /\ IsFiniteSet(AcquiringIn(p))
           /\ Cardinality(AcquiringIn(p)) \in Nat
<1>1. AcquiringIn(p) \in SUBSET Workers
  BY DEF AcquiringIn
<1>2. QED
  BY <1>1, WorkersAssumption, FS_Subset, FS_CardinalityType

\* One worker's step changes the count by one when it enters or leaves the
\* acquire, and not at all otherwise.
LEMMA AcquiringUpdate ==
    ASSUME NEW p \in [Workers -> PCs], NEW t \in Workers, NEW v
    PROVE  LET q == [p EXCEPT ![t] = v] IN
           /\ v = "scan_acquire" /\ p[t] # "scan_acquire" =>
                 Cardinality(AcquiringIn(q)) = Cardinality(AcquiringIn(p)) + 1
           /\ v # "scan_acquire" /\ p[t] = "scan_acquire" =>
                 Cardinality(AcquiringIn(q)) = Cardinality(AcquiringIn(p)) - 1
           /\ (v = "scan_acquire" <=> p[t] = "scan_acquire") =>
                 AcquiringIn(q) = AcquiringIn(p)
<1> DEFINE q == [p EXCEPT ![t] = v]
<1>1. IsFiniteSet(AcquiringIn(p))
  BY AcquiringFinite
<1>2. ASSUME v = "scan_acquire", p[t] # "scan_acquire"
      PROVE  Cardinality(AcquiringIn(q)) = Cardinality(AcquiringIn(p)) + 1
  <2>1. AcquiringIn(q) = AcquiringIn(p) \cup {t} /\ t \notin AcquiringIn(p)
    BY <1>2 DEF AcquiringIn
  <2>2. QED
    BY <1>1, <2>1, FS_AddElement
<1>3. ASSUME v # "scan_acquire", p[t] = "scan_acquire"
      PROVE  Cardinality(AcquiringIn(q)) = Cardinality(AcquiringIn(p)) - 1
  <2>1. AcquiringIn(q) = AcquiringIn(p) \ {t} /\ t \in AcquiringIn(p)
    BY <1>3 DEF AcquiringIn
  <2>2. QED
    BY <1>1, <2>1, FS_RemoveElement
<1>4. ASSUME v = "scan_acquire" <=> p[t] = "scan_acquire"
      PROVE  AcquiringIn(q) = AcquiringIn(p)
  BY <1>4 DEF AcquiringIn
<1>5. QED
  BY <1>2, <1>3, <1>4

\* The initial state is typed and has no request in flight.
LEMMA TypeInvInit == Init => TypeInv
<1> SUFFICES ASSUME Init PROVE TypeInv
  OBVIOUS
<1>1. AcquiringIn(pc) = {}
  BY DEF Init, AcquiringIn
<1>2. ScansInFlight = 0
  BY <1>1, FS_EmptySet DEF ScansInFlight, AcquiringIn
<1>3. TypeOK
  <2>1. locked \in BOOLEAN
    BY DEF Init
  <2>2. nextId \in 1..(MaxScans + 1)
    BY ConstantsAssumption DEF Init
  <2>3. /\ currentScanName \in Ids \cup {NoScan}
        /\ currentProcess \in Ids \cup {NoScan}
        /\ proc \in [Ids -> ProcStates]
        /\ reader \in [Ids -> ReaderStates]
        /\ readFrom \in [Ids -> Ids \cup {NoScan}]
        /\ myScan \in [Workers -> Ids \cup {NoScan}]
        /\ pc \in [Workers -> PCs]
        /\ \A i \in Ids : reader[i] = "blocked" => readFrom[i] \in Ids
    BY DEF Init, ProcStates, ReaderStates, PCs
  <2>4. QED
    BY <2>1, <2>2, <2>3 DEF TypeOK
<1>4. NumbersReserved
  BY <1>2, ConstantsAssumption DEF Init, NumbersReserved
<1>5. QED
  BY <1>3, <1>4 DEF TypeInv

\* A step that moves no worker into or out of the acquire keeps the count.
LEMMA InFlightKept ==
    ASSUME TypeOK, NEW t \in Workers, NEW v,
           pc' = [pc EXCEPT ![t] = v],
           v = "scan_acquire" <=> pc[t] = "scan_acquire"
    PROVE  ScansInFlight' = ScansInFlight
BY AcquiringUpdate DEF TypeOK, ScansInFlight, AcquiringIn

\* Every step keeps the types and the reservation of numbers.
LEMMA TypeInvStep == TypeInv /\ [Next]_vars => TypeInv'
<1> SUFFICES ASSUME TypeInv, [Next]_vars PROVE TypeInv'
  OBVIOUS
<1> USE ConstantsAssumption
<1>0. /\ ScansInFlight = Cardinality(AcquiringIn(pc))
      /\ ScansInFlight' = Cardinality(AcquiringIn(pc'))
      /\ Cardinality(AcquiringIn(pc)) \in Nat
      /\ Cardinality(AcquiringIn(pc')) \in Nat
      /\ TypeOK /\ NumbersReserved
  BY AcquiringFinite DEF ScansInFlight, AcquiringIn, TypeInv
<1>00. nextId \in 1..(MaxScans + 1)
  BY <1>0 DEF TypeOK
<1>1. ASSUME NEW t \in Workers, ScanCheck(t) PROVE TypeInv'
  <2>1. TypeOK'
    BY <1>0, <1>1 DEF TypeOK, ScanCheck, PCs
  <2>2. ScansInFlight' = ScansInFlight + 1
    BY <1>0, <1>1, AcquiringUpdate DEF TypeOK, ScanCheck
  <2>3. NumbersReserved'
    <3>1. nextId' = nextId /\ nextId + ScansInFlight <= MaxScans
      BY <1>1 DEF ScanCheck
    <3>2. QED
      BY <1>0, <1>00, <2>2, <3>1 DEF NumbersReserved
  <2>4. QED
    BY <2>1, <2>3 DEF TypeInv
<1>2. ASSUME NEW t \in Workers, ScanAcquire(t) PROVE TypeInv'
  <2>1. ScansInFlight' = ScansInFlight - 1
    BY <1>0, <1>2, AcquiringUpdate DEF TypeOK, ScanAcquire
  <2>2. nextId \in Ids
    BY <1>0, <1>00, <2>1 DEF NumbersReserved, Ids
  <2>3. CASE locked
    <3>1. TypeOK'
      BY <1>0, <1>2, <2>3 DEF TypeOK, ScanAcquire, PCs
    <3>2. NumbersReserved'
      <4>1. nextId' = nextId
        BY <1>2, <2>3 DEF ScanAcquire
      <4>2. QED
        BY <1>0, <1>00, <2>1, <4>1 DEF NumbersReserved
    <3>3. QED
      BY <3>1, <3>2 DEF TypeInv
  <2>4. CASE ~locked
    <3>1. locked' \in BOOLEAN
      BY <1>2, <2>4 DEF ScanAcquire
    <3>2. nextId' = nextId + 1 /\ currentScanName' = nextId
          /\ myScan' = [myScan EXCEPT ![t] = nextId]
          /\ pc' = [pc EXCEPT ![t] = "scan_start"]
          /\ UNCHANGED <<currentProcess, proc, reader, readFrom>>
      BY <1>2, <2>4 DEF ScanAcquire
    <3>3. TypeOK'
      BY <1>0, <2>2, <3>1, <3>2 DEF TypeOK, PCs, Ids, NoScan
    <3>4. NumbersReserved'
      BY <1>0, <1>00, <2>1, <3>2 DEF NumbersReserved
    <3>5. QED
      BY <3>3, <3>4 DEF TypeInv
  <2>5. QED
    BY <2>3, <2>4
<1>3. ASSUME NEW t \in Workers, ScanStart(t) PROVE TypeInv'
  <2>1. ScansInFlight' = ScansInFlight
    BY <1>0, <1>3, InFlightKept DEF ScanStart
  <2>2. TypeOK'
    BY <1>0, <1>3 DEF TypeOK, ScanStart, ReleaseIfLocked, PCs, ProcStates,
                      ReaderStates
  <2>3. QED
    BY <1>0, <1>3, <2>1, <2>2 DEF TypeInv, NumbersReserved, ScanStart
<1>4. ASSUME NEW t \in Workers, ClearKill(t) PROVE TypeInv'
  <2>1. ScansInFlight' = ScansInFlight
    BY <1>0, <1>4, InFlightKept DEF ClearKill
  <2>2. TypeOK'
    BY <1>0, <1>4 DEF TypeOK, ClearKill, PCs, ProcStates
  <2>3. QED
    BY <1>0, <1>4, <2>1, <2>2 DEF TypeInv, NumbersReserved, ClearKill
<1>5. ASSUME NEW t \in Workers, ClearRelease(t) PROVE TypeInv'
  <2>1. ScansInFlight' = ScansInFlight
    BY <1>0, <1>5, InFlightKept DEF ClearRelease
  <2>2. QED
    BY <1>0, <1>5, <2>1 DEF TypeInv, TypeOK, NumbersReserved, ClearRelease,
                            ReleaseIfLocked, PCs
<1>6. ASSUME NEW t \in Workers, IndexCheck(t) PROVE TypeInv'
  <2>1. ScansInFlight' = ScansInFlight
    BY <1>0, <1>6, InFlightKept DEF IndexCheck
  <2>2. QED
    BY <1>0, <1>6, <2>1 DEF TypeInv, TypeOK, NumbersReserved, IndexCheck, PCs
<1>7. ASSUME NEW t \in Workers, IndexClear(t) PROVE TypeInv'
  <2>1. ScansInFlight' = ScansInFlight
    BY <1>0, <1>7, InFlightKept DEF IndexClear
  <2>2. QED
    BY <1>0, <1>7, <2>1 DEF TypeInv, TypeOK, NumbersReserved, IndexClear, PCs
<1>8. ASSUME NEW t \in Workers, Reset(t) PROVE TypeInv'
  BY <1>0, <1>8 DEF TypeInv, TypeOK, NumbersReserved, Reset, ReleaseIfLocked,
                    ScansInFlight
<1>9. ASSUME NEW i \in Ids, Reader(i) PROVE TypeInv'
  BY <1>0, <1>9 DEF TypeInv, TypeOK, NumbersReserved, ScansInFlight, Reader,
                    ReaderTop, ReaderLine, ReaderEOF, ReaderFinally,
                    ReleaseIfLocked, ReaderStates, NoScan
<1>10. ASSUME NEW i \in Ids, ProcExit(i) PROVE TypeInv'
  BY <1>0, <1>10 DEF TypeInv, TypeOK, NumbersReserved, ScansInFlight,
                     ProcExit, ProcStates
<1>11. CASE BoundReached \/ UNCHANGED vars
  BY <1>0, <1>11 DEF TypeInv, TypeOK, NumbersReserved, ScansInFlight,
                     BoundReached, vars
<1>12. QED
  <2>1. ASSUME NEW t \in Workers, Worker(t) PROVE TypeInv'
    BY <2>1, <1>1, <1>2, <1>3, <1>4, <1>5, <1>6, <1>7, <1>8
       DEF Worker, ScanRejected, vars, CascadingScanCheck, CascadingScanRejected,
           CascadingScanAcquire, CascadingScanStart, CascadingClearKill,
           CascadingClearRelease, CascadingReset, CascadingIndexCheck,
           CascadingIndexClear, TypeInv, TypeOK, NumbersReserved, ScansInFlight
  <2>2. QED
    BY <2>1, <1>9, <1>10, <1>11 DEF Next

(***************************************************************************)
(* For every pool of worker threads, every bound on the scans and every    *)
(* client (with or without /clear-scan and /reset), the controller's       *)
(* globals and threads stay typed: in particular a scan is never numbered  *)
(* past MaxScans, because /scan's check counts the requests that passed it *)
(* and have not taken their number yet.                                    *)
(***************************************************************************)
THEOREM TypeCorrect == Spec => []TypeOK
<1>1. Init => TypeInv
  BY TypeInvInit
<1>2. TypeInv /\ [Next]_vars => TypeInv'
  BY TypeInvStep
<1>3. TypeInv => TypeOK
  BY DEF TypeInv
<1>4. QED
  BY <1>1, <1>2, <1>3, PTL DEF Spec

-----------------------------------------------------------------------------
(***************************************************************************)
(* Without /clear-scan and /reset.  The lock has one holder at a time: a   *)
(* /scan between its acquire and Popen, or the reader thread of the last   *)
(* started scan.  The holder's reader follows its own process, because     *)
(* nothing else changes current_process while it is alive; so it reaches   *)
(* its finally block only after its script has exited.                     *)
(***************************************************************************)
OneStarter ==
    \A t, u \in Workers : pc[t] = "scan_start" /\ pc[u] = "scan_start" => t = u

StarterExcludesReaders ==
    \A t \in Workers, i \in Ids : pc[t] = "scan_start" => ~Alive(i)

OneReader == \A i, j \in Ids : Alive(i) /\ Alive(j) => i = j

\* The starting scan's number was taken and its script and reader are new.
StarterFresh ==
    \A t \in Workers :
        pc[t] = "scan_start" =>
            /\ myScan[t] \in 1..(nextId - 1)
            /\ proc[myScan[t]] = "none"
            /\ reader[myScan[t]] = "none"

\* The numbers not taken yet have neither a script nor a reader.
UnusedFresh ==
    \A i \in Ids : i >= nextId => proc[i] = "none" /\ reader[i] = "none"

\* A running script's reader is alive and has not passed its loop.
RunningHasReader ==
    \A i \in Ids : proc[i] = "running" => reader[i] \in {"top", "blocked"}

\* The reader reads its own process, through the global and on readline().
ReaderOwnsProcess ==
    /\ \A i \in Ids : Alive(i) => currentProcess = i
    /\ \A i \in Ids : reader[i] = "blocked" => readFrom[i] = i

\* The loop is left only after the script has exited.
FinallyAfterExit == \A i \in Ids : reader[i] = "finally" => proc[i] = "exited"

\* With /clear-scan unused no worker is inside it.
NoClearing == \A t \in Workers : pc[t] # "clear_release"

SlotCore ==
    /\ NoClearing
    /\ GateTracksScan
    /\ OneStarter
    /\ StarterExcludesReaders
    /\ OneReader
    /\ StarterFresh
    /\ UnusedFresh
    /\ RunningHasReader
    /\ ReaderOwnsProcess
    /\ FinallyAfterExit

SlotInv == TypeInv /\ SlotCore

\* The client of the patched server's runs: it never calls /clear-scan or
\* /reset.
NoClearOrReset == ~ClientClears /\ ~ClientResets

\* The initial state has no holder.
LEMMA SlotInvInit == Init => SlotInv
<1> SUFFICES ASSUME Init PROVE SlotInv
  OBVIOUS
<1>1. TypeInv
  BY TypeInvInit
<1>2. SlotCore
  <2>1. ~locked
    BY DEF Init
  <2>2. \A t \in Workers : pc[t] = "idle"
    BY DEF Init
  <2>3. \A i \in Ids : ~Alive(i) /\ proc[i] = "none" /\ reader[i] = "none"
    BY DEF Init, Alive
  <2>4. QED
    BY <2>1, <2>2, <2>3 DEF SlotCore, NoClearing, GateTracksScan, OneStarter,
       StarterExcludesReaders, OneReader, StarterFresh, UnusedFresh,
       RunningHasReader, ReaderOwnsProcess, FinallyAfterExit
<1>3. QED
  BY <1>1, <1>2 DEF SlotInv


\* A request about to acquire has a number left (NumbersReserved).
LEMMA AcquirerHasNumber ==
    ASSUME TypeInv, NEW t \in Workers, pc[t] = "scan_acquire"
    PROVE  nextId \in Ids
<1>1. IsFiniteSet(AcquiringIn(pc)) /\ t \in AcquiringIn(pc)
  BY AcquiringFinite DEF AcquiringIn
<1>2. Cardinality(AcquiringIn(pc)) >= 1
  <2>1. /\ IsFiniteSet(AcquiringIn(pc) \ {t})
        /\ Cardinality(AcquiringIn(pc) \ {t}) = Cardinality(AcquiringIn(pc)) - 1
    BY <1>1, FS_RemoveElement
  <2>2. Cardinality(AcquiringIn(pc) \ {t}) \in Nat
    BY <2>1, FS_CardinalityType
  <2>3. QED
    BY <1>1, <2>1, <2>2, AcquiringFinite
<1>3. nextId \in 1..(MaxScans + 1)
  BY DEF TypeInv, TypeOK
<1>4. QED
  BY <1>2, <1>3, ConstantsAssumption, AcquiringFinite
     DEF TypeInv, NumbersReserved, ScansInFlight, AcquiringIn, Ids

\* Without /clear-scan and /reset, every step keeps the single holder.
LEMMA SlotInvStep ==
    ASSUME NoClearOrReset, SlotInv, [Next]_vars
    PROVE  SlotInv'
<1> USE DEF SlotCore, NoClearing, GateTracksScan, OneStarter,
            StarterExcludesReaders, OneReader, StarterFresh, UnusedFresh,
            RunningHasReader, ReaderOwnsProcess, FinallyAfterExit, Alive
<1>0. /\ TypeInv' /\ TypeOK /\ TypeOK' /\ SlotCore
      /\ ~ClientClears /\ ~ClientResets
  BY TypeInvStep DEF SlotInv, TypeInv, NoClearOrReset
<1>00. locked \in BOOLEAN /\ locked' \in BOOLEAN
  BY <1>0 DEF TypeOK
<1>1. ASSUME NEW t \in Workers, ScanCheck(t) PROVE SlotCore'
  BY <1>0, <1>1 DEF ScanCheck
<1>2. ASSUME NEW t \in Workers, ScanAcquire(t) PROVE SlotCore'
  <2>1. CASE locked
    <3>1. /\ pc[t] = "scan_acquire" /\ pc' = [pc EXCEPT ![t] = "idle"]
          /\ locked' = locked /\ currentProcess' = currentProcess
          /\ proc' = proc /\ reader' = reader /\ readFrom' = readFrom
          /\ nextId' = nextId /\ myScan' = myScan
      BY <1>2, <2>1 DEF ScanAcquire
    <3>2. /\ \A u \in Workers : pc'[u] = "scan_start" <=> pc[u] = "scan_start"
          /\ \A u \in Workers : pc'[u] # "clear_release"
      BY <1>0, <1>2, <3>1 DEF TypeOK
    <3>3. QED
      BY <1>0, <3>1, <3>2
  <2>2. CASE ~locked
    <3>1. nextId \in Ids
      BY <1>2, AcquirerHasNumber DEF SlotInv, ScanAcquire
    <3>2. QED
      BY <1>0, <1>2, <2>2, <3>1 DEF ScanAcquire, TypeOK, Ids
  <2>3. QED
    BY <2>1, <2>2
<1>3. ASSUME NEW t \in Workers, ScanStart(t) PROVE SlotCore'
  BY <1>0, <1>3 DEF ScanStart, ReleaseIfLocked, TypeOK, Ids, NoScan
<1>4. ASSUME NEW t \in Workers, ClearRelease(t) PROVE SlotCore'
  BY <1>0, <1>4 DEF ClearRelease
<1>5. ASSUME NEW t \in Workers, IndexCheck(t) PROVE SlotCore'
  BY <1>0, <1>5 DEF IndexCheck
<1>6. ASSUME NEW t \in Workers, IndexClear(t) PROVE SlotCore'
  BY <1>0, <1>6 DEF IndexClear
<1>7. ASSUME NEW i \in Ids, ReaderTop(i) PROVE SlotCore'
  BY <1>0, <1>7 DEF ReaderTop, TypeOK, Ids, NoScan
<1>8. ASSUME NEW i \in Ids, ReaderLine(i) PROVE SlotCore'
  BY <1>0, <1>8 DEF ReaderLine, TypeOK
<1>9. ASSUME NEW i \in Ids, ReaderEOF(i) PROVE SlotCore'
  BY <1>0, <1>9 DEF ReaderEOF, ProcessRunning, TypeOK
<1>10. ASSUME NEW i \in Ids, ReaderFinally(i) PROVE SlotCore'
  BY <1>0, <1>10 DEF ReaderFinally, ReleaseIfLocked, TypeOK
<1>11. ASSUME NEW i \in Ids, ProcExit(i) PROVE SlotCore'
  BY <1>0, <1>11 DEF ProcExit, TypeOK
<1>12. ASSUME BoundReached \/ UNCHANGED vars PROVE SlotCore'
  <2>1. UNCHANGED vars
    BY <1>12 DEF BoundReached
  <2>2. QED
    BY <1>0, <2>1 DEF vars
<1>13. SlotCore'
  <2> HIDE DEF SlotCore
  <2>1. ASSUME NEW t \in Workers, Worker(t) PROVE SlotCore'
    BY <1>0, <2>1, <1>1, <1>2, <1>3, <1>4, <1>5, <1>6, <1>12
       DEF Worker, ScanRejected, ClearKill, Reset, CascadingScanCheck,
           CascadingScanRejected, CascadingScanAcquire, CascadingScanStart,
           CascadingClearKill, CascadingClearRelease, CascadingReset,
           CascadingIndexCheck, CascadingIndexClear
  <2>2. ASSUME NEW i \in Ids, Reader(i) PROVE SlotCore'
    BY <2>2, <1>7, <1>8, <1>9, <1>10 DEF Reader
  <2>3. \/ \E t \in Workers : Worker(t)
        \/ \E i \in Ids : Reader(i) \/ ProcExit(i)
        \/ BoundReached \/ UNCHANGED vars
    BY DEF Next
  <2>4. QED
    BY ONLY <2>1, <2>2, <2>3, <1>11, <1>12, Zenon
<1>14. QED
  BY <1>0, <1>13 DEF SlotInv

(***************************************************************************)
(* Without /clear-scan and /reset, scan_in_progress is held exactly while  *)
(* a /scan is between its acquire and Popen or the reader thread of a     *)
(* scan has not left its finally block, for every pool of worker threads  *)
(* and every bound on the scans: the non-blocking acquire, the reader's   *)
(* loop on the global current_process and its finally block keep the lock *)
(* and its single holder in step.                                          *)
(***************************************************************************)
THEOREM LockTracksHolder ==
    ASSUME NoClearOrReset
    PROVE  Spec => []GateTracksScan
<1>1. Init => SlotInv
  BY SlotInvInit
<1>2. SlotInv /\ [Next]_vars => SlotInv'
  BY SlotInvStep
<1>3. SlotInv => GateTracksScan
  BY DEF SlotInv, SlotCore
<1>4. QED
  BY <1>1, <1>2, <1>3, PTL DEF Spec

-----------------------------------------------------------------------------
(***************************************************************************)
(* Refinement of CascadeSlot.  Holder, written over its arguments, so that *)
(* its value can be found in a state and in the next one alike.            *)
(***************************************************************************)
AliveIn(rd, i) == rd[i] \in {"top", "blocked", "finally"}

HolderOf(p, ms, rd) ==
    IF \E t \in Workers : p[t] = "scan_start"
       THEN ms[CHOOSE t \in Workers : p[t] = "scan_start"]
    ELSE IF \E i \in Ids : AliveIn(rd, i)
       THEN CHOOSE i \in Ids : AliveIn(rd, i)
    ELSE NoScan

LEMMA HolderIsHolderOf ==
    /\ Holder = HolderOf(pc, myScan, reader)
    /\ Holder' = HolderOf(pc', myScan', reader')
BY DEF Holder, HolderOf, AliveIn, Alive

\* With a single holder, Holder names it, and is NoScan when there is none.
LEMMA HolderOfValue ==
    ASSUME NEW p, NEW ms, NEW rd,
           \A t, u \in Workers : p[t] = "scan_start" /\ p[u] = "scan_start" => t = u,
           \A t \in Workers, i \in Ids : p[t] = "scan_start" => ~AliveIn(rd, i),
           \A i, j \in Ids : AliveIn(rd, i) /\ AliveIn(rd, j) => i = j
    PROVE  /\ \A t \in Workers : p[t] = "scan_start" => HolderOf(p, ms, rd) = ms[t]
           /\ \A i \in Ids : AliveIn(rd, i) => HolderOf(p, ms, rd) = i
           /\ (\A t \in Workers : p[t] # "scan_start") /\ (\A i \in Ids : ~AliveIn(rd, i))
                 => HolderOf(p, ms, rd) = NoScan
<1>1. ASSUME NEW t \in Workers, p[t] = "scan_start"
      PROVE  HolderOf(p, ms, rd) = ms[t]
  BY <1>1 DEF HolderOf
<1>2. ASSUME NEW i \in Ids, AliveIn(rd, i)
      PROVE  HolderOf(p, ms, rd) = i
  <2>1. \A t \in Workers : p[t] # "scan_start"
    BY <1>2
  <2>2. QED
    BY <1>2, <2>1 DEF HolderOf
<1>3. QED
  BY <1>1, <1>2 DEF HolderOf

\* The value of Holder in a state of SlotInv ...
LEMMA HolderNow ==
    ASSUME SlotInv
    PROVE  /\ \A t \in Workers : pc[t] = "scan_start" => Holder = myScan[t]
           /\ \A i \in Ids : Alive(i) => Holder = i
           /\ (\A t \in Workers : pc[t] # "scan_start") /\ (\A i \in Ids : ~Alive(i))
                 => Holder = NoScan
<1>1. /\ \A t, u \in Workers : pc[t] = "scan_start" /\ pc[u] = "scan_start" => t = u
      /\ \A t \in Workers, i \in Ids : pc[t] = "scan_start" => ~AliveIn(reader, i)
      /\ \A i, j \in Ids : AliveIn(reader, i) /\ AliveIn(reader, j) => i = j
  BY DEF SlotInv, SlotCore, OneStarter, StarterExcludesReaders, OneReader,
         Alive, AliveIn
<1>2. QED
  BY <1>1, HolderIsHolderOf, HolderOfValue DEF Alive, AliveIn

\* ... and in the next state.
LEMMA HolderNext ==
    ASSUME SlotInv'
    PROVE  /\ \A t \in Workers : pc'[t] = "scan_start" => Holder' = myScan'[t]
           /\ \A i \in Ids : Alive(i)' => Holder' = i
           /\ (\A t \in Workers : pc'[t] # "scan_start") /\ (\A i \in Ids : ~Alive(i)')
                 => Holder' = NoScan
<1>1. /\ \A t, u \in Workers : pc'[t] = "scan_start" /\ pc'[u] = "scan_start" => t = u
      /\ \A t \in Workers, i \in Ids : pc'[t] = "scan_start" => ~AliveIn(reader', i)
      /\ \A i, j \in Ids : AliveIn(reader', i) /\ AliveIn(reader', j) => i = j
  BY DEF SlotInv, SlotCore, OneStarter, StarterExcludesReaders, OneReader,
         Alive, AliveIn
<1>2. QED
  BY <1>1, HolderIsHolderOf, HolderOfValue DEF Alive, AliveIn

\* Every step of the controller is a step of the slot or leaves the holder
\* and the scripts alone.
LEMMA SlotStep ==
    ASSUME NoClearOrReset, SlotInv, SlotInv', [Next]_vars
    PROVE  [Slot!SlotNext]_Slot!slotVars
<1>0. /\ TypeOK /\ SlotCore /\ SlotCore'
      /\ ~ClientClears /\ ~ClientResets
  BY DEF SlotInv, TypeInv, NoClearOrReset
<1>1. /\ \A t \in Workers : pc[t] = "scan_start" => Holder = myScan[t]
      /\ \A i \in Ids : Alive(i) => Holder = i
      /\ (\A t \in Workers : pc[t] # "scan_start") /\ (\A i \in Ids : ~Alive(i))
            => Holder = NoScan
      /\ \A t \in Workers : pc'[t] = "scan_start" => Holder' = myScan'[t]
      /\ \A i \in Ids : Alive(i)' => Holder' = i
      /\ (\A t \in Workers : pc'[t] # "scan_start") /\ (\A i \in Ids : ~Alive(i)')
            => Holder' = NoScan
  BY HolderNow, HolderNext
\* Steps that leave the holder and the scripts are stutters of the slot.
<1>2. ASSUME proc' = proc, Holder' = Holder
      PROVE  [Slot!SlotNext]_Slot!slotVars
  BY <1>2 DEF Slot!slotVars
\* The holder stays when the starting /scan and the live readers stay.
<1>3. ASSUME \A u \in Workers : pc'[u] = "scan_start" <=> pc[u] = "scan_start",
             myScan' = myScan,
             \A i \in Ids : Alive(i)' <=> Alive(i)
      PROVE  Holder' = Holder
  <2>1. CASE \E t \in Workers : pc[t] = "scan_start"
    BY <1>1, <1>3, <2>1
  <2>2. CASE \E i \in Ids : Alive(i)
    BY <1>1, <1>3, <2>2
  <2>3. CASE (\A t \in Workers : pc[t] # "scan_start") /\ (\A i \in Ids : ~Alive(i))
    BY <1>1, <1>3, <2>3
  <2>4. QED
    BY <2>1, <2>2, <2>3
<1>4. ASSUME NEW t \in Workers, NEW v \in PCs \ {"scan_start"},
             pc[t] # "scan_start", pc' = [pc EXCEPT ![t] = v],
             proc' = proc, myScan' = myScan, reader' = reader
      PROVE  [Slot!SlotNext]_Slot!slotVars
  <2>1. \A u \in Workers : pc'[u] = "scan_start" <=> pc[u] = "scan_start"
    BY <1>0, <1>4 DEF TypeOK
  <2>2. \A i \in Ids : Alive(i)' <=> Alive(i)
    BY <1>4 DEF Alive
  <2>3. QED
    BY <1>2, <1>3, <1>4, <2>1, <2>2
<1>5. ASSUME NEW t \in Workers, ScanCheck(t) PROVE [Slot!SlotNext]_Slot!slotVars
  BY <1>4, <1>5 DEF ScanCheck, PCs
<1>6. ASSUME NEW t \in Workers, IndexCheck(t) PROVE [Slot!SlotNext]_Slot!slotVars
  BY <1>4, <1>6 DEF IndexCheck, PCs
<1>7. ASSUME NEW t \in Workers, IndexClear(t) PROVE [Slot!SlotNext]_Slot!slotVars
  BY <1>4, <1>7 DEF IndexClear, PCs

<1>8. ASSUME pc' = pc, myScan' = myScan, reader' = reader, proc' = proc
      PROVE  [Slot!SlotNext]_Slot!slotVars
  BY <1>2, <1>3, <1>8 DEF Alive
<1>9. ASSUME NEW t \in Workers, ScanAcquire(t) PROVE [Slot!SlotNext]_Slot!slotVars
  <2>1. CASE locked
    BY <1>4, <1>9, <2>1 DEF ScanAcquire, PCs
  <2>2. CASE ~locked
    <3>1. nextId \in Ids
      BY <1>9, AcquirerHasNumber DEF SlotInv, ScanAcquire
    <3>2. Holder = NoScan
      <4>1. (\A u \in Workers : pc[u] # "scan_start") /\ (\A i \in Ids : ~Alive(i))
        BY <1>0, <2>2 DEF SlotCore, GateTracksScan
      <4>2. QED
        BY <1>1, <4>1
    <3>3. Holder' = nextId
      <4>1. pc'[t] = "scan_start" /\ myScan'[t] = nextId
        BY <1>0, <1>9, <2>2 DEF ScanAcquire, TypeOK
      <4>2. QED
        BY <1>1, <4>1
    <3>4. proc[nextId] = "none" /\ proc' = proc
      <4>1. proc' = proc
        BY <1>9 DEF ScanAcquire
      <4>2. proc[nextId] = "none"
        BY <1>0, <3>1 DEF SlotCore, UnusedFresh, Ids
      <4>3. QED
        BY <4>1, <4>2
    <3>5. Slot!Claim(nextId)
      BY <3>2, <3>3, <3>4 DEF Slot!Claim
    <3>6. QED
      BY <3>1, <3>5 DEF Slot!SlotNext
  <2>3. QED
    BY <2>1, <2>2
<1>10. ASSUME NEW t \in Workers, ScanStart(t) PROVE [Slot!SlotNext]_Slot!slotVars
  <2> DEFINE id == myScan[t]
  <2>1. id \in Ids /\ proc[id] = "none" /\ Holder = id
    <3>1. pc[t] = "scan_start"
      BY <1>10 DEF ScanStart
    <3>2. id \in 1..(nextId - 1) /\ proc[id] = "none" /\ nextId \in 1..(MaxScans + 1)
      BY <1>0, <3>1 DEF SlotCore, StarterFresh, TypeOK
    <3>3. id \in Ids
      BY <3>2, ConstantsAssumption DEF Ids
    <3>4. QED
      BY <1>1, <3>1, <3>2, <3>3
  <2>2. CASE /\ currentProcess' = id
             /\ proc' = [proc EXCEPT ![id] = "running"]
             /\ reader' = [reader EXCEPT ![id] = "top"]
    <3>1. Holder' = id
      <4>1. reader'[id] \in {"top", "blocked", "finally"}
        BY <1>0, <2>1, <2>2 DEF TypeOK
      <4>2. QED
        BY <1>1, <2>1, <4>1 DEF Alive
    <3>2. Slot!Launch
      BY <2>1, <2>2, <3>1 DEF Slot!Launch, NoScan, Ids
    <3>3. QED
      BY <3>2 DEF Slot!SlotNext
  <2>3. CASE /\ ReleaseIfLocked
             /\ currentScanName' = NoScan
             /\ currentProcess' = NoScan
             /\ UNCHANGED <<proc, reader, readFrom, nextId>>
    <3>1. Holder' = NoScan
      <4>1. \A u \in Workers : pc'[u] # "scan_start"
        BY <1>0, <1>10 DEF ScanStart, SlotCore, OneStarter, TypeOK
      <4>2. \A i \in Ids : ~Alive(i)'
        <5>1. pc[t] = "scan_start"
          BY <1>10 DEF ScanStart
        <5>2. QED
          BY <1>0, <2>3, <5>1 DEF SlotCore, StarterExcludesReaders, Alive
      <4>3. QED
        BY <1>1, <4>1, <4>2
    <3>2. Slot!Abort
      BY <2>1, <2>3, <3>1 DEF Slot!Abort, NoScan, Ids
    <3>3. QED
      BY <3>2 DEF Slot!SlotNext
  <2>4. QED
    BY <1>10, <2>2, <2>3 DEF ScanStart
<1>11. ASSUME NEW i \in Ids, ReaderTop(i) \/ ReaderLine(i) \/ ReaderEOF(i)
       PROVE  [Slot!SlotNext]_Slot!slotVars
  <2>1. /\ pc' = pc /\ myScan' = myScan /\ proc' = proc
        /\ \A j \in Ids : Alive(j)' <=> Alive(j)
    BY <1>0, <1>11 DEF ReaderTop, ReaderLine, ReaderEOF, Alive, TypeOK
  <2>2. QED
    BY <1>2, <1>3, <2>1
<1>12. ASSUME NEW i \in Ids, ReaderFinally(i) PROVE [Slot!SlotNext]_Slot!slotVars
  <2>1. Alive(i) /\ proc[i] = "exited"
    BY <1>0, <1>12 DEF ReaderFinally, Alive, SlotCore, FinallyAfterExit
  <2>2. Holder = i
    BY <1>1, <2>1
  <2>3. Holder' = NoScan
    <3>1. \A u \in Workers : pc'[u] # "scan_start"
      BY <1>0, <1>12, <2>1 DEF ReaderFinally, SlotCore, StarterExcludesReaders
    <3>2. \A j \in Ids : ~Alive(j)'
      BY <1>0, <1>12, <2>1 DEF ReaderFinally, SlotCore, OneReader, Alive, TypeOK
    <3>3. QED
      BY <1>1, <3>1, <3>2
  <2>4. Slot!Vacate
    BY <1>12, <2>1, <2>2, <2>3 DEF Slot!Vacate, ReaderFinally, NoScan, Ids
  <2>5. QED
    BY <2>4 DEF Slot!SlotNext
<1>13. ASSUME NEW i \in Ids, ProcExit(i) PROVE [Slot!SlotNext]_Slot!slotVars
  <2>1. Alive(i) /\ Alive(i)'
    BY <1>0, <1>13 DEF ProcExit, Alive, SlotCore, RunningHasReader
  <2>2. Holder = i /\ Holder' = i
    BY <1>1, <2>1
  <2>3. Slot!End
    BY <1>13, <2>2 DEF Slot!End, ProcExit, NoScan, Ids
  <2>4. QED
    BY <2>3 DEF Slot!SlotNext
<1>14. QED
  <2>1. ASSUME NEW t \in Workers, Worker(t) PROVE [Slot!SlotNext]_Slot!slotVars
    <3>1. ~ClearKill(t) /\ ~Reset(t) /\ ~ClearRelease(t)
      BY <1>0 DEF ClearKill, Reset, ClearRelease, SlotCore, NoClearing
    <3>2. ScanRejected(t) => [Slot!SlotNext]_Slot!slotVars
      BY <1>8 DEF ScanRejected, vars
    <3>3. QED
      BY <2>1, <3>1, <3>2, <1>5, <1>6, <1>7, <1>9, <1>10
         DEF Worker, CascadingScanCheck, CascadingScanRejected,
             CascadingScanAcquire, CascadingScanStart, CascadingClearKill,
             CascadingClearRelease, CascadingReset, CascadingIndexCheck,
             CascadingIndexClear
  <2>2. BoundReached \/ UNCHANGED vars => [Slot!SlotNext]_Slot!slotVars
    BY <1>8 DEF BoundReached, vars
  <2>3. QED
    BY <2>1, <2>2, <1>11, <1>12, <1>13 DEF Next, Reader

\* The initial state is the free slot with no script started.
LEMMA SlotInitHolds == Init => Slot!SlotInit
<1> SUFFICES ASSUME Init PROVE Slot!SlotInit
  OBVIOUS
<1>1. Holder = NoScan
  BY DEF Init, Holder, Alive
<1>2. QED
  BY <1>1 DEF Init, Slot!SlotInit

(***************************************************************************)
(* Without /clear-scan and /reset, the cascading controller implements    *)
(* CascadeSlot for every pool of worker threads and every bound on the    *)
(* scans: each /scan, reader-thread and script step is a claim, launch,    *)
(* abort, end or vacate of the single slot, or leaves the holder and the  *)
(* scripts alone; so a script runs only while its own scan holds the slot *)
(* and the slot is vacated only after that script has exited.             *)
(***************************************************************************)
THEOREM ImplementsSlot ==
    ASSUME NoClearOrReset
    PROVE  Spec => SlotSpec
<1>1. Spec => []SlotInv
  <2>1. Init => SlotInv
    BY SlotInvInit
  <2>2. SlotInv /\ [Next]_vars => SlotInv'
    BY SlotInvStep
  <2>3. QED
    BY <2>1, <2>2, PTL DEF Spec
<1>2. Init => Slot!SlotInit
  BY SlotInitHolds
<1>3. SlotInv /\ SlotInv' /\ [Next]_vars => [Slot!SlotNext]_Slot!slotVars
  BY SlotStep
<1>4. QED
  BY <1>1, <1>2, <1>3, PTL DEF Spec, SlotSpec, Slot!SlotSpec

(***************************************************************************)
(* Without /clear-scan and /reset, at most one cascading script runs and   *)
(* scan_in_progress is held while it does: the two properties that the    *)
(* runs cascade_clear_window and cascade_stale_reader find violated are    *)
(* broken only by /clear-scan (and /reset), never by /scan and the reader  *)
(* threads alone.                                                          *)
(***************************************************************************)
THEOREM CleanClientScriptSafety ==
    ASSUME NoClearOrReset
    PROVE  Spec => [](OneScript /\ LockedWhileScriptRuns)
<1>1. Init => SlotInv
  BY SlotInvInit
<1>2. SlotInv /\ [Next]_vars => SlotInv'
  BY SlotInvStep
<1>3. SlotInv => OneScript /\ LockedWhileScriptRuns
  <2> SUFFICES ASSUME SlotInv PROVE OneScript /\ LockedWhileScriptRuns
    OBVIOUS
  <2>1. \A i \in Ids : proc[i] = "running" => Alive(i)
    BY DEF SlotInv, SlotCore, RunningHasReader, Alive
  <2>2. OneScript
    BY <2>1 DEF SlotInv, SlotCore, OneReader, OneScript
  <2>3. LockedWhileScriptRuns
    BY <2>1 DEF SlotInv, SlotCore, GateTracksScan, LockedWhileScriptRuns
  <2>4. QED
    BY <2>2, <2>3
<1>4. QED
  BY <1>1, <1>2, <1>3, PTL DEF Spec

=============================================================================
