-------------------------- MODULE MobileGateProofs --------------------------
(***************************************************************************)
(* Proofs about the mobile gate of webapp-all/main_patched.py, for every   *)
(* bound on the number of scans.                                           *)
(***************************************************************************)
EXTENDS MobileGate, FiniteSetTheorems, TLAPS

(***************************************************************************)
(* Types, for any number of clients.  As in CascadingScan, the check of    *)
(* /mobile-scan reserves a number for each request between the check and  *)
(* the naming step, and that keeps mobileNextId within its bound.          *)
(***************************************************************************)
MobileNumbersReserved ==
    mobileNextId + MobileScansInFlight <= MaxMobileScans + 1

MobileTypeInv == MobileTypeOK /\ MobileNumbersReserved

\* The bounds the theorems below are stated for: a finite pool of worker
\* threads and a bound on the scans (the instance leaves both open).
MobileBounds == IsFiniteSet(Workers) /\ MaxMobileScans \in Nat

InFlight == {"scan_acquire", "scan_named"}

\* The workers of a pc function between /mobile-scan's check and its name.
NamingIn(p) == {t \in Workers : p[t] \in InFlight}

LEMMA NamingFinite ==
    ASSUME MobileBounds, NEW p
    PROVE  /\ IsFiniteSet(NamingIn(p))
           /\ Cardinality(NamingIn(p)) \in Nat
<1>1. NamingIn(p) \in SUBSET Workers
  BY DEF NamingIn
<1>2. QED
  BY <1>1, FS_Subset, FS_CardinalityType DEF MobileBounds

\* One worker's step changes the count by one when it enters or leaves the
\* naming, and not at all otherwise.
LEMMA NamingUpdate ==
    ASSUME MobileBounds, NEW p \in [Workers -> MobilePCs], NEW t \in Workers,
           NEW v
    PROVE  LET q == [p EXCEPT ![t] = v] IN
           /\ v \in InFlight /\ p[t] \notin InFlight =>
                 Cardinality(NamingIn(q)) = Cardinality(NamingIn(p)) + 1
           /\ v \notin InFlight /\ p[t] \in InFlight =>
                 Cardinality(NamingIn(q)) = Cardinality(NamingIn(p)) - 1
           /\ (v \in InFlight <=> p[t] \in InFlight) =>
                 NamingIn(q) = NamingIn(p)
<1> DEFINE q == [p EXCEPT ![t] = v]
<1>1. IsFiniteSet(NamingIn(p))
  BY NamingFinite
<1>2. ASSUME v \in InFlight, p[t] \notin InFlight
      PROVE  Cardinality(NamingIn(q)) = Cardinality(NamingIn(p)) + 1
  <2>1. NamingIn(q) = NamingIn(p) \cup {t} /\ t \notin NamingIn(p)
    BY <1>2 DEF NamingIn
  <2>2. QED
    BY <1>1, <2>1, FS_AddElement
<1>3. ASSUME v \notin InFlight, p[t] \in InFlight
      PROVE  Cardinality(NamingIn(q)) = Cardinality(NamingIn(p)) - 1
  <2>1. NamingIn(q) = NamingIn(p) \ {t} /\ t \in NamingIn(p)
    BY <1>3 DEF NamingIn
  <2>2. QED
    BY <1>1, <2>1, FS_RemoveElement
<1>4. ASSUME v \in InFlight <=> p[t] \in InFlight
      PROVE  NamingIn(q) = NamingIn(p)
  BY <1>4 DEF NamingIn
<1>5. QED
  BY <1>2, <1>3, <1>4

\* The initial state is typed and has no request in flight.
LEMMA MobileTypeInvInit ==
    ASSUME MobileBounds
    PROVE  MobileInit => MobileTypeInv
<1> SUFFICES ASSUME MobileInit PROVE MobileTypeInv
  OBVIOUS
<1>1. MobileScansInFlight = 0
  <2>1. NamingIn(mobilePc) = {}
    BY DEF MobileInit, NamingIn, InFlight
  <2>2. QED
    BY <2>1, FS_EmptySet DEF MobileScansInFlight, NamingIn, InFlight
<1>2. mobileLocked \in BOOLEAN
  BY DEF MobileInit
<1>3. /\ mobileName \in MobileIds \cup {NoMobileScan}
      /\ mobileCrd \in [MobileIds -> MobileCrdStates]
      /\ mobileNextId \in 1..(MaxMobileScans + 1)
      /\ mobileScan \in [Workers -> MobileIds \cup {NoMobileScan}]
      /\ mobilePc \in [Workers -> MobilePCs]
      /\ \A t \in Workers : mobilePc[t] = "scan_create" => mobileScan[t] \in MobileIds
  BY DEF MobileInit, MobileBounds, MobileCrdStates, MobilePCs, NoMobileScan
<1>4. MobileNumbersReserved
  BY <1>1 DEF MobileInit, MobileBounds, MobileNumbersReserved
<1>5. QED
  BY <1>2, <1>3, <1>4 DEF MobileTypeInv, MobileTypeOK

\* A step that moves no worker into or out of the naming keeps the count.
LEMMA NamingKept ==
    ASSUME MobileBounds, MobileTypeOK, NEW t \in Workers, NEW v,
           MobileGo(t, v), v \in InFlight <=> mobilePc[t] \in InFlight
    PROVE  MobileScansInFlight' = MobileScansInFlight
BY NamingUpdate DEF MobileTypeOK, MobileGo, MobileScansInFlight, NamingIn, InFlight

\* Every step keeps the types and the reservation of numbers.
LEMMA MobileTypeInvStep ==
    ASSUME MobileBounds, MobileTypeInv, [MobileNext]_mobileVars
    PROVE  MobileTypeInv'
<1>0. /\ MobileScansInFlight = Cardinality(NamingIn(mobilePc))
      /\ MobileScansInFlight' = Cardinality(NamingIn(mobilePc'))
      /\ Cardinality(NamingIn(mobilePc)) \in Nat
      /\ Cardinality(NamingIn(mobilePc')) \in Nat
      /\ MobileTypeOK /\ MobileNumbersReserved
      /\ mobileNextId \in 1..(MaxMobileScans + 1)
      /\ MaxMobileScans \in Nat
  BY NamingFinite DEF MobileScansInFlight, NamingIn, InFlight, MobileTypeInv,
                      MobileTypeOK, MobileBounds
\* The steps that keep the count and mobileNextId.
<1>1. ASSUME NEW t \in Workers, NEW v \in MobilePCs,
             MobileGo(t, v), v \in InFlight <=> mobilePc[t] \in InFlight,
             mobileNextId' = mobileNextId, MobileTypeOK'
      PROVE  MobileTypeInv'
  <2>1. MobileScansInFlight' = MobileScansInFlight
    BY <1>0, <1>1, NamingKept
  <2>2. QED
    BY <1>0, <1>1, <2>1 DEF MobileTypeInv, MobileNumbersReserved
<1>2. ASSUME NEW t \in Workers, MobileScanCheck(t) PROVE MobileTypeInv'
  <2>1. CASE mobileLocked
    <3>1. MobileGo(t, "idle") /\ mobilePc[t] = "idle"
      BY <1>2, <2>1 DEF MobileScanCheck
    <3>2. MobileTypeOK'
      BY <1>0, <1>2, <3>1 DEF MobileScanCheck, MobileGo, MobileTypeOK, MobilePCs
    <3>3. QED
      BY <1>1, <1>2, <3>1, <3>2 DEF MobileScanCheck, MobilePCs, InFlight
  <2>2. CASE ~mobileLocked
    <3>1. MobileGo(t, "scan_acquire") /\ mobilePc[t] = "idle"
          /\ mobileNextId' = mobileNextId
          /\ mobileNextId + MobileScansInFlight <= MaxMobileScans
      BY <1>2, <2>2 DEF MobileScanCheck
    <3>2. MobileScansInFlight' = MobileScansInFlight + 1
      BY <1>0, <3>1, NamingUpdate DEF MobileGo, MobileTypeOK, InFlight
    <3>3. MobileTypeOK'
      BY <1>0, <1>2, <3>1 DEF MobileScanCheck, MobileGo, MobileTypeOK, MobilePCs
    <3>4. QED
      BY <1>0, <3>1, <3>2, <3>3 DEF MobileTypeInv, MobileNumbersReserved
  <2>3. QED
    BY <2>1, <2>2
<1>3. ASSUME NEW t \in Workers, MobileScanSetName(t) PROVE MobileTypeInv'
  <2>1. mobilePc[t] = "scan_named" /\ mobileNextId' = mobileNextId + 1
        /\ mobileName' = mobileNextId
    BY <1>3 DEF MobileScanSetName
  <2>2. /\ MobileScansInFlight' = MobileScansInFlight - 1
        /\ mobilePc' \in [Workers -> MobilePCs]
        /\ mobilePc'[t] \in {"scan_create", "idle"}
    BY <1>0, <1>3, <2>1, NamingUpdate
       DEF MobileScanSetName, MobileGo, MobileTypeOK, InFlight, MobilePCs
  <2>3. mobileNextId \in MobileIds
    BY <1>0, <2>2 DEF MobileNumbersReserved, MobileIds
  <2>4. MobileNumbersReserved'
    BY <1>0, <2>1, <2>2 DEF MobileNumbersReserved
  <2>5. MobileTypeOK'
    <3>1. mobileLocked' \in BOOLEAN
      BY <1>0, <1>3 DEF MobileScanSetName, MobileRelease, MobileTypeOK
    <3>2. /\ mobileScan' \in [Workers -> MobileIds \cup {NoMobileScan}]
          /\ \A u \in Workers : mobilePc'[u] = "scan_create" => mobileScan'[u] \in MobileIds
          /\ mobileCrd' = mobileCrd
      BY <1>0, <1>3, <2>3 DEF MobileScanSetName, MobileGo, MobileTypeOK
    <3>3. QED
      BY <1>0, <2>1, <2>2, <2>3, <3>1, <3>2 DEF MobileTypeOK, MobileIds
  <2>6. QED
    BY <2>4, <2>5 DEF MobileTypeInv

<1>4. ASSUME NEW t \in Workers, MobileScanAcquire(t) PROVE MobileTypeInv'
  <2>1. MobileTypeOK'
    BY <1>0, <1>4 DEF MobileScanAcquire, MobileGo, MobileTypeOK, MobilePCs, MobileCrdStates
  <2>2. QED
    BY <1>1, <1>4, <2>1 DEF MobileScanAcquire, MobileGo, MobilePCs, InFlight
<1>5. ASSUME NEW t \in Workers, MobileCrdCreated(t) PROVE MobileTypeInv'
  <2>1. MobileTypeOK'
    BY <1>0, <1>5 DEF MobileCrdCreated, MobileGo, MobileTypeOK, MobilePCs, MobileCrdStates
  <2>2. QED
    BY <1>1, <1>5, <2>1 DEF MobileCrdCreated, MobileGo, MobilePCs, InFlight
<1>6. ASSUME NEW t \in Workers, MobileCrdCreateFailed(t) PROVE MobileTypeInv'
  <2>1. MobileTypeOK'
    BY <1>0, <1>6 DEF MobileCrdCreateFailed, MobileGo, MobileTypeOK, MobilePCs, MobileCrdStates, MobileRelease
  <2>2. QED
    BY <1>1, <1>6, <2>1 DEF MobileCrdCreateFailed, MobileGo, MobilePCs, InFlight
<1>7. ASSUME NEW t \in Workers, MobileStatusCheck(t) PROVE MobileTypeInv'
  <2>1. MobileTypeOK'
    BY <1>0, <1>7 DEF MobileStatusCheck, MobileGo, MobileTypeOK, MobilePCs, MobileCrdStates
  <2>2. QED
    BY <1>1, <1>7, <2>1 DEF MobileStatusCheck, MobileGo, MobilePCs, InFlight
<1>8. ASSUME NEW t \in Workers, MobileStatusGet(t) PROVE MobileTypeInv'
  <2>1. MobileTypeOK'
    BY <1>0, <1>8 DEF MobileStatusGet, MobileGo, MobileTypeOK, MobilePCs, MobileCrdStates
  <2>2. QED
    BY <1>1, <1>8, <2>1 DEF MobileStatusGet, MobileGo, MobilePCs, InFlight
<1>9. ASSUME NEW t \in Workers, MobileStatusRelease(t) PROVE MobileTypeInv'
  <2>1. MobileTypeOK'
    BY <1>0, <1>9 DEF MobileStatusRelease, MobileGo, MobileTypeOK, MobilePCs, MobileCrdStates, MobileRelease
  <2>2. QED
    BY <1>1, <1>9, <2>1 DEF MobileStatusRelease, MobileGo, MobilePCs, InFlight
<1>10. ASSUME NEW t \in Workers, MobileResetCheck(t) PROVE MobileTypeInv'
  <2>1. MobileTypeOK'
    BY <1>0, <1>10 DEF MobileResetCheck, MobileGo, MobileTypeOK, MobilePCs, MobileCrdStates
  <2>2. QED
    BY <1>1, <1>10, <2>1 DEF MobileResetCheck, MobileGo, MobilePCs, InFlight
<1>11. ASSUME NEW t \in Workers, MobileResetRelease(t) PROVE MobileTypeInv'
  <2>1. MobileTypeOK'
    BY <1>0, <1>11 DEF MobileResetRelease, MobileGo, MobileTypeOK, MobilePCs, MobileCrdStates, MobileRelease
  <2>2. QED
    BY <1>1, <1>11, <2>1 DEF MobileResetRelease, MobileGo, MobilePCs, InFlight
<1>12. ASSUME NEW t \in Workers, MobileResetClear(t) PROVE MobileTypeInv'
  <2>1. MobileTypeOK'
    BY <1>0, <1>12 DEF MobileResetClear, MobileGo, MobileTypeOK, MobilePCs, MobileCrdStates
  <2>2. QED
    BY <1>1, <1>12, <2>1 DEF MobileResetClear, MobileGo, MobilePCs, InFlight
<1>13. ASSUME NEW t \in Workers, MobileIndexCheck(t) PROVE MobileTypeInv'
  <2>1. MobileTypeOK'
    BY <1>0, <1>13 DEF MobileIndexCheck, MobileGo, MobileTypeOK, MobilePCs, MobileCrdStates
  <2>2. QED
    BY <1>1, <1>13, <2>1 DEF MobileIndexCheck, MobileGo, MobilePCs, InFlight
<1>14. ASSUME NEW t \in Workers, MobileIndexClear(t) PROVE MobileTypeInv'
  <2>1. MobileTypeOK'
    BY <1>0, <1>14 DEF MobileIndexClear, MobileGo, MobileTypeOK, MobilePCs, MobileCrdStates
  <2>2. QED
    BY <1>1, <1>14, <2>1 DEF MobileIndexClear, MobileGo, MobilePCs, InFlight
<1>15. ASSUME NEW i \in MobileIds, MobileOperatorFinish(i) PROVE MobileTypeInv'
  BY <1>0, <1>15 DEF MobileOperatorFinish, MobileTypeInv, MobileTypeOK,
                     MobileNumbersReserved, MobileScansInFlight, MobileCrdStates
<1>16. ASSUME UNCHANGED mobileVars PROVE MobileTypeInv'
  BY <1>0, <1>16 DEF mobileVars, MobileTypeInv, MobileTypeOK,
                     MobileNumbersReserved, MobileScansInFlight
<1>17. QED
  <2>1. ASSUME NEW t \in Workers, MobileWorker(t) PROVE MobileTypeInv'
    BY <2>1, <1>2, <1>3, <1>4, <1>5, <1>6, <1>7, <1>8, <1>9, <1>10, <1>11, <1>12, <1>13, <1>14 DEF MobileWorker
  <2>2. QED
    BY <2>1, <1>15, <1>16 DEF MobileNext

(***************************************************************************)
(* For every finite pool of worker threads and every bound on the mobile   *)
(* scans, the mobile gate's globals and the threads' locals stay typed;   *)
(* a mobile scan is never numbered past MaxMobileScans.                    *)
(***************************************************************************)
THEOREM MobileTypeCorrect ==
    ASSUME MobileBounds
    PROVE  MobileSpec => []MobileTypeOK
<1>1. MobileInit => MobileTypeInv
  BY MobileTypeInvInit
<1>2. MobileTypeInv /\ [MobileNext]_mobileVars => MobileTypeInv'
  BY MobileTypeInvStep
<1>3. MobileTypeInv => MobileTypeOK
  BY DEF MobileTypeInv
<1>4. QED
  BY <1>1, <1>2, <1>3, PTL DEF MobileSpec

\* While the lock stays held, no worker starts waiting in acquire(): the
\* locked() check sends every new /mobile-scan back.
NoNewWaiter ==
    mobileLocked' =>
        /\ mobileLocked
        /\ \A u \in Workers : mobilePc'[u] = "scan_acquire" => mobilePc[u] = "scan_acquire"

LEMMA WaitersStep ==
    ASSUME MobileTypeOK, MobileWaitersLeaveAWorker, [MobileNext]_mobileVars
    PROVE  MobileWaitersLeaveAWorker'
<1>0. mobileLocked \in BOOLEAN /\ mobilePc \in [Workers -> MobilePCs]
  BY DEF MobileTypeOK
<1>1. ASSUME NEW t \in Workers, MobileScanAcquire(t)
      PROVE  MobileWaitersLeaveAWorker'
  <2>1. mobilePc'[t] = "scan_named"
    BY <1>0, <1>1 DEF MobileScanAcquire, MobileGo
  <2>2. QED
    BY <2>1 DEF MobileWaitersLeaveAWorker
<1>2. ASSUME NEW t \in Workers, MobileScanCheck(t) PROVE NoNewWaiter
  BY <1>0, <1>2 DEF MobileScanCheck, MobileGo, MobileRelease, MobileTypeOK, NoNewWaiter
<1>3. ASSUME NEW t \in Workers, MobileScanSetName(t) PROVE NoNewWaiter
  BY <1>0, <1>3 DEF MobileScanSetName, MobileGo, MobileRelease, MobileTypeOK, NoNewWaiter
<1>4. ASSUME NEW t \in Workers, MobileCrdCreated(t) PROVE NoNewWaiter
  BY <1>0, <1>4 DEF MobileCrdCreated, MobileGo, MobileRelease, MobileTypeOK, NoNewWaiter
<1>5. ASSUME NEW t \in Workers, MobileCrdCreateFailed(t) PROVE NoNewWaiter
  BY <1>0, <1>5 DEF MobileCrdCreateFailed, MobileGo, MobileRelease, MobileTypeOK, NoNewWaiter
<1>6. ASSUME NEW t \in Workers, MobileStatusCheck(t) PROVE NoNewWaiter
  BY <1>0, <1>6 DEF MobileStatusCheck, MobileGo, MobileRelease, MobileTypeOK, NoNewWaiter
<1>7. ASSUME NEW t \in Workers, MobileStatusGet(t) PROVE NoNewWaiter
  BY <1>0, <1>7 DEF MobileStatusGet, MobileGo, MobileRelease, MobileTypeOK, NoNewWaiter
<1>8. ASSUME NEW t \in Workers, MobileStatusRelease(t) PROVE NoNewWaiter
  BY <1>0, <1>8 DEF MobileStatusRelease, MobileGo, MobileRelease, MobileTypeOK, NoNewWaiter
<1>9. ASSUME NEW t \in Workers, MobileResetCheck(t) PROVE NoNewWaiter
  BY <1>0, <1>9 DEF MobileResetCheck, MobileGo, MobileRelease, MobileTypeOK, NoNewWaiter
<1>10. ASSUME NEW t \in Workers, MobileResetRelease(t) PROVE NoNewWaiter
  BY <1>0, <1>10 DEF MobileResetRelease, MobileGo, MobileRelease, MobileTypeOK, NoNewWaiter
<1>11. ASSUME NEW t \in Workers, MobileResetClear(t) PROVE NoNewWaiter
  BY <1>0, <1>11 DEF MobileResetClear, MobileGo, MobileRelease, MobileTypeOK, NoNewWaiter
<1>12. ASSUME NEW t \in Workers, MobileIndexCheck(t) PROVE NoNewWaiter
  BY <1>0, <1>12 DEF MobileIndexCheck, MobileGo, MobileRelease, MobileTypeOK, NoNewWaiter
<1>13. ASSUME NEW t \in Workers, MobileIndexClear(t) PROVE NoNewWaiter
  BY <1>0, <1>13 DEF MobileIndexClear, MobileGo, MobileRelease, MobileTypeOK, NoNewWaiter
<1>14. ASSUME NEW i \in MobileIds, MobileOperatorFinish(i) PROVE NoNewWaiter
  BY <1>14 DEF MobileOperatorFinish, NoNewWaiter
<1>15. ASSUME UNCHANGED mobileVars PROVE NoNewWaiter
  BY <1>15 DEF mobileVars, NoNewWaiter
<1>16. ASSUME NoNewWaiter PROVE MobileWaitersLeaveAWorker'
  BY <1>16 DEF NoNewWaiter, MobileWaitersLeaveAWorker
<1>17. QED
  <2>1. ASSUME NEW t \in Workers, MobileWorker(t) PROVE MobileWaitersLeaveAWorker'
    BY <2>1, <1>1, <1>16, <1>2, <1>3, <1>4, <1>5, <1>6, <1>7, <1>8, <1>9, <1>10, <1>11, <1>12, <1>13 DEF MobileWorker
  <2>2. QED
    BY <2>1, <1>14, <1>15, <1>16 DEF MobileNext

(***************************************************************************)
(* For every pool of worker threads and every bound on the mobile scans,   *)
(* the waiters in /mobile-scan's blocking acquire() never hold every      *)
(* worker while the lock is held: the locked() check before acquire()      *)
(* keeps new requests out, and the thread that took the lock is past it.   *)
(***************************************************************************)
THEOREM WaitersLeaveAWorker ==
    ASSUME MobileBounds
    PROVE  MobileSpec => []MobileWaitersLeaveAWorker
<1>1. MobileInit => MobileTypeInv /\ MobileWaitersLeaveAWorker
  <2>1. MobileInit => MobileTypeInv
    BY MobileTypeInvInit
  <2>2. MobileInit => ~mobileLocked
    BY DEF MobileInit
  <2>3. QED
    BY <2>1, <2>2 DEF MobileWaitersLeaveAWorker
<1>2. /\ MobileTypeInv /\ MobileWaitersLeaveAWorker
      /\ [MobileNext]_mobileVars
      => MobileTypeInv' /\ MobileWaitersLeaveAWorker'
  BY MobileTypeInvStep, WaitersStep DEF MobileTypeInv
<1>3. QED
  BY <1>1, <1>2, PTL DEF MobileSpec

=============================================================================
