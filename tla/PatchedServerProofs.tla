------------------------- MODULE PatchedServerProofs -------------------------
(***************************************************************************)
(* Proofs about the whole server of webapp-all/main_patched.py             *)
(* (MC_PatchedServer): the cascading routes, their reader threads and      *)
(* scripts, and the mobile routes, served by one pool of worker threads.   *)
(* The mobile gate's theorems carry over to the composition because every *)
(* step of the server is a step of the mobile gate or leaves its variables *)
(* alone.                                                                  *)
(***************************************************************************)
EXTENDS MC_PatchedServer, TLAPS

\* Every server step is a mobile-gate step or a stutter of the mobile gate.
LEMMA MobileStepOfServer ==
    [ServerNext]_serverVars => [Mobile!MobileNext]_Mobile!mobileVars
<1> SUFFICES ASSUME [ServerNext]_serverVars
             PROVE  [Mobile!MobileNext]_Mobile!mobileVars
  OBVIOUS
<1>1. ASSUME NEW t \in Workers, ServerWorker(t)
      PROVE  [Mobile!MobileNext]_Mobile!mobileVars
  <2>1. CASE UNCHANGED mobileVars
    BY <2>1 DEF mobileVars, Mobile!mobileVars
  <2>2. CASE Mobile!MobileWorker(t)
    BY <2>2 DEF Mobile!MobileNext
  <2>3. QED
    BY <1>1, <2>1, <2>2 DEF ServerWorker
<1>2. ASSUME NEW i \in Mobile!MobileIds, Mobile!MobileOperatorFinish(i)
      PROVE  [Mobile!MobileNext]_Mobile!mobileVars
  BY <1>2 DEF Mobile!MobileNext
<1>3. ASSUME UNCHANGED mobileVars PROVE [Mobile!MobileNext]_Mobile!mobileVars
  BY <1>3 DEF mobileVars, Mobile!mobileVars
<1>4. QED
  BY <1>1, <1>2, <1>3 DEF ServerNext, serverVars

\* The server's behaviours are behaviours of the mobile gate.
LEMMA ServerIsMobileGate == ServerSpec => Mobile!MobileSpec
<1>1. ServerInit => Mobile!MobileInit
  BY DEF ServerInit
<1>2. [ServerNext]_serverVars => [Mobile!MobileNext]_Mobile!mobileVars
  BY MobileStepOfServer
<1>3. QED
  BY <1>1, <1>2, PTL DEF ServerSpec, Mobile!MobileSpec

\* The bounds of MobileGateProofs hold for the server's constants.
LEMMA ServerMobileBounds == Mobile!MobileBounds
BY WorkersAssumption, MobileBoundAssumption
   DEF Mobile!MobileBounds, Mobile!IsFiniteSet, IsFiniteSet

(***************************************************************************)
(* In the whole server, for every finite pool of worker threads and every  *)
(* bound on the scans, the mobile gate's globals and locals stay typed    *)
(* whatever the cascading routes do on the same workers.                   *)
(***************************************************************************)
THEOREM ServerMobileTypeOK == ServerSpec => []MobileTypeOK
<1>1. Mobile!MobileSpec => []Mobile!MobileTypeOK
  BY ServerMobileBounds, Mobile!MobileTypeCorrect
<1>2. QED
  BY <1>1, ServerIsMobileGate DEF MobileTypeOK

(***************************************************************************)
(* In the whole server, the waiters in /mobile-scan's blocking acquire()   *)
(* never hold every worker thread of the shared pool while the mobile     *)
(* lock is held, so /mobile-status and the cascading routes can still be  *)
(* served.                                                                 *)
(***************************************************************************)
THEOREM ServerWaitersLeaveAWorker == ServerSpec => []MobileWaitersLeaveAWorker
<1>1. Mobile!MobileSpec => []Mobile!MobileWaitersLeaveAWorker
  BY ServerMobileBounds, Mobile!WaitersLeaveAWorker
<1>2. QED
  BY <1>1, ServerIsMobileGate DEF MobileWaitersLeaveAWorker

=============================================================================
