------------------------- MODULE MC_PatchedServer -------------------------
(***************************************************************************)
(* The server of webapp-all/main_patched.py as one process: the cascading  *)
(* controller (CascadingScan) and the mobile gate (MobileGate) are served *)
(* by the same pool of worker threads.  A worker runs one request at a    *)
(* time, so it starts a request of either kind only when it is idle in    *)
(* both; the reader threads of the cascading scans are threads of their   *)
(* own, and each kind of scan has its own Kubernetes resources.            *)
(***************************************************************************)
EXTENDS CascadingScan, TLC

CONSTANTS w1, w2, MaxMobileScans, MobileResets

VARIABLES mobileLocked, mobileName, mobileCrd, mobileNextId, mobileScan,
          mobilePc

ASSUME MobileBoundAssumption == MaxMobileScans \in Nat \ {0}

\* MobileGate, with the theorems MobileGateProofs proves about it.
Mobile == INSTANCE MobileGateProofs

mobileVars == <<mobileLocked, mobileName, mobileCrd, mobileNextId, mobileScan,
                mobilePc>>

serverVars == <<vars, mobileVars>>

MCWorkersOne == {w1}
MCWorkersTwo == {w1, w2}

\* A worker takes a step of one route; the other kind of route leaves it idle.
ServerWorker(t) ==
    \/ /\ Worker(t)
       /\ mobilePc[t] = "idle"
       /\ UNCHANGED mobileVars
    \/ /\ Mobile!MobileWorker(t)
       /\ pc[t] = "idle"
       /\ UNCHANGED vars

ServerInit == Init /\ Mobile!MobileInit

ServerNext ==
    \/ \E t \in Workers : ServerWorker(t)
    \/ /\ \E i \in Ids : Reader(i) \/ ProcExit(i)
       /\ UNCHANGED mobileVars
    \/ /\ BoundReached
       /\ UNCHANGED mobileVars
    \/ /\ \E i \in Mobile!MobileIds : Mobile!MobileOperatorFinish(i)
       /\ UNCHANGED vars

ServerSpec ==
    ServerInit /\ [][ServerNext]_serverVars /\ Fairness /\ Mobile!MobileFairness

\* MobileGate's type invariant, in the composed server.
MobileTypeOK == Mobile!MobileTypeOK

(***************************************************************************)
(* Waiters in /mobile-scan's blocking acquire() never hold every worker of *)
(* the shared pool, so /mobile-status (and the cascading routes) can still *)
(* be served.                                                              *)
(***************************************************************************)
MobileWaitersLeaveAWorker == Mobile!MobileWaitersLeaveAWorker

(***************************************************************************)
(* The mobile gate, once taken, is free again without /mobile-reset.      *)
(***************************************************************************)
MobileGateEventuallyFree == Mobile!MobileGateEventuallyFree

=============================================================================
