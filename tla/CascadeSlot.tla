----------------------------- MODULE CascadeSlot -----------------------------
(***************************************************************************)
(* What the cascading scan controller promises, without threads: a single  *)
(* slot.  A scan claims the free slot, launches its script or gives up,     *)
(* the script ends, and only then is the slot freed.  A script runs only   *)
(* while its scan holds the slot, so at most one runs at a time.           *)
(*                                                                         *)
(* CascadingScan implements this specification when the client never      *)
(* calls /clear-scan or /reset (see CascadingScan's SlotSpec).             *)
(***************************************************************************)
CONSTANTS
    Scans,      \* the scans that may be started
    Free        \* the slot is empty

VARIABLES
    slot,       \* the scan holding the slot, or Free
    script      \* the script of each scan: "none", "running", "exited"

slotVars == <<slot, script>>

SlotTypeOK ==
    /\ slot \in Scans \cup {Free}
    /\ script \in [Scans -> {"none", "running", "exited"}]

SlotInit ==
    /\ slot = Free
    /\ script = [i \in Scans |-> "none"]

\* A scan that has not run yet takes the free slot.
Claim(i) ==
    /\ slot = Free
    /\ script[i] = "none"
    /\ slot' = i
    /\ UNCHANGED script

\* The holder launches its script.
Launch ==
    /\ slot # Free
    /\ script[slot] = "none"
    /\ script' = [script EXCEPT ![slot] = "running"]
    /\ UNCHANGED slot

\* The holder gives up before its script started.
Abort ==
    /\ slot # Free
    /\ script[slot] = "none"
    /\ slot' = Free
    /\ UNCHANGED script

\* The holder's script ends.
End ==
    /\ slot # Free
    /\ script[slot] = "running"
    /\ script' = [script EXCEPT ![slot] = "exited"]
    /\ UNCHANGED slot

\* The slot is freed once the holder's script has ended.
Vacate ==
    /\ slot # Free
    /\ script[slot] = "exited"
    /\ slot' = Free
    /\ UNCHANGED script

SlotNext ==
    \/ \E i \in Scans : Claim(i)
    \/ Launch \/ Abort \/ End \/ Vacate

SlotSpec == SlotInit /\ [][SlotNext]_slotVars

(***************************************************************************)
(* At most one script runs, and it is the slot holder's.                   *)
(***************************************************************************)
OnlyHolderRuns ==
    \A i \in Scans : script[i] = "running" => slot = i

=============================================================================
