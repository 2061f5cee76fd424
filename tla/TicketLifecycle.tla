--------------------------- MODULE TicketLifecycle ---------------------------
(***************************************************************************)
(* What the nodes promise about the state of a ticket they show to their   *)
(* users: the ticket appears, in any state, and from then on it moves only *)
(* OPEN -> IN_PROGRESS, IN_PROGRESS <-> RESOLVED, any of them -> CLOSED,   *)
(* never back to OPEN and never out of CLOSED.  The abstract specification *)
(* that TicketEngine is shown to implement, with one view for every node   *)
(* and ticket; one reduction may move several views.                       *)
(***************************************************************************)
CONSTANTS View,      \* the places where a ticket is shown
          Absent     \* the ticket is not known there
VARIABLE status      \* status[v]: the ticket state shown at v

Working == {"OPEN", "IN_PROGRESS", "RESOLVED"}

LifecycleInit == status = [v \in View |-> Absent]

Appear(v) ==
  /\ status[v] = Absent
  /\ status'[v] \in Working \cup {"CLOSED"}

Progress(v) ==
  /\ status[v] \in Working
  /\ status'[v] \in {"IN_PROGRESS", "RESOLVED"}

Close(v) ==
  /\ status[v] \in Working
  /\ status'[v] = "CLOSED"

LifecycleNext ==
  \A v \in View : Appear(v) \/ Progress(v) \/ Close(v) \/ status'[v] = status[v]

LifecycleSpec == LifecycleInit /\ [][LifecycleNext]_status
==============================================================================
