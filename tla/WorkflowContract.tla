-------------------------- MODULE WorkflowContract --------------------------
(***************************************************************************)
(* What package workflow promises about the order in which the steps of a  *)
(* graph are settled, without the coordinator, its counters, the done      *)
(* channel and the goroutines that keep the promise (module Workflow).     *)
(***************************************************************************)
CONSTANTS Steps, After

VARIABLES
    phase,   \* "idle", "running" or "returned"
    status,  \* the result of each step, "none" before it is looked at
    blocked  \* the steps skipped because of a failure or suspension above

cvars == <<phase, status, blocked>>

Settled(s) == status[s] \in {"success", "failed", "suspended", "skipped"}
Satisfied(s) == status[s] \in {"success", "skipped"} /\ s \notin blocked

CInit == /\ phase = "idle"
         /\ status = [s \in Steps |-> "none"]
         /\ blocked = {}

Begin == /\ phase = "idle"
         /\ phase' = "running"
         /\ UNCHANGED <<status, blocked>>

\* A step is started once every step it waits for is satisfied.
Run(s) == /\ phase = "running" /\ status[s] = "none"
          /\ \A u \in After[s] : Satisfied(u)
          /\ status' = [status EXCEPT ![s] = "running"]
          /\ UNCHANGED <<phase, blocked>>

Settle(s, r) == /\ phase = "running" /\ status[s] = "running"
                /\ status' = [status EXCEPT ![s] = r]
                /\ UNCHANGED <<phase, blocked>>

\* A step may be passed over (condition, end of the context) at the same moment.
PassOver(s) == /\ phase = "running" /\ status[s] = "none"
               /\ \A u \in After[s] : Satisfied(u)
               /\ status' = [status EXCEPT ![s] = "skipped"]
               /\ UNCHANGED <<phase, blocked>>

\* A step is blocked once all steps it waits for are settled, one of them badly.
Block(s) == /\ phase = "running" /\ status[s] = "none"
            /\ \A u \in After[s] : Settled(u)
            /\ \E u \in After[s] : ~Satisfied(u)
            /\ status' = [status EXCEPT ![s] = "skipped"]
            /\ blocked' = blocked \cup {s}
            /\ UNCHANGED phase

End == /\ phase = "running"
       /\ \A s \in Steps : Settled(s)
       /\ phase' = "returned"
       /\ UNCHANGED <<status, blocked>>

\* A suspended run is taken up again: all that was satisfied stays, the rest is
\* forgotten, and what stays is closed under dependencies.
Again == /\ phase = "returned"
         /\ \E s \in Steps : status[s] = "suspended"
         /\ phase' = "running"
         /\ status' = [s \in Steps |-> IF Satisfied(s) THEN status[s] ELSE "none"]
         /\ \A s \in Steps : Satisfied(s) => \A u \in After[s] : Satisfied(u)
         /\ blocked' = {}

CNext == \/ Begin \/ End \/ Again
         \/ \E s \in Steps : \/ Run(s) \/ PassOver(s) \/ Block(s)
                             \/ \E r \in {"success", "failed", "suspended"} : Settle(s, r)

CSpec == CInit /\ [][CNext]_cvars
=============================================================================
