------------------------------- MODULE Lifecycle -------------------------------
(***************************************************************************)
(* The server lifecycle that core/lifecycle.ts promises: the states of a   *)
(* server and the transitions that transition() does not refuse.           *)
(***************************************************************************)
VARIABLE lifecycle

AllowedTransitions(from) ==
    CASE from = "STARTING" -> {"RUNNING", "STOPPING"}
      [] from = "RUNNING"  -> {"DRAINING", "STOPPING"}
      [] from = "DRAINING" -> {"STOPPING"}
      [] from = "STOPPING" -> {"STOPPED"}
      [] from = "STOPPED"  -> {"STARTING"}

Init == lifecycle = "STOPPED"

Transition(next) == next \in AllowedTransitions(lifecycle) /\ lifecycle' = next

\* The failure of a start: by STOPPING to STOPPED without a wait between.
FailedStart == /\ lifecycle = "STARTING" /\ "STOPPING" \in AllowedTransitions(lifecycle)
               /\ "STOPPED" \in AllowedTransitions("STOPPING") /\ lifecycle' = "STOPPED"

Next == \/ \E next \in {"STARTING", "RUNNING", "DRAINING", "STOPPING", "STOPPED"} : Transition(next)
        \/ FailedStart

Spec == Init /\ [][Next]_lifecycle
=============================================================================
