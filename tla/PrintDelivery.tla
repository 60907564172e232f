--------------------------- MODULE PrintDelivery ---------------------------
(***************************************************************************)
(* What docs/print-jobs.md promises a client of the print-job service about *)
(* each job: the state it is told and what the printer may have received.   *)
(* Several jobs may step at once (restart recovery, the reaper).            *)
(***************************************************************************)
CONSTANT Jobs

VARIABLES state, effect

Refused == {"failed_before_delivery", "cancelled_before_delivery"}
Settled == Refused \cup {"submitted", "delivery_uncertain"}

Init == state = [j \in Jobs |-> "none"] /\ effect = [j \in Jobs |-> "none"]

\* Nothing reaches the printer before the client can be told "sending", and
\* after that the only answers are "submitted", for a delivery that completed,
\* and "delivery_uncertain".
Reserve(j) == state[j] = "none" /\ state'[j] \in Refused \cup {"accepted"}
Refuse(j) == state[j] = "accepted" /\ state'[j] \in Refused
Begin(j) == state[j] = "accepted" /\ state'[j] = "sending"
Confirm(j) == /\ state[j] = "sending" /\ effect[j] = "complete"
              /\ state'[j] = "submitted"
LoseTrack(j) == state[j] = "sending" /\ state'[j] = "delivery_uncertain"
Forget(j) == state[j] \in Settled /\ state'[j] = "removed"

Keep(j) == effect'[j] = effect[j]

Send(j) ==
  \/ state[j] = "accepted" /\ Begin(j) /\ effect[j] = "none" /\ effect'[j] = "touched"
  \/ /\ state[j] \notin Refused \cup {"none", "accepted"}
     /\ state'[j] = state[j]
     /\ <<effect[j], effect'[j]>> \in {<<"touched", "partial">>, <<"partial", "complete">>}

Step(j) ==
  \/ Send(j)
  \/ Keep(j) /\ (Reserve(j) \/ Refuse(j) \/ Confirm(j) \/ LoseTrack(j) \/ Forget(j))
  \/ Keep(j) /\ state'[j] = state[j]

Next == \A j \in Jobs : Step(j)

Spec == Init /\ [][Next]_<<state, effect>>
=============================================================================
