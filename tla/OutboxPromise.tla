---------------------------- MODULE OutboxPromise ----------------------------
(***************************************************************************)
(* What the Telegram outbox promises to the services that enqueue into it, *)
(* with no workers, leases, batches or reports: a message waits until the  *)
(* chat has acknowledged it, until it is given up after too many failures, *)
(* or until a newer snapshot of the same live message takes its place.  It *)
(* is booked as delivered only after it was acknowledged, and what was     *)
(* settled is never taken up again.                                        *)
(***************************************************************************)
CONSTANT Ids

VARIABLES
    stage,   \* of each message
    shown    \* messages the chat has acknowledged at least once

vars == <<stage, shown>>

Stages == {"absent", "waiting", "delivered", "dead", "replaced", "gone"}

TypeOK == stage \in [Ids -> Stages] /\ shown \subseteq Ids

Init == /\ stage = [i \in Ids |-> "absent"]
        /\ shown = {}

(* A message enters; or a snapshot takes over and older ones are replaced. *)
Submit ==
    /\ stage' \in [Ids -> Stages]
    /\ \A i \in Ids : \/ stage'[i] = stage[i]
                      \/ stage[i] = "absent"  /\ stage'[i] = "waiting"
                      \/ stage[i] = "waiting" /\ stage'[i] = "replaced"
    /\ \E i \in Ids : stage'[i] = "waiting"
    /\ UNCHANGED shown

(* The chat acknowledges a message that was submitted, maybe once more. *)
Acknowledge ==
    /\ \E i \in Ids : stage[i] # "absent" /\ shown' = shown \cup {i}
    /\ UNCHANGED stage

(* Bookkeeping of any number of messages at once. *)
Settle ==
    /\ stage' \in [Ids -> Stages]
    /\ \A i \in Ids : \/ stage'[i] = stage[i]
                      \/ /\ stage[i] = "waiting" /\ i \in shown
                         /\ stage'[i] \in {"delivered", "gone"}
                      \/ stage[i] = "waiting" /\ stage'[i] = "dead"
                      \/ stage[i] \in {"delivered", "dead"} /\ stage'[i] = "gone"
    /\ UNCHANGED shown

Next == Submit \/ Acknowledge \/ Settle

Spec == Init /\ [][Next]_vars

=============================================================================
