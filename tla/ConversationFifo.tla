-------------------------- MODULE ConversationFifo --------------------------
(***************************************************************************)
(* What a conversation promises about its turns, without controllers,      *)
(* leases or crashes: turns are admitted in order, one at a time executes  *)
(* and only when every earlier one is over, a waiting turn may instead be  *)
(* merged into the one executing before it, and a turn that is over stays  *)
(* over.  DirectTurns implements this.                                     *)
(***************************************************************************)
EXTENDS Integers

CONSTANT NTurns

VARIABLE stage

Slot == 1 .. NTurns
Stage == {"absent", "waiting", "executing", "merging", "over"}
Earlier(t) == 1 .. (t - 1)

Init == stage = [t \in Slot |-> "absent"]

Admissible(t) == stage[t] = "absent" /\ \A u \in Earlier(t) : stage[u] # "absent"

Admit(t) ==
    /\ Admissible(t)
    /\ stage' = [stage EXCEPT ![t] = "waiting"]

(* Only the head of the queue starts.                                      *)
Start(t) ==
    /\ stage[t] = "waiting"
    /\ \A u \in Earlier(t) : stage[u] = "over"
    /\ stage' = [stage EXCEPT ![t] = "executing"]

(* The first waiting turn joins the one that executes.                     *)
Merge(t) ==
    /\ stage[t] = "waiting"
    /\ \E u \in Earlier(t) : stage[u] = "executing"
    /\ \A u \in Earlier(t) : stage[u] # "waiting"
    /\ stage' = [stage EXCEPT ![t] = "merging"]

(* An attempt is given up and the turn waits again.                        *)
Requeue(t) ==
    /\ stage[t] \in {"executing", "merging"}
    /\ stage' = [stage EXCEPT ![t] = "waiting"]

(* One turn ends, or a cancellation ends several waiting ones.             *)
Finish(S) ==
    /\ S # {}
    /\ \A t \in S : stage[t] \in {"waiting", "executing", "merging"}
    /\ \A t \in S : stage[t] = "waiting" \/ S = {t}
    /\ stage' = [t \in Slot |-> IF t \in S THEN "over" ELSE stage[t]]

(* A turn ends and its continuation is admitted in the same instant.       *)
Handoff(t, n) ==
    /\ stage[t] = "executing"
    /\ Admissible(n)
    /\ stage' = [stage EXCEPT ![t] = "over", ![n] = "waiting"]

Next ==
    \/ \E t \in Slot : Admit(t) \/ Start(t) \/ Merge(t) \/ Requeue(t)
    \/ \E S \in SUBSET Slot : Finish(S)
    \/ \E t, n \in Slot : Handoff(t, n)

Spec == Init /\ [][Next]_stage

=============================================================================
