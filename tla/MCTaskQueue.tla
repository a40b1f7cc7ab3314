---------------------------- MODULE MCTaskQueue ----------------------------
(* Small instances of TaskQueue for TLC.                                   *)
EXTENDS TaskQueue, TLC

(* Tasks without dependencies; tasks that require the one before.          *)
Alone == [t \in Task |-> {}]
Chain == [t \in Task |-> IF t = 1 THEN {} ELSE {t - 1}]

OneAgent == [t \in Task |-> "agent"]

Incarnations == Permutations(Controller)

=============================================================================
