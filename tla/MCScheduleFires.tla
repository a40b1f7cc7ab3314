-------------------------- MODULE MCScheduleFires --------------------------
(* Small instances of ScheduleFires.                                       *)
EXTENDS ScheduleFires, TLC

Incarnations == Permutations(Controller)
====
