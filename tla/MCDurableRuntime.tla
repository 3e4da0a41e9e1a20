---------------------------- MODULE MCDurableRuntime ----------------------------
(* Instances of DurableRuntime for TLC. *)
EXTENDS DurableRuntime, TLC

CONSTANTS t1, t2

NoDependencies == [t \in Tasks |-> {}]
Chain == [t \in Tasks |-> IF t = t2 THEN {t1} ELSE {}]

(* Tasks without dependencies are alike. *)
Symmetry == Permutations(Tasks)
=============================================================================
