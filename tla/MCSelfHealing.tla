---------------------------- MODULE MCSelfHealing ----------------------------
(* Instances of SelfHealingOrchestrator for TLC. *)
EXTENDS SelfHealingOrchestrator, TLC

CONSTANTS f1, f2, a1, a2

MCFlow  == {f1, f2}
MCAgent == {a1, a2}
\* a1 serves two flows, so that its answers to one do not count for the other.
MCPlans == (f1 :> {[agents |-> <<a1, a2>>, autoHeal |-> b] : b \in BOOLEAN})
           @@ (f2 :> {[agents |-> <<a1>>, autoHeal |-> TRUE]})
=============================================================================
