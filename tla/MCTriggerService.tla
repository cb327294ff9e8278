------------------------- MODULE MCTriggerService -------------------------
(* Instances of TriggerService: which requests meet on one RIG.             *)
EXTENDS TriggerService, TLC

CONSTANTS start1, start2, sim1, emergency1, override1, stop1, stop2, force1

MCKind == [q \in Requests |->
    CASE q \in {start1, start2} -> "real"
      [] q = sim1 -> "simulation"
      [] q = emergency1 -> "totality"
      [] q = override1 -> "override"
      [] q \in {stop1, stop2} -> "stop"
      [] q = force1 -> "force"]

\* The two graceful STOPs differ in nothing (of use to invariants only).
MCSymmetry == Permutations({stop1, stop2})
=============================================================================
