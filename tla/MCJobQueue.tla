----------------------------- MODULE MCJobQueue -----------------------------
(* Instances of JobQueue for TLC: fault budgets and symmetry. *)
EXTENDS JobQueue, TLC

Faults(crash, restore, ambiguous, refuse, abandon) ==
  [f \in FaultKinds |-> CASE f = "crash" -> crash
                          [] f = "restore" -> restore
                          [] f = "ambiguous" -> ambiguous
                          [] f = "refuse" -> refuse
                          [] OTHER -> abandon]

HarshFaults == Faults(1, 1, 0, 0, 1)
BrokerTrouble == Faults(1, 0, 1, 1, 0)

Symmetric == Permutations(Jobs) \cup Permutations(Callers) \cup Permutations(Workers)
=============================================================================
