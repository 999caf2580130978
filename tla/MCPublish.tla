------------------------------ MODULE MCPublish ------------------------------
(* Small instances of Publish for TLC. *)
EXTENDS Publish, TLC

Only(kind, n) == [e \in Events |-> IF e = kind THEN n ELSE 0]
NoEvents == Only("step", 0)

(* Steps fail and the worker dies, but failures can be reported and        *)
(* archives deleted.                                                       *)
StepsFail == [Only("step", 2) EXCEPT !["crash"] = 1]
(* All that can go wrong where a call that fails has no effect.            *)
Troubles == [e \in Events |-> IF e \in {"lostAnswer", "operator", "change"} THEN 0 ELSE 1]
(* Assumptions change, an operator moves the pointer, and a commit or an   *)
(* upload takes effect but reports an error.                               *)
PriceChanges == [Only("change", 2) EXCEPT !["operator"] = 1, !["lostAnswer"] = 1]

Symmetric == Permutations(Runs) \cup Permutations(Items)
==============================================================================
