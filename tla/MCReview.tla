------------------------------- MODULE MCReview -------------------------------
(* Small instances of Review for TLC. *)
EXTENDS Review, TLC

(* The publish and the decisions alone.                                    *)
NoFaults == [e \in Events |-> 0]
(* An execution fails, one dies, and a message is delivered again while    *)
(* its worker works.                                                       *)
Redelivered == [e \in Events |-> 1]

Workers == Permutations(Executions)
===============================================================================
