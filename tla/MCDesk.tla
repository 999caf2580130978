------------------------------- MODULE MCDesk -------------------------------
(***************************************************************************)
(* Two desks of the office that share no row: the one that drives orders   *)
(* and the one that has documents read.  In a behaviour one of them moves, *)
(* which visits every state of each.                                       *)
(***************************************************************************)
EXTENDS Orders, Extraction, TLC

CONSTANTS s1, s2, x1, x2, f1

(* s1 and s2 are the requests of both parts, x1 and x2 also the workers.   *)
FaultPairs == {{"again"}, {"outage", "retry"}, {"die", "retry"}, {"deploy", "retry"},
               {"die", "deploy"}, {"deploy", "outage"}}
Symmetric == Permutations({s1, s2}) \cup Permutations({x1, x2})

VARIABLE part  \* the part that moves

DeskInit == part \in {"orders", "extraction"} /\ Init /\ ExtractionInit

OrdersMove == part = "orders" /\ Next /\ UNCHANGED <<part, extractionVars>>
ExtractionMoves == part = "extraction" /\ ExtractionNext /\ UNCHANGED <<part, vars>>

DeskSpec == DeskInit /\ [][OrdersMove \/ ExtractionMoves]_<<part, vars, extractionVars>>
=============================================================================
