------------------------------ MODULE MCServing ------------------------------
(***************************************************************************)
(* One publish at a time and what it serves: the values of review items    *)
(* (Publish) and the geometry staged beside them (Geometry).  The two      *)
(* parts share no row; in a behaviour one of them moves.                   *)
(***************************************************************************)
EXTENDS MCPublish, Geometry

CONSTANTS p1, p2, s1, s2

VARIABLE part  \* the part that moves

ServingInit ==
  /\ part \in {"values", "geometry"} /\ Init /\ GeometryInit
  /\ part = "geometry" => rows = {}

ValuesMove == part = "values" /\ Next /\ UNCHANGED <<part, geometryVars>>
GeometryMoves == part = "geometry" /\ GeometryNext /\ UNCHANGED <<part, vars>>

ServingSpec == ServingInit /\ [][ValuesMove \/ GeometryMoves]_<<part, vars, geometryVars>>

ServingSymmetry == Permutations({s1, s2}) \cup Permutations({p1, p2})
=============================================================================
