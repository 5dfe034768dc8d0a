----------------------------- MODULE MCJsonTree -----------------------------
(* Small documents.  An empty object, an empty array and a number tell the  *)
(* calls that build trees apart; for the comparison every number is 0, 1 or *)
(* 2 half EPSILONs.  The names stand for one another.                       *)
EXTENDS JsonTree

OneScalar == {[type |-> "number", data |-> 1]}

NameSymmetry == Permutations(Names)
=============================================================================
