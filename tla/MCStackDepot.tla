---------------------------- MODULE MCStackDepot ----------------------------
(* Stacks a and b collide in the whole hash, c shares their bucket, d is in  *)
(* another list of the same part and e in another part; a run picks some.    *)
EXTENDS StackDepot

CONSTANTS a, b, c, d, e

MCHashOf ==
  [st \in Stack |-> CASE st = a -> 1 [] st = b -> 1 [] st = c -> 5 [] st = d -> 0 [] st = e -> 2]
=============================================================================
