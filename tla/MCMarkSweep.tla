----------------------------- MODULE MCMarkSweep -----------------------------
(* MarkSweep on heaps of four objects: chains that run with the list of      *)
(* objects and against it, and two weak containers with an entry each; the   *)
(* recursion stops one level below the roots.                                *)
EXTENDS MarkSweep

MCObjects == 1..4

Chains == {next \in [MCObjects -> MCObjects] : \A o \in MCObjects : next[o] \in (o - 1)..(o + 1)}

Containers ==
  {<<>>} \cup {[k \in {key} |-> value] : key \in MCObjects, value \in {3, 4, NoObject}}

MCHeaps ==
  {[refs    |-> [o \in MCObjects |-> IF o \in roots THEN 2 ELSE 0],
    strong  |-> [o \in MCObjects |-> {next[o]} \ {o}],
    entries |-> <<first, second, <<>>, <<>>>>] :
     roots \in {{1}, {3}, {1, 3}}, next \in Chains, first \in Containers, second \in Containers}
=============================================================================
