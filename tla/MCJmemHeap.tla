------------------------------ MODULE MCJmemHeap ------------------------------
(* JmemHeap on an area of a few words; the owners are interchangeable.       *)
EXTENDS JmemHeap, TLC

OwnerSymmetry == Permutations(Owners)
=============================================================================
