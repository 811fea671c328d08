------------------------- MODULE MCPartitionCluster -------------------------
(* Model-checking instances of PartitionCluster. *)
EXTENDS PartitionCluster, TLC

\* Workers are interchangeable, and so are the partitions of a run.
Symmetry == Permutations(Workers) \cup Permutations(Messages)
=============================================================================
