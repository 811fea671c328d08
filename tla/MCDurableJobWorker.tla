------------------------- MODULE MCDurableJobWorker -------------------------
(* Model-checking instances of DurableJobWorker. *)
EXTENDS DurableJobWorker, TLC

\* Workers are interchangeable in safety runs.
Symmetry == Permutations(Workers)
=============================================================================
