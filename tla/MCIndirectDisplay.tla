-------------------------- MODULE MCIndirectDisplay --------------------------
(* Instances of the running driver for TLC.                                 *)
EXTENDS IndirectDisplay, TLC

\* Handles are interchangeable; used by the runs without liveness.
Symmetry == Permutations(Chain)
=============================================================================
