---------------------------- MODULE MCDriverHost ----------------------------
(* The host process for TLC: two device nodes, four logs.                  *)
EXTENDS DriverHost, TLC

\* The nodes are interchangeable.
Symmetry == Permutations(Device)
=============================================================================
