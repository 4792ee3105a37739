------------------------- MODULE MCPullTransaction -------------------------
(* Instances of PullTransaction for TLC.                                   *)
EXTENDS PullTransactionInv, TLC

\* Processes are interchangeable; files are not, the manifest orders them.
Symmetry == Permutations(Procs)
=============================================================================
