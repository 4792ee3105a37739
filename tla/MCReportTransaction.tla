------------------------ MODULE MCReportTransaction ------------------------
(* Instances of ReportTransaction for TLC.                                 *)
EXTENDS ReportTransaction, TLC

\* Processes are interchangeable.
Symmetry == Permutations(Procs)
=============================================================================
