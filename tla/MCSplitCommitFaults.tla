------------------------ MODULE MCSplitCommitFaults ------------------------
(* The chain of MCSplitCommit for SplitCommitFaults. *)
EXTENDS MCSplitCommit, SplitCommitFaults
=============================================================================
