---------------------------- MODULE MCGroupCommit ----------------------------
(* GroupCommit on small instances.                                         *)
EXTENDS GroupCommit, TLC


=============================================================================
