----------------------------- MODULE MCPcdbRuns ------------------------------
(* PcdbRuns on small instances.                                            *)
EXTENDS PcdbRuns, TLC

FlusherSymmetry == Permutations(Flushers)

=============================================================================
