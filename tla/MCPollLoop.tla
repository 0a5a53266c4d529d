----------------------------- MODULE MCPollLoop -----------------------------
(* Small instances of PollLoop: seconds and buffers are scaled down.       *)
EXTENDS PollRefinement, TLC

Symmetry == Permutations(Fd)
=============================================================================
