---------------------------- MODULE MCMcpService -----------------------------
(* Values of McpService's constants for TLC.                               *)
EXTENDS McpService, TLC

CONSTANTS p1, p2

MCProblems == {p1, p2}
ProblemSymmetry == Permutations(MCProblems)

MCSizes == {1}
MCTargets == {"cases", "private"}
=============================================================================
