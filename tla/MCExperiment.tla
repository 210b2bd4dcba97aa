---------------------------- MODULE MCExperiment -----------------------------
(* Values of Experiment's constants for TLC.                               *)
EXTENDS Experiment

MCProblems == {"p1", "p2"}
MCSettings == {"s1", "s2"}
=============================================================================
