---------------------------- MODULE MCCaseRunner -----------------------------
(* Values of CaseRunner's constants for TLC.                               *)
EXTENDS CaseRunner

\* A Docker that grants everything; one that does not, with three cases on two
\* threads, with one worker, with a container per command, and with two pools;
\* the other wrappers, local_visualization in its loop and on its threads.
MCSettings ==
    {RunCases(3, 2, <<"reactive">>, TRUE, FALSE, FALSE),
     RunCases(2, 2, <<"run", "judge">>, TRUE, FALSE, FALSE),
     RunCases(3, 2, <<"reactive">>, TRUE, TRUE, TRUE),
     RunCases(2, 1, <<"run", "judge", "vis">>, TRUE, TRUE, TRUE),
     RunCases(3, 2, <<"run", "judge">>, FALSE, TRUE, TRUE),
     RunCases(2, 2, <<"reactive", "vis">>, TRUE, TRUE, TRUE),
     LocalVisualization(3, 1, TRUE, TRUE),
     LocalVisualization(3, 2, TRUE, TRUE),
     CodeRun(TRUE, TRUE),
     GenerateInputs(TRUE, TRUE)}

MCReactive == {RunCases(2, 2, <<"reactive">>, TRUE, TRUE, FALSE)}
=============================================================================
