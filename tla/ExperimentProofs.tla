-------------------------- MODULE ExperimentProofs ---------------------------
(***************************************************************************)
(* For every set of problems, number of workers and limit, and however     *)
(* often the process is cut off: what Experiment keeps in its directory    *)
(* was made under one setting, a success is on the disk, one event loop    *)
(* serves all calls, and the process ends with nothing left open.          *)
(***************************************************************************)
EXTENDS Experiment, FiniteSetTheorems, TLAPS

-----------------------------------------------------------------------------
(* What the three kinds of threads leave alone.                            *)

(* A calling thread. *)
LEMMA CallFrame ==
    ASSUME NEW c \in Callers, Call(c)
    PROVE  UNCHANGED <<rootVars, mainVars, task, sessions>>
BY DEF Call, Acquire, Lock, Submit, Answer, Refused

(* A problem's thread, which adds to what is saved. *)
LEMMA EvaluateFrame ==
    ASSUME NEW p \in Problems, Evaluate(p)
    PROVE  /\ Running
           /\ UNCHANGED <<settingsFile, resultsFile, mainVars, permits, lock, loops, instance>>
           /\ used' \in {used, used \cup {chosen}}
           /\ final \subseteq final'
<1>. USE DEF Saving, Fails
<1>1. CASE Open(p) \/ OpenFails(p)
  BY <1>1 DEF Open, OpenFails, rootVars, callVars
<1>2. CASE \E i \in Samples : SaveSample(p, i) \/ JudgeFails(p, i)
  BY <1>2 DEF SaveSample, JudgeFails, rootVars
<1>3. CASE Sampled(p) \/ Refine(p) \/ RefineFails(p)
  BY <1>3 DEF Sampled, Refine, RefineFails, rootVars
<1>4. CASE Judge(p) \/ Complete(p) \/ EvaluationFails(p)
  BY <1>4 DEF Judge, Complete, EvaluationFails, rootVars, callVars
<1>. QED
  BY <1>1, <1>2, <1>3, <1>4 DEF Evaluate

(* Main before its end. *)
LEMMA MainFrame ==
    ASSUME MainRuns
    PROVE  /\ phase # "down"
           /\ UNCHANGED <<samples, refined, final, used, chosen, runs, task, call, permits, lock>>
           /\ UNCHANGED <<sessions, loops, instance>> \/ Exit
BY DEF MainRuns, WriteSettings, SkipInference, Collect, WriteResults, ReportFails, Collected,
       WriteSummary, Unwound, Exit, rootVars, callVars

-----------------------------------------------------------------------------
(* Types.                                                                  *)

LEMMA InitTypes == Init => RootTypeOK /\ ProcessTypeOK
BY DEF Init, RootTypeOK, ProcessTypeOK, NoResults, Results, Nobody, CallStates

LEMMA BlankTypes ==
    ASSUME Blank, phase' = "down", chosen' \in Settings
    PROVE  ProcessTypeOK'
BY DEF Blank, ProcessTypeOK, NoResults, Results, Nobody, CallStates

(* What main writes into the results file, whole or cut. *)
LEMMA ReportTypes ==
    /\ NoResults \in Results
    /\ \A r \in Results : [is |-> "whole", of |-> r] \in [is : {"missing", "cut", "whole"}, of : Results]
    /\ [is |-> "cut", of |-> NoResults] \in [is : {"missing", "cut", "whole"}, of : Results]
<1>1. NoResults \in Results
  BY DEF NoResults, Results
<1>. QED
  BY <1>1

LEMMA MainTypes ==
    ASSUME RootTypeOK, ProcessTypeOK, MainRuns
    PROVE  RootTypeOK' /\ ProcessTypeOK'
<1>. USE DEF RootTypeOK, ProcessTypeOK
<1>1. CASE WriteSettings \/ SkipInference
  BY <1>1 DEF WriteSettings, SkipInference, callVars
<1>2. ASSUME NEW p \in Problems, Collect(p)
      PROVE  RootTypeOK' /\ ProcessTypeOK'
  <2>1. results' \in Results
    BY <1>2 DEF Collect, Results
  <2>2. resultsFile' \in [is : {"missing", "cut", "whole"}, of : Results]
    BY <1>2, ReportTypes DEF Collect
  <2>. QED
    BY <1>2, <2>1, <2>2 DEF Collect, callVars
<1>3. CASE WriteResults \/ ReportFails \/ Unwound
  <2>1. resultsFile' \in [is : {"missing", "cut", "whole"}, of : Results]
    BY <1>3, ReportTypes DEF WriteResults, ReportFails, Unwound, rootVars
  <2>. QED
    BY <1>3, <2>1 DEF WriteResults, ReportFails, Unwound, rootVars, callVars
<1>4. CASE Collected \/ WriteSummary
  <2>1. resultsFile' \in [is : {"missing", "cut", "whole"}, of : Results]
    BY <1>4, ReportTypes DEF Collected, WriteSummary
  <2>. QED
    BY <1>4, <2>1 DEF Collected, WriteSummary, callVars
<1>5. CASE Exit
  BY <1>5 DEF Exit, rootVars
<1>. QED
  BY <1>1, <1>2, <1>3, <1>4, <1>5 DEF MainRuns

LEMMA EvaluateTypes ==
    ASSUME RootTypeOK, ProcessTypeOK, NEW p \in Problems, Evaluate(p)
    PROVE  RootTypeOK' /\ ProcessTypeOK'
<1>. USE DEF RootTypeOK, ProcessTypeOK, Saving, Fails, Endings, CallStates
<1>1. CASE Open(p) \/ OpenFails(p)
  BY <1>1 DEF Open, OpenFails, rootVars, mainVars, callVars
<1>2. ASSUME NEW i \in Samples, SaveSample(p, i) \/ JudgeFails(p, i)
      PROVE  RootTypeOK' /\ ProcessTypeOK'
  <2>1. call' \in [Callers -> CallStates]
    BY <1>2 DEF SaveSample, JudgeFails
  <2>2. samples' \in [Problems -> SUBSET Samples]
    BY <1>2 DEF SaveSample, JudgeFails, rootVars
  <2>. QED
    BY <1>2, <2>1, <2>2 DEF SaveSample, JudgeFails, rootVars, mainVars
<1>3. CASE Sampled(p)
  BY <1>3 DEF Sampled, rootVars, mainVars
<1>4. CASE Refine(p) \/ RefineFails(p)
  BY <1>4 DEF Refine, RefineFails, rootVars, mainVars
<1>5. CASE Judge(p) \/ Complete(p) \/ EvaluationFails(p)
  BY <1>5 DEF Judge, Complete, EvaluationFails, rootVars, mainVars, callVars
<1>. QED
  BY <1>1, <1>2, <1>3, <1>4, <1>5 DEF Evaluate

(* The first loop, and the only one. *)
LEMMA FirstLoop ==
    ASSUME LoopInUse, instance = 0
    PROVE  NewLoop = 1
BY FS_EmptySet DEF LoopInUse, NewLoop

LEMMA CallTypes ==
    ASSUME RootTypeOK, ProcessTypeOK, LoopInUse, NEW c \in Callers, Call(c)
    PROVE  RootTypeOK' /\ ProcessTypeOK'
<1>. USE CallFrame DEF rootVars, mainVars
<1>1. call' \in [Callers -> CallStates]
  BY DEF ProcessTypeOK, CallStates, Call, Acquire, Lock, Submit, Answer, Refused
<1>2. lock' \in Callers \cup {Nobody}
  BY DEF ProcessTypeOK, Call, Acquire, Lock, Submit, Answer, Refused
<1>3. loops' \subseteq Nat /\ instance' \in Nat
  <2>1. CASE Submit(c) /\ call[c] = "making"
    BY <2>1, FirstLoop DEF ProcessTypeOK, LoopInUse, Submit
  <2>2. CASE ~(Submit(c) /\ call[c] = "making")
    BY <2>2 DEF ProcessTypeOK, Call, Acquire, Lock, Submit, Answer, Refused
  <2>. QED
    BY <2>1, <2>2
<1>. QED
  BY <1>1, <1>2, <1>3 DEF RootTypeOK, ProcessTypeOK

LEMMA NextTypes ==
    ASSUME RootTypeOK, ProcessTypeOK, LoopInUse, [Next]_vars
    PROVE  RootTypeOK' /\ ProcessTypeOK'
<1>1. ASSUME NEW s \in Settings, Start(s)
      PROVE  RootTypeOK' /\ ProcessTypeOK'
  BY <1>1 DEF RootTypeOK, ProcessTypeOK, Start, callVars
<1>2. CASE Again \/ Crash
  BY <1>2, BlankTypes DEF RootTypeOK, ProcessTypeOK, Again, Crash, rootVars
<1>3. CASE UNCHANGED vars
  BY <1>3 DEF RootTypeOK, ProcessTypeOK, vars, rootVars, mainVars, callVars
<1>. QED
  BY <1>1, <1>2, <1>3, MainTypes, EvaluateTypes, CallTypes DEF Next

-----------------------------------------------------------------------------
(* The settings.                                                           *)

LEMMA StartSettings ==
    ASSUME RootTypeOK, SameSettings, NEW s \in Settings, Start(s)
    PROVE  SameSettings'
<1>1. ASSUME NEW t \in used
      PROVE  t = s
  BY <1>1, ExperimentAssumption DEF RootTypeOK, SameSettings, SettingsNeverMixed, Start
<1>. QED
  BY <1>1 DEF SameSettings, SettingsNeverMixed, Start

LEMMA MainSettings ==
    ASSUME SameSettings, MainRuns
    PROVE  SameSettings'
<1>1. CASE WriteSettings \/ SkipInference
  BY <1>1 DEF SameSettings, SettingsNeverMixed, WriteSettings, SkipInference
<1>2. CASE ~(WriteSettings \/ SkipInference)
  <2>1. /\ phase \notin {"down", "settings"}
        /\ phase' \notin {"down", "settings"}
        /\ UNCHANGED <<settingsFile, used, chosen>>
    BY <1>2 DEF MainRuns, Collect, WriteResults, ReportFails, Collected, WriteSummary, Unwound, Exit, rootVars
  <2>. QED
    BY <2>1 DEF SameSettings, SettingsNeverMixed
<1>. QED
  BY <1>1, <1>2

LEMMA EvaluateSettings ==
    ASSUME SameSettings, NEW p \in Problems, Evaluate(p)
    PROVE  SameSettings'
BY EvaluateFrame DEF SameSettings, SettingsNeverMixed, Running, mainVars

LEMMA SettingsStep ==
    ASSUME RootTypeOK, SameSettings, [Next]_vars
    PROVE  SameSettings'
<1>1. CASE Again \/ Crash
  BY <1>1 DEF SameSettings, SettingsNeverMixed, Again, Crash, rootVars
<1>2. ASSUME NEW c \in Callers, Call(c)
      PROVE  SameSettings'
  BY <1>2, CallFrame DEF SameSettings, SettingsNeverMixed, rootVars, mainVars
<1>3. CASE UNCHANGED vars
  BY <1>3 DEF SameSettings, SettingsNeverMixed, vars, rootVars, mainVars
<1>. QED
  BY <1>1, <1>2, <1>3, StartSettings, MainSettings, EvaluateSettings DEF Next

-----------------------------------------------------------------------------
(* The results.                                                            *)

LEMMA MainSaved ==
    ASSUME RootTypeOK, ProcessTypeOK, SavedFirst, MainRuns
    PROVE  SavedFirst'
<1>. USE DEF SavedFirst
<1>1. ASSUME NEW p \in Problems, Collect(p)
      PROVE  SavedFirst'
  BY <1>1 DEF Collect, NoResults, ProcessTypeOK, Results
<1>2. CASE SkipInference
  BY <1>2 DEF SkipInference
<1>3. CASE WriteResults \/ WriteSummary
  BY <1>3 DEF WriteResults, WriteSummary
<1>4. CASE Collected
  BY <1>4 DEF Collected, NoResults
<1>5. CASE WriteSettings \/ ReportFails \/ Unwound \/ Exit
  BY <1>5 DEF WriteSettings, ReportFails, Unwound, Exit, rootVars
<1>. QED
  BY <1>1, <1>2, <1>3, <1>4, <1>5 DEF MainRuns

LEMMA EvaluateSaved ==
    ASSUME ProcessTypeOK, SavedFirst, NEW p \in Problems, Evaluate(p)
    PROVE  SavedFirst'
<1>1. ASSUME NEW q \in Problems, task'[q] \in {"closing", "ok"}
      PROVE  q \in final'
  <2>1. CASE Judge(p)
    BY <1>1, <2>1 DEF Judge, ProcessTypeOK, SavedFirst
  <2>2. CASE Complete(p)
    BY <1>1, <2>2 DEF Complete, ProcessTypeOK, SavedFirst, rootVars
  <2>3. CASE ~Judge(p) /\ ~Complete(p)
    <3>1. task'[q] = task[q]
      BY <1>1, <2>3 DEF ProcessTypeOK, Evaluate, Open, OpenFails, SaveSample, JudgeFails,
         Sampled, Refine, RefineFails, EvaluationFails, Fails
    <3>. QED
      BY <1>1, <3>1, EvaluateFrame DEF SavedFirst
  <2>. QED
    BY <2>1, <2>2, <2>3
<1>. QED
  BY <1>1, EvaluateFrame DEF SavedFirst, mainVars

LEMMA SavedStep ==
    ASSUME RootTypeOK, ProcessTypeOK, SavedFirst, [Next]_vars
    PROVE  SavedFirst'
<1>1. ASSUME NEW s \in Settings, Start(s)
      PROVE  SavedFirst'
  BY <1>1 DEF SavedFirst, Start
<1>2. CASE Again \/ Crash
  BY <1>2 DEF SavedFirst, Again, Crash, Blank, NoResults, rootVars
<1>3. ASSUME NEW c \in Callers, Call(c)
      PROVE  SavedFirst'
  BY <1>3, CallFrame DEF SavedFirst, rootVars, mainVars
<1>4. CASE UNCHANGED vars
  BY <1>4 DEF SavedFirst, vars, rootVars, mainVars
<1>. QED
  BY <1>1, <1>2, <1>3, <1>4, MainSaved, EvaluateSaved DEF Next

-----------------------------------------------------------------------------
(* Calls and the evaluations that wait for them.                           *)

(* Only a problem that samples or refines has a call. *)
LEMMA CallOf ==
    ASSUME CallsOfTasks, NEW c \in Callers, call[c] # "idle"
    PROVE  /\ task[c[1]] \in {"sampling", "refining"}
           /\ task[c[1]] = (IF c[2] = 0 THEN "refining" ELSE "sampling")
           /\ c[1] \in Problems
           /\ Running
<1>1. /\ task[c[1]] = (IF c[2] = 0 THEN "refining" ELSE "sampling")
      /\ c[1] \in Problems
  BY DEF CallsOfTasks, Callers
<1>. QED
  BY <1>1 DEF CallsOfTasks, Running, Endings

LEMMA CallCalls ==
    ASSUME ProcessTypeOK, CallsOfTasks, NEW c \in Callers, Call(c)
    PROVE  CallsOfTasks'
<1>1. ASSUME NEW d \in Callers, call'[d] # "idle"
      PROVE  call[d] # "idle"
  BY <1>1 DEF ProcessTypeOK, Call, Acquire, Lock, Submit, Answer, Refused
<1>. QED
  BY <1>1, CallFrame DEF CallsOfTasks, mainVars

LEMMA MainCalls ==
    ASSUME ProcessTypeOK, CallsOfTasks, MainRuns
    PROVE  CallsOfTasks'
<1>1. UNCHANGED <<call, task>>
  BY MainFrame
<1>2. ASSUME NEW p \in Problems, Collect(p)
      PROVE  CallsOfTasks'
  <2>1. \A q \in Problems : results'[q] # "none" => task[q] \in Endings
    BY <1>2 DEF Collect, ProcessTypeOK, Results, CallsOfTasks
  <2>. QED
    BY <1>1, <1>2, <2>1 DEF Collect, CallsOfTasks
<1>3. CASE WriteSettings \/ SkipInference \/ WriteResults \/ ReportFails
  BY <1>1, <1>3 DEF CallsOfTasks, WriteSettings, SkipInference, WriteResults, ReportFails
<1>4. CASE Collected \/ WriteSummary \/ Unwound \/ Exit
  BY <1>1, <1>4 DEF CallsOfTasks, Collected, WriteSummary, Unwound, Exit
<1>. QED
  BY <1>2, <1>3, <1>4 DEF MainRuns

(* A problem whose evaluation goes on has, or gets, only the calls it waits for. *)
LEMMA EvaluateCalls ==
    ASSUME ProcessTypeOK, CallsOfTasks, NEW p \in Problems, Evaluate(p)
    PROVE  CallsOfTasks'
<1>1. ASSUME NEW q \in Problems, q # p
      PROVE  task'[q] = task[q]
  BY <1>1 DEF ProcessTypeOK, Evaluate, Open, OpenFails, SaveSample, JudgeFails, Sampled, Refine,
     RefineFails, Judge, Complete, EvaluationFails, Fails
<1>2. ASSUME NEW c \in Callers, c[1] # p
      PROVE  call'[c] = call[c]
  <2>1. CASE Open(p) \/ OpenFails(p) \/ Judge(p) \/ Complete(p) \/ EvaluationFails(p)
    BY <1>2, <2>1 DEF Open, OpenFails, Judge, Complete, EvaluationFails, callVars
  <2>2. \A i : <<p, i>> # c
    BY <1>2
  <2>3. CASE Sampled(p) \/ Refine(p) \/ RefineFails(p) \/ \E i \in Samples : SaveSample(p, i) \/ JudgeFails(p, i)
    BY <2>2, <2>3 DEF ProcessTypeOK, Sampled, Refine, RefineFails, SaveSample, JudgeFails
  <2>. QED
    BY <2>1, <2>3 DEF Evaluate
<1>3. task[p] \notin Endings
  <2>1. \A i \in Samples : call[<<p, i>>] # "idle" => task[p] \notin Endings
    <3>1. \A i \in Samples : <<p, i>> \in Callers
      BY ExperimentAssumption DEF Callers, Samples
    <3>. QED
      BY <3>1, CallOf DEF Endings
  <2>. QED
    BY <2>1 DEF Endings, Evaluate, Open, OpenFails, SaveSample, JudgeFails, Sampled, Refine,
       RefineFails, Judge, Complete, EvaluationFails
<1>4. ASSUME NEW c \in Callers, c[1] = p, call'[c] # "idle"
      PROVE  task'[p] = (IF c[2] = 0 THEN "refining" ELSE "sampling")
  <2>1. c[2] \in 0..Workers /\ c = <<c[1], c[2]>>
    BY DEF Callers
  <2>2. CASE Open(p) \/ OpenFails(p)
    <3>1. call[c] = "idle"
      BY <1>4, <2>2, CallOf DEF Open, OpenFails
    <3>2. Open(p) /\ c[2] # 0
      BY <1>4, <2>2, <3>1, ExperimentAssumption DEF Open, OpenFails, Samples, callVars
    <3>. QED
      BY <1>4, <3>2 DEF Open, ProcessTypeOK
  <2>3. ASSUME NEW i \in Samples, SaveSample(p, i) \/ JudgeFails(p, i)
        PROVE  task'[p] = (IF c[2] = 0 THEN "refining" ELSE "sampling")
    <3>1. call[c] # "idle" /\ task' = task
      BY <1>4, <2>3 DEF SaveSample, JudgeFails, ProcessTypeOK
    <3>. QED
      BY <1>4, <3>1, CallOf
  <2>4. CASE Sampled(p)
    <3>1. call[c] = "idle"
      BY <1>4, <2>4 DEF Sampled, CallsOf
    <3>. QED
      BY <1>4, <2>1, <2>4, <3>1 DEF Sampled, ProcessTypeOK, Fails
  <2>5. CASE Refine(p) \/ RefineFails(p)
    <3>1. c[2] # 0
      BY <1>4, <2>1, <2>5 DEF Refine, RefineFails, ProcessTypeOK
    <3>2. call[c] # "idle" /\ task[p] = "refining"
      BY <1>4, <2>1, <2>5, <3>1 DEF Refine, RefineFails, ProcessTypeOK
    <3>. QED
      BY <1>4, <3>1, <3>2, CallOf
  <2>6. CASE Judge(p) \/ Complete(p) \/ EvaluationFails(p)
    <3>1. call[c] # "idle" /\ task[p] \in {"judging", "closing"}
      BY <1>4, <2>6 DEF Judge, Complete, EvaluationFails, callVars
    <3>. QED
      BY <1>4, <3>1, CallOf
  <2>. QED
    BY <2>2, <2>3, <2>4, <2>5, <2>6 DEF Evaluate
<1>5. \A c \in Callers : call'[c] # "idle" => task'[c[1]] = (IF c[2] = 0 THEN "refining" ELSE "sampling")
  <2>. SUFFICES ASSUME NEW c \in Callers, call'[c] # "idle"
                PROVE  task'[c[1]] = (IF c[2] = 0 THEN "refining" ELSE "sampling")
    OBVIOUS
  <2>1. c[1] \in Problems
    BY DEF Callers
  <2>. QED
    BY <1>1, <1>2, <1>4, <2>1 DEF CallsOfTasks
<1>. QED
  BY <1>1, <1>3, <1>5, EvaluateFrame DEF CallsOfTasks, Running, mainVars

LEMMA CallsStep ==
    ASSUME ProcessTypeOK, CallsOfTasks, [Next]_vars
    PROVE  CallsOfTasks'
<1>1. ASSUME NEW s \in Settings, Start(s)
      PROVE  CallsOfTasks'
  BY <1>1 DEF CallsOfTasks, Start, callVars
<1>2. CASE Again \/ Crash
  BY <1>2 DEF CallsOfTasks, Again, Crash, Blank, NoResults, Callers
<1>3. CASE UNCHANGED vars
  BY <1>3 DEF CallsOfTasks, vars, rootVars, mainVars, callVars
<1>. QED
  BY <1>1, <1>2, <1>3, CallCalls, MainCalls, EvaluateCalls DEF Next

-----------------------------------------------------------------------------
(* The loop.                                                               *)

(* At the end no call is left that could want it. *)
LEMMA NoCallAtExit ==
    ASSUME ProcessTypeOK, CallsOfTasks, ~Running, NEW c \in Callers
    PROVE  call[c] = "idle"
BY CallOf

LEMMA CallLoop ==
    ASSUME ProcessTypeOK, LoopInUse, NEW c \in Callers, Call(c)
    PROVE  LoopInUse'
<1>1. CASE Acquire(c) \/ Answer(c) \/ Refused(c)
  BY <1>1 DEF ProcessTypeOK, LoopInUse, Acquire, Answer, Refused
<1>2. CASE Lock(c)
  <2>1. \A d \in Callers : call[d] \notin {"making", "reusing"}
    BY <1>2 DEF LoopInUse, Lock, Nobody, Callers
  <2>. QED
    BY <1>2, <2>1 DEF ProcessTypeOK, LoopInUse, Lock
<1>3. CASE Submit(c)
  <2>1. \A d \in Callers : d # c => call[d] \notin {"making", "reusing"}
    BY <1>3 DEF LoopInUse, Submit
  <2>2. CASE call[c] = "making"
    <3>1. instance = 0 /\ NewLoop = 1
      BY <2>2, FirstLoop DEF LoopInUse
    <3>. QED
      BY <1>3, <2>1, <2>2, <3>1 DEF ProcessTypeOK, LoopInUse, Submit
  <2>3. CASE call[c] # "making"
    BY <1>3, <2>1, <2>3 DEF ProcessTypeOK, LoopInUse, Submit
  <2>. QED
    BY <2>2, <2>3
<1>. QED
  BY <1>1, <1>2, <1>3 DEF Call

LEMMA EvaluateLoop ==
    ASSUME ProcessTypeOK, LoopInUse, NEW p \in Problems, Evaluate(p)
    PROVE  LoopInUse'
<1>1. ASSUME NEW c \in Callers
      PROVE  call'[c] \in {call[c], "idle", "ready"}
  BY DEF ProcessTypeOK, Evaluate, Open, OpenFails, SaveSample, JudgeFails, Sampled, Refine,
     RefineFails, Judge, Complete, EvaluationFails, callVars
<1>. QED
  BY <1>1, EvaluateFrame DEF LoopInUse

LEMMA LoopStep ==
    ASSUME ProcessTypeOK, CallsOfTasks, LoopInUse, [Next]_vars
    PROVE  LoopInUse'
<1>1. ASSUME NEW s \in Settings, Start(s)
      PROVE  LoopInUse'
  BY <1>1 DEF LoopInUse, Start, callVars
<1>2. CASE Again \/ Crash
  BY <1>2 DEF LoopInUse, Again, Crash, Blank
<1>3. CASE MainRuns
  <2>1. CASE Exit
    <3>1. \A c \in Callers : call[c] = "idle"
      BY <2>1, NoCallAtExit DEF Exit, Running
    <3>. QED
      BY <2>1, <3>1 DEF LoopInUse, Exit
  <2>2. CASE ~Exit
    BY <1>3, <2>2, MainFrame DEF LoopInUse
  <2>. QED
    BY <2>1, <2>2
<1>4. CASE UNCHANGED vars
  BY <1>4 DEF LoopInUse, vars, callVars
<1>. QED
  BY <1>1, <1>2, <1>3, <1>4, CallLoop, EvaluateLoop DEF Next

-----------------------------------------------------------------------------
(* The invariant and what follows from it.                                 *)

LEMMA InitInv == Init => ExperimentInv
<1>. SUFFICES ASSUME Init
              PROVE  ExperimentInv
  OBVIOUS
<1>1. SameSettings
  BY DEF Init, SameSettings, SettingsNeverMixed
<1>2. SavedFirst
  BY DEF Init, SavedFirst, NoResults
<1>3. CallsOfTasks
  BY DEF Init, CallsOfTasks, NoResults
<1>4. LoopInUse
  BY DEF Init, LoopInUse
<1>. QED
  BY <1>1, <1>2, <1>3, <1>4, InitTypes DEF ExperimentInv

\* What the run of Experiment checks of its files, its calls and its loop is kept by
\* every step, for any number of problems, workers and calls.
THEOREM ExperimentInvariant == Spec => []ExperimentInv
<1>1. ExperimentInv /\ [Next]_vars => ExperimentInv'
  BY NextTypes, SettingsStep, SavedStep, CallsStep, LoopStep DEF ExperimentInv
<1>. QED
  BY InitInv, <1>1, PTL DEF Spec

\* All that was saved in a root directory was made under one setting (main's checks of
\* experiment_settings.json), however its runs ended.
THEOREM ExperimentSettingsNeverMixed == Spec => []SettingsNeverMixed
<1>1. ExperimentInv => SettingsNeverMixed
  BY DEF ExperimentInv, SameSettings
<1>. QED
  BY <1>1, ExperimentInvariant, PTL

\* A problem that results.json, or main's own results, calls a success has its
\* final_results.json.
THEOREM ExperimentSuccessIsOnDisk == Spec => []SuccessIsOnDisk
<1>1. ExperimentInv => SuccessIsOnDisk
  BY DEF ExperimentInv, SavedFirst, SuccessIsOnDisk
<1>. QED
  BY <1>1, ExperimentInvariant, PTL

\* SHARED_ASYNC_LOOP_STATE never leads to a second event loop, nor leaves a call with none.
THEOREM ExperimentOneLoop == Spec => []OneLoop
<1>1. ExperimentInv => OneLoop
  BY FS_EmptySet, FS_Singleton DEF ExperimentInv, LoopInUse, OneLoop
<1>. QED
  BY <1>1, ExperimentInvariant, PTL

-----------------------------------------------------------------------------
(* The end of the process.                                                 *)

Closed == phase = "done" => sessions = {} /\ loops = {}

LEMMA ClosedStep ==
    ASSUME ExperimentInv, Closed, [Next]_vars
    PROVE  Closed'
<1>. USE DEF Closed
<1>1. CASE MainRuns
  BY <1>1, MainFrame DEF MainRuns, WriteSettings, SkipInference, Collect, WriteResults, ReportFails,
     Collected, WriteSummary, Unwound, Exit
<1>2. ASSUME NEW p \in Problems, Evaluate(p)
      PROVE  Closed'
  BY <1>2, EvaluateFrame DEF Running, mainVars
<1>3. ASSUME NEW c \in Callers, Call(c)
      PROVE  Closed'
  <2>1. call[c] # "idle"
    BY <1>3 DEF Call, Acquire, Lock, Submit, Answer, Refused
  <2>2. phase # "done"
    BY <2>1, CallOf DEF ExperimentInv, Running
  <2>. QED
    BY <1>3, <2>2, CallFrame DEF mainVars
<1>4. CASE Again \/ Crash \/ \E s \in Settings : Start(s)
  BY <1>4 DEF Again, Crash, Start
<1>5. CASE UNCHANGED vars
  BY <1>5 DEF vars, mainVars, callVars
<1>. QED
  BY <1>1, <1>2, <1>3, <1>4, <1>5 DEF Next

\* Nothing is under way once main has left its executor, and nothing is left open once
\* the exit handlers have run.
THEOREM ExperimentCleanEnd == Spec => []CleanEnd
<1>1. Init => Closed
  BY DEF Init, Closed
<1>2. Spec => []Closed
  BY <1>1, ClosedStep, ExperimentInvariant, PTL DEF Spec
<1>3. ExperimentInv /\ Closed => CleanEnd
  <2>. SUFFICES ASSUME ExperimentInv, Closed, phase \in {"summary", "exit", "done"}
                PROVE  /\ Unfinished = {}
                       /\ \A c \in Callers : call[c] = "idle"
                       /\ phase = "done" => sessions = {} /\ loops = {}
    BY DEF CleanEnd
  <2>1. Unfinished = {}
    BY DEF ExperimentInv, CallsOfTasks, Unfinished
  <2>2. \A c \in Callers : call[c] = "idle"
    BY NoCallAtExit DEF ExperimentInv, Running
  <2>. QED
    BY <2>1, <2>2 DEF Closed
<1>. QED
  BY <1>2, <1>3, ExperimentInvariant, PTL

-----------------------------------------------------------------------------
(* The semaphore.                                                          *)

Balance ==
    /\ IsFiniteSet(Holders)
    /\ permits \in Nat
    /\ PermitsBalance

(* A thread that takes or gives back no permit does not change who holds one. *)
LEMMA EvaluateHolders ==
    ASSUME ProcessTypeOK, CallsOfTasks, NEW p \in Problems, Evaluate(p)
    PROVE  Holders' = Holders
<1>1. CASE Open(p)
  <2>1. ASSUME NEW c \in Callers, c[1] = p
        PROVE  call[c] = "idle"
    BY <1>1, <2>1, CallOf DEF Open
  <2>2. \A c \in Callers : call'[c] = call[c] \/ (call[c] = "idle" /\ call'[c] = "ready")
    BY <1>1, <2>1 DEF Open
  <2>. QED
    BY <2>2 DEF Holders
<1>2. ASSUME NEW i \in Samples, SaveSample(p, i) \/ JudgeFails(p, i)
      PROVE  Holders' = Holders
  BY <1>2 DEF SaveSample, JudgeFails, Holders, ProcessTypeOK
<1>3. CASE Sampled(p)
  <2>1. \A c \in Callers : call'[c] = call[c] \/ (call[c] = "idle" /\ call'[c] = "ready")
    BY <1>3 DEF Sampled, CallsOf, ProcessTypeOK
  <2>. QED
    BY <2>1 DEF Holders
<1>4. CASE Refine(p) \/ RefineFails(p)
  BY <1>4 DEF Refine, RefineFails, Holders, ProcessTypeOK
<1>5. CASE OpenFails(p) \/ Judge(p) \/ Complete(p) \/ EvaluationFails(p)
  BY <1>5 DEF OpenFails, Judge, Complete, EvaluationFails, Holders, callVars
<1>. QED
  BY <1>1, <1>2, <1>3, <1>4, <1>5 DEF Evaluate

LEMMA CallBalance ==
    ASSUME ProcessTypeOK, Balance, NEW c \in Callers, Call(c)
    PROVE  Balance'
<1>. USE DEF ProcessTypeOK
<1>1. Cardinality(Holders) \in Nat
  BY FS_CardinalityType DEF Balance
<1>2. CASE Acquire(c)
  <2>1. c \notin Holders /\ Holders' = Holders \cup {c}
    BY <1>2 DEF Acquire, Holders
  <2>2. IsFiniteSet(Holders') /\ Cardinality(Holders') = Cardinality(Holders) + 1
    BY <2>1, FS_AddElement DEF Balance
  <2>. QED
    BY <1>1, <1>2, <2>2, ExperimentAssumption DEF Acquire, Balance, PermitsBalance
<1>3. CASE Lock(c) \/ Submit(c)
  <2>1. Holders' = Holders /\ permits' = permits
    BY <1>3 DEF Lock, Submit, Holders
  <2>. QED
    BY <2>1 DEF Balance, PermitsBalance
<1>4. CASE Answer(c) \/ Refused(c)
  <2>1. c \in Holders /\ Holders' = Holders \ {c}
    BY <1>4 DEF Answer, Refused, Holders
  <2>2. IsFiniteSet(Holders') /\ Cardinality(Holders') = Cardinality(Holders) - 1
    BY <2>1, FS_RemoveElement DEF Balance
  <2>. QED
    BY <1>1, <1>4, <2>2, ExperimentAssumption DEF Answer, Refused, Balance, PermitsBalance
<1>. QED
  BY <1>2, <1>3, <1>4 DEF Call

LEMMA FreshBalance ==
    ASSUME call = [c \in Callers |-> "idle"], permits = MaxCalls
    PROVE  Balance
<1>1. Holders = {}
  BY DEF Holders
<1>. QED
  BY <1>1, FS_EmptySet, ExperimentAssumption DEF Balance, PermitsBalance

LEMMA BalanceStep ==
    ASSUME ExperimentInv, Balance, [Next]_vars
    PROVE  Balance'
<1>1. CASE Again \/ Crash
  <2>1. /\ call' = [c \in Callers |-> "idle"]
        /\ permits' = MaxCalls
        /\ Holders' = {}
    BY <1>1 DEF Again, Crash, Blank, Holders
  <2>. QED
    BY <2>1, FS_EmptySet, ExperimentAssumption DEF Balance, PermitsBalance
<1>2. ASSUME NEW p \in Problems, Evaluate(p)
      PROVE  Balance'
  BY <1>2, EvaluateFrame, EvaluateHolders DEF ExperimentInv, Balance, PermitsBalance
<1>3. ASSUME NEW c \in Callers, Call(c)
      PROVE  Balance'
  BY <1>3, CallBalance DEF ExperimentInv
<1>4. CASE MainRuns \/ UNCHANGED vars \/ \E s \in Settings : Start(s)
  <2>1. UNCHANGED <<call, permits>>
    BY <1>4, MainFrame DEF vars, callVars, Start
  <2>. QED
    BY <2>1 DEF Balance, PermitsBalance, Holders
<1>. QED
  BY <1>1, <1>2, <1>3, <1>4 DEF Next

LEMMA BalanceInvariant == Spec => []Balance
<1>1. Init => Balance
  BY FreshBalance DEF Init
<1>. QED
  BY <1>1, BalanceStep, ExperimentInvariant, PTL DEF Spec

\* llm_semaphore: as many calls hold a permit as are taken from it, whatever the calls
\* raise, for any number of callers and permits.
THEOREM ExperimentPermitsBalance == Spec => []PermitsBalance
<1>1. Balance => PermitsBalance
  BY DEF Balance
<1>. QED
  BY <1>1, BalanceInvariant, PTL

\* Every variable of Experiment keeps its type.
THEOREM ExperimentTypeOK == Spec => []TypeOK
<1>1. Init => runs \in 0..MaxRuns
  BY ExperimentAssumption DEF Init
<1>2. runs \in 0..MaxRuns /\ [Next]_vars => (runs \in 0..MaxRuns)'
  <2>. SUFFICES ASSUME runs \in 0..MaxRuns, [Next]_vars
                PROVE  (runs \in 0..MaxRuns)'
    OBVIOUS
  <2>1. ASSUME NEW s \in Settings, Start(s)
        PROVE  (runs \in 0..MaxRuns)'
    BY <2>1, ExperimentAssumption DEF Start
  <2>2. CASE Again \/ Crash \/ UNCHANGED vars
    BY <2>2 DEF Again, Crash, vars, mainVars
  <2>. QED
    BY <2>1, <2>2, MainFrame, EvaluateFrame, CallFrame DEF Next, mainVars
<1>3. Spec => [](runs \in 0..MaxRuns)
  BY <1>1, <1>2, PTL DEF Spec
<1>4. ExperimentInv /\ Balance /\ runs \in 0..MaxRuns => TypeOK
  <2>. SUFFICES ASSUME ExperimentInv, Balance, runs \in 0..MaxRuns
                PROVE  TypeOK
    OBVIOUS
  <2>1. Cardinality(Holders) \in Nat
    BY FS_CardinalityType DEF Balance
  <2>2. permits \in 0..MaxCalls
    BY <2>1, ExperimentAssumption DEF Balance, PermitsBalance
  <2>. QED
    BY <2>2 DEF ExperimentInv, TypeOK
<1>. QED
  BY <1>3, <1>4, ExperimentInvariant, BalanceInvariant, PTL

=============================================================================
