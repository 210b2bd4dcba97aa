------------------------------ MODULE Experiment -----------------------------
(***************************************************************************)
(* An experiment from its root directory (ale_bench_eval/__main__.py): the *)
(* settings that a run checks and rewrites, the problems evaluated in      *)
(* parallel, the model calls of their threads under one semaphore and on   *)
(* one event loop (safe_generation.py, shared_async_loop.py), the results  *)
(* file, the end of the process, and its restart after a crash.            *)
(*                                                                         *)
(* RepeatedSampling, SelfRefine and PrivateEval say what a problem's files *)
(* hold; here a problem has as many samples as workers, one call each, one *)
(* refinement, and a final result.                                         *)
(***************************************************************************)
EXTENDS Naturals, FiniteSets

CONSTANTS
    Problems,
    Workers,            \* max_repeated_sampling_workers, and the samples
    MaxParallel,        \* max_parallel_problems
    MaxCalls,           \* max_concurrent_llm_calls
    Settings,           \* what main compares of the settings
    MaxRuns             \* bound: starts of the process

ASSUME ExperimentAssumption ==
    /\ {Workers, MaxParallel, MaxCalls} \subseteq Nat \ {0}
    /\ MaxRuns \in Nat
    /\ {"missing", "cut"} \cap Settings = {}

VARIABLES
    \* the root directory
    settingsFile,   \* experiment_settings.json
    resultsFile,    \* results.json
    samples,        \* each problem's saved samples
    refined,        \* the problems whose refinement is saved
    final,          \* those whose final results are
    used,           \* history: the settings under which something was saved
    \* the process
    phase,          \* what main is doing
    chosen,         \* the settings of this run
    results,        \* results: how the problems that were collected ended
    task,           \* where each problem's evaluation is, or how it ended
    sessions,       \* the problems with a session that is not closed
    call,           \* the state of each thread's model call
    permits,        \* llm_semaphore
    lock,           \* SHARED_ASYNC_LOOP_LOCK: who holds it
    loops,          \* the event loops that run
    instance,       \* SHARED_ASYNC_LOOP_STATE: the number of the loop in use
    runs            \* how often the process was started

rootVars == <<settingsFile, resultsFile, samples, refined, final, used>>
mainVars == <<phase, chosen, results, runs>>
callVars == <<call, permits, lock, loops, instance>>
vars == <<rootVars, mainVars, task, sessions, callVars>>

Samples == 1..Workers
Callers == Problems \X (0..Workers)     \* 0 is the refinement, in the problem's own thread
Nobody == <<>>
Endings == {"ok", "failed"}
Results == [Problems -> Endings \cup {"none"}]
NoResults == [p \in Problems |-> "none"]

CallStates == {"idle", "ready", "permit", "making", "reusing", "waiting", "answered"}

RootTypeOK ==
    /\ settingsFile \in Settings \cup {"missing", "cut"}
    /\ resultsFile \in [is : {"missing", "cut", "whole"}, of : Results]
    /\ samples \in [Problems -> SUBSET Samples]
    /\ refined \subseteq Problems
    /\ final \subseteq Problems
    /\ used \subseteq Settings

ProcessTypeOK ==
    /\ phase \in {"down", "settings", "run", "report", "unwind", "summary", "exit", "done"}
    /\ chosen \in Settings
    /\ results \in Results
    /\ task \in [Problems -> {"queued", "sampling", "refining", "judging", "closing"} \cup Endings]
    /\ sessions \subseteq Problems
    /\ call \in [Callers -> CallStates]
    /\ lock \in Callers \cup {Nobody}
    /\ loops \subseteq Nat
    /\ instance \in Nat

TypeOK ==
    /\ RootTypeOK
    /\ ProcessTypeOK
    /\ permits \in 0..MaxCalls
    /\ runs \in 0..MaxRuns

\* A process that does not run keeps nothing.
Blank ==
    /\ results' = NoResults
    /\ task' = [p \in Problems |-> "queued"]
    /\ sessions' = {}
    /\ call' = [c \in Callers |-> "idle"]
    /\ permits' = MaxCalls
    /\ lock' = Nobody
    /\ loops' = {}
    /\ instance' = 0

Init ==
    /\ settingsFile = "missing"
    /\ resultsFile = [is |-> "missing", of |-> NoResults]
    /\ samples = [p \in Problems |-> {}]
    /\ refined = {}
    /\ final = {}
    /\ used = {}
    /\ phase = "down"
    /\ chosen \in Settings
    /\ results = NoResults
    /\ task = [p \in Problems |-> "queued"]
    /\ sessions = {}
    /\ call = [c \in Callers |-> "idle"]
    /\ permits = MaxCalls
    /\ lock = Nobody
    /\ loops = {}
    /\ instance = 0
    /\ runs = 0

-----------------------------------------------------------------------------
(* main: the settings, the collection of the results, the end.             *)

\* Mutant: the settings are not compared with those of the directory.
Start_Unchecked(s) ==
    /\ phase = "down"
    /\ runs < MaxRuns
    /\ settingsFile # "cut"
    /\ runs' = runs + 1
    /\ chosen' = s
    /\ settingsFile' = "cut"
    /\ phase' = "settings"
    /\ UNCHANGED <<resultsFile, samples, refined, final, used, results, task, sessions, callVars>>

\* A settings file that is cut or has other settings makes main raise; any other is
\* opened for writing, which empties it.
Start(s) ==
    /\ phase = "down"
    /\ runs < MaxRuns
    /\ settingsFile \in {"missing", s}
    /\ runs' = runs + 1
    /\ chosen' = s
    /\ settingsFile' = "cut"
    /\ phase' = "settings"
    /\ UNCHANGED <<resultsFile, samples, refined, final, used, results, task, sessions, callVars>>

WriteSettings ==
    /\ phase = "settings"
    /\ settingsFile' = chosen
    /\ phase' = "run"
    /\ UNCHANGED <<resultsFile, samples, refined, final, used, chosen, results, runs, task, sessions, callVars>>

\* With skip_llm_inference the results of the file are aggregated; a file that is
\* missing or cut ends the run.
SkipInference ==
    /\ phase = "settings"
    /\ settingsFile' = chosen
    /\ results' = resultsFile.of
    /\ phase' = "exit"
    /\ UNCHANGED <<resultsFile, samples, refined, final, used, chosen, runs, task, sessions, callVars>>

\* Mutant: a problem is collected as a success whatever its evaluation did.
Collect_IgnoresFailures(p) ==
    /\ phase = "run"
    /\ task[p] \in Endings
    /\ results[p] = "none"
    /\ results' = [results EXCEPT ![p] = "ok"]
    /\ resultsFile' = [is |-> "cut", of |-> NoResults]
    /\ phase' = "report"
    /\ UNCHANGED <<settingsFile, samples, refined, final, used, chosen, runs, task, sessions, callVars>>

\* as_completed: the ending of a problem is noted, and the file opened for writing.
Collect(p) ==
    /\ phase = "run"
    /\ task[p] \in Endings
    /\ results[p] = "none"
    /\ results' = [results EXCEPT ![p] = task[p]]
    /\ resultsFile' = [is |-> "cut", of |-> NoResults]
    /\ phase' = "report"
    /\ UNCHANGED <<settingsFile, samples, refined, final, used, chosen, runs, task, sessions, callVars>>

WriteResults ==
    /\ phase = "report"
    /\ resultsFile' = [is |-> "whole", of |-> results]
    /\ phase' = "run"
    /\ UNCHANGED <<settingsFile, samples, refined, final, used, chosen, results, runs, task, sessions, callVars>>

\* The file cannot be written: the exception leaves the loop, not the executor.
ReportFails ==
    /\ phase = "report"
    /\ phase' = "unwind"
    /\ UNCHANGED <<rootVars, chosen, results, runs, task, sessions, callVars>>

\* Mutant: the loop ends with the first problem.
Collected_One ==
    /\ phase = "run"
    /\ \E p \in Problems : results[p] # "none"
    /\ resultsFile' = [is |-> "cut", of |-> NoResults]
    /\ phase' = "summary"
    /\ UNCHANGED <<settingsFile, samples, refined, final, used, chosen, results, runs, task, sessions, callVars>>

\* Behind the executor the file is written once more.
Collected ==
    /\ phase = "run"
    /\ \A p \in Problems : results[p] # "none"
    /\ resultsFile' = [is |-> "cut", of |-> NoResults]
    /\ phase' = "summary"
    /\ UNCHANGED <<settingsFile, samples, refined, final, used, chosen, results, runs, task, sessions, callVars>>

WriteSummary ==
    /\ phase = "summary"
    /\ resultsFile' \in {resultsFile, [is |-> "whole", of |-> results]}
    /\ phase' = "exit"
    /\ UNCHANGED <<settingsFile, samples, refined, final, used, chosen, results, runs, task, sessions, callVars>>

\* The executor waits for its tasks before the exception goes on.
Unwound ==
    /\ phase = "unwind"
    /\ \A p \in Problems : task[p] \in Endings
    /\ phase' = "exit"
    /\ UNCHANGED <<rootVars, chosen, results, runs, task, sessions, callVars>>

\* Aggregation, then atexit: Session.close of every session, SharedAsyncLoop.shutdown.
Exit ==
    /\ phase = "exit"
    /\ phase' = "done"
    /\ sessions' = {}
    /\ loops' = {}
    /\ instance' = 0
    /\ UNCHANGED <<rootVars, chosen, results, runs, task, call, permits, lock>>

\* The process is started anew, having ended.
Again ==
    /\ phase = "done"
    /\ runs < MaxRuns
    /\ phase' = "down"
    /\ Blank
    /\ UNCHANGED <<rootVars, chosen, runs>>

Crash ==
    /\ phase \notin {"down", "done"}
    /\ runs < MaxRuns
    /\ phase' = "down"
    /\ Blank
    /\ UNCHANGED <<rootVars, chosen, runs>>

-----------------------------------------------------------------------------
(* evaluate_contest, for one problem in a thread of the executor.          *)

Running == phase \in {"run", "report", "unwind"}
Unfinished == {p \in Problems : task[p] \notin Endings \cup {"queued"}}
CallsOf(p) == {c \in Callers : c[1] = p}

Fails(p) == task' = [task EXCEPT ![p] = "failed"]

\* The samples that a run before this one saved are not drawn again.
Open(p) ==
    /\ Running
    /\ task[p] = "queued"
    /\ Cardinality(Unfinished) < MaxParallel
    /\ task' = [task EXCEPT ![p] = "sampling"]
    /\ sessions' = sessions \cup {p}
    /\ call' = [c \in Callers |->
                   IF c[1] = p /\ c[2] \in Samples \ samples[p] THEN "ready" ELSE call[c]]
    /\ UNCHANGED <<rootVars, mainVars, permits, lock, loops, instance>>

\* The start raises, or what is done with the session before the first call.
OpenFails(p) ==
    /\ Running
    /\ task[p] = "queued"
    /\ Cardinality(Unfinished) < MaxParallel
    /\ Fails(p)
    /\ sessions' \in {sessions, sessions \cup {p}}
    /\ UNCHANGED <<rootVars, mainVars, callVars>>

Saving == used' = used \cup {chosen}

\* The thread of the problem judges an answered sample and saves it, or logs that
\* it could not.
SaveSample(p, i) ==
    /\ Running
    /\ i \in Samples
    /\ call[<<p, i>>] = "answered"
    /\ call' = [call EXCEPT ![<<p, i>>] = "idle"]
    /\ samples' = [samples EXCEPT ![p] = @ \cup {i}]
    /\ Saving
    /\ UNCHANGED <<settingsFile, resultsFile, refined, final, mainVars, task, sessions, permits, lock, loops, instance>>

JudgeFails(p, i) ==
    /\ Running
    /\ i \in Samples
    /\ call[<<p, i>>] = "answered"
    /\ call' = [call EXCEPT ![<<p, i>>] = "idle"]
    /\ UNCHANGED <<rootVars, mainVars, task, sessions, permits, lock, loops, instance>>

\* A sample that is missing fails the problem once all the others are there.
Sampled(p) ==
    /\ Running
    /\ task[p] = "sampling"
    /\ \A c \in CallsOf(p) : call[c] = "idle"
    /\ IF samples[p] # Samples THEN Fails(p) /\ UNCHANGED call
       ELSE IF p \in refined
       THEN task' = [task EXCEPT ![p] = "judging"] /\ UNCHANGED call
       ELSE /\ task' = [task EXCEPT ![p] = "refining"]
            /\ call' = [call EXCEPT ![<<p, 0>>] = "ready"]
    /\ UNCHANGED <<rootVars, mainVars, sessions, permits, lock, loops, instance>>

\* Saves the refinement, or that the context was too long for it.
Refine(p) ==
    /\ Running
    /\ task[p] = "refining"
    /\ call[<<p, 0>>] \in {"idle", "answered"}
    /\ call' = [call EXCEPT ![<<p, 0>>] = "idle"]
    /\ task' = [task EXCEPT ![p] = "judging"]
    /\ refined' = refined \cup {p}
    /\ Saving
    /\ UNCHANGED <<settingsFile, resultsFile, samples, final, mainVars, sessions, permits, lock, loops, instance>>

RefineFails(p) ==
    /\ Running
    /\ task[p] = "refining"
    /\ call[<<p, 0>>] \in {"idle", "answered"}
    /\ call' = [call EXCEPT ![<<p, 0>>] = "idle"]
    /\ Fails(p)
    /\ UNCHANGED <<rootVars, mainVars, sessions, permits, lock, loops, instance>>

\* The private evaluations, which close the session, and final_results.json.
Judge(p) ==
    /\ Running
    /\ task[p] = "judging"
    /\ task' = [task EXCEPT ![p] = "closing"]
    /\ sessions' = sessions \ {p}
    /\ final' = final \cup {p}
    /\ Saving
    /\ UNCHANGED <<settingsFile, resultsFile, samples, refined, mainVars, callVars>>

\* The costs; the session is closed a second time.
Complete(p) ==
    /\ Running
    /\ task[p] = "closing"
    /\ task' = [task EXCEPT ![p] = "ok"]
    /\ sessions' = sessions \ {p}
    /\ UNCHANGED <<rootVars, mainVars, callVars>>

\* Closed or not, the session is left as it is.
EvaluationFails(p) ==
    /\ Running
    /\ task[p] \in {"judging", "closing"}
    /\ Fails(p)
    /\ sessions' \in {sessions, sessions \ {p}}
    /\ UNCHANGED <<rootVars, mainVars, callVars>>

-----------------------------------------------------------------------------
(* safe_generation, in the thread of a sample or of the problem.           *)

Holders == {c \in Callers : call[c] \in {"permit", "making", "reusing", "waiting"}}

Acquire(c) ==
    /\ call[c] = "ready"
    /\ permits > 0
    /\ permits' = permits - 1
    /\ call' = [call EXCEPT ![c] = "permit"]
    /\ UNCHANGED <<rootVars, mainVars, task, sessions, lock, loops, instance>>

\* Mutant: the instance is looked up before the lock is taken.
Lock_AfterLooking(c) ==
    /\ call[c] = "permit"
    /\ lock' = c
    /\ call' = [call EXCEPT ![c] = IF instance = 0 THEN "making" ELSE "reusing"]
    /\ UNCHANGED <<rootVars, mainVars, task, sessions, permits, loops, instance>>

\* shared_async_loop: under the lock, is there a loop?
Lock(c) ==
    /\ call[c] = "permit"
    /\ lock = Nobody
    /\ lock' = c
    /\ call' = [call EXCEPT ![c] = IF instance = 0 THEN "making" ELSE "reusing"]
    /\ UNCHANGED <<rootVars, mainVars, task, sessions, permits, loops, instance>>

NewLoop == Cardinality(loops) + 1

\* A new one starts its thread; either way run hands it the coroutine and waits.
Submit(c) ==
    /\ call[c] \in {"making", "reusing"}
    /\ lock' = Nobody
    /\ IF call[c] = "making"
       THEN loops' = loops \cup {NewLoop} /\ instance' = NewLoop
       ELSE UNCHANGED <<loops, instance>>
    /\ call' = [call EXCEPT ![c] = "waiting"]
    /\ UNCHANGED <<rootVars, mainVars, task, sessions, permits>>

\* Mutant: the permit is released twice.
Answer_ReleasesTwice(c) ==
    /\ call[c] = "waiting"
    /\ instance \in loops
    /\ permits' = permits + 2
    /\ call' = [call EXCEPT ![c] = "answered"]
    /\ UNCHANGED <<rootVars, mainVars, task, sessions, lock, loops, instance>>

\* The answer of the model is there.
Answer(c) ==
    /\ call[c] = "waiting"
    /\ instance \in loops
    /\ permits' = permits + 1
    /\ call' = [call EXCEPT ![c] = "answered"]
    /\ UNCHANGED <<rootVars, mainVars, task, sessions, lock, loops, instance>>

\* Mutant: the permit is given back only with an answer.
Refused_KeepsPermit(c) ==
    /\ call[c] = "waiting"
    /\ instance \in loops
    /\ call' = [call EXCEPT ![c] = "idle"]
    /\ UNCHANGED <<rootVars, mainVars, task, sessions, permits, lock, loops, instance>>

\* The call raised: the semaphore is released all the same.
Refused(c) ==
    /\ call[c] = "waiting"
    /\ instance \in loops
    /\ permits' = permits + 1
    /\ call' = [call EXCEPT ![c] = "idle"]
    /\ UNCHANGED <<rootVars, mainVars, task, sessions, lock, loops, instance>>

-----------------------------------------------------------------------------
MainRuns ==
    \/ WriteSettings
    \/ SkipInference
    \/ \E p \in Problems : Collect(p)
    \/ WriteResults
    \/ ReportFails
    \/ Collected
    \/ WriteSummary
    \/ Unwound
    \/ Exit

Evaluate(p) ==
    \/ Open(p)
    \/ OpenFails(p)
    \/ \E i \in Samples : SaveSample(p, i) \/ JudgeFails(p, i)
    \/ Sampled(p)
    \/ Refine(p)
    \/ RefineFails(p)
    \/ Judge(p)
    \/ Complete(p)
    \/ EvaluationFails(p)

Call(c) == Acquire(c) \/ Lock(c) \/ Submit(c) \/ Answer(c) \/ Refused(c)

Next ==
    \/ \E s \in Settings : Start(s)
    \/ MainRuns
    \/ Again
    \/ Crash
    \/ \E p \in Problems : Evaluate(p)
    \/ \E c \in Callers : Call(c)

Spec == Init /\ [][Next]_vars

\* Main, some problem's thread and some calling thread run when they can, whichever it
\* is; that a call is answered or refused is the timeout of the model's client.
Fairness ==
    /\ WF_vars(MainRuns)
    /\ WF_vars(\E p \in Problems : Evaluate(p))
    /\ WF_vars(\E c \in Callers : Call(c))

FairSpec == Spec /\ Fairness

-----------------------------------------------------------------------------
(* Properties.                                                             *)

\* However often an experiment is cut off and resumed in its directory, all that is
\* saved there was made under the same settings, those of the settings file when it
\* can be read.
SettingsNeverMixed ==
    /\ \A s, t \in used : s = t
    /\ \A s \in used : settingsFile \in {s, "cut"}

\* A problem that the results, in memory or in the file that a later run aggregates,
\* call a success has its final results in the directory.
SuccessIsOnDisk ==
    \A p \in Problems :
        /\ results[p] = "ok" => p \in final
        /\ resultsFile.of[p] = "ok" => p \in final

\* No permit of the semaphore is lost or invented, whatever a call does: those not
\* held are free, and so never more coroutines than max_concurrent_llm_calls run.
PermitsBalance == permits + Cardinality(Holders) = MaxCalls

\* One event loop serves the calls of all problems, and no call waits on one that
\* does not run.
OneLoop ==
    /\ Cardinality(loops) <= 1
    /\ \A c \in Callers : call[c] = "waiting" => instance \in loops

\* When main has left the executor, also because the results could not be written, no
\* problem is under way and no call: nothing that atexit closes is still in use, and
\* then nothing is left open, the sessions of the problems that failed included.
CleanEnd ==
    phase \in {"summary", "exit", "done"} =>
        /\ Unfinished = {}
        /\ \A c \in Callers : call[c] = "idle"
        /\ phase = "done" => sessions = {} /\ loops = {}

\* A run that gets past its settings ends, or is cut off: calls that fail and
\* problems that fail hold nothing that another waits for.
RunEnds == phase = "run" ~> phase \in {"done", "down"}

-----------------------------------------------------------------------------
(* The inductive invariant behind the first two.                           *)

\* While the process runs its settings are those of the directory.
SameSettings ==
    /\ SettingsNeverMixed
    /\ phase # "down" => \A s \in used : s = chosen
    /\ phase = "settings" => settingsFile = "cut"
    /\ phase \notin {"down", "settings"} => settingsFile = chosen

\* A problem is a success only once its final results are saved, which is for good.
SavedFirst ==
    \A p \in Problems :
        (task[p] \in {"closing", "ok"} \/ results[p] = "ok" \/ resultsFile.of[p] = "ok") => p \in final

\* A call belongs to the evaluation that waits for it; the others make none.
CallsOfTasks ==
    /\ \A c \in Callers : call[c] # "idle" =>
          task[c[1]] = (IF c[2] = 0 THEN "refining" ELSE "sampling")
    /\ \A p \in Problems :
          /\ phase \in {"down", "settings", "run", "report"} /\ results[p] # "none" => task[p] \in Endings
          /\ phase \notin {"run", "report", "unwind"} => task[p] \in Endings \cup {"queued"}

\* Who holds the lock decides on the loop by what it saw.
LoopInUse ==
    /\ loops = IF instance = 0 THEN {} ELSE {instance}
    /\ \A c \in Callers :
          /\ call[c] \in {"making", "reusing"} => lock = c /\ (call[c] = "making" <=> instance = 0)
          /\ call[c] = "waiting" => instance # 0

ExperimentInv ==
    /\ RootTypeOK
    /\ ProcessTypeOK
    /\ SameSettings
    /\ SavedFirst
    /\ CallsOfTasks
    /\ LoopInUse

=============================================================================
