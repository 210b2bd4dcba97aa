--------------------------- MODULE RepeatedSampling ---------------------------
(***************************************************************************)
(* run_repeated_sampling (ale_bench_eval/scaffolds.py): the model is asked *)
(* for the missing samples on a thread pool, while the caller judges and   *)
(* saves those that are there, one after the other, into a public result   *)
(* and a conversation per sample and one summary of all.  A run may be     *)
(* killed anywhere and a sample may fail at any step; a later run asks for *)
(* what the summary lacks.  Every file is replaced whole.                  *)
(*                                                                         *)
(* An answer of the model is a number; 0 stands for no answer.             *)
(***************************************************************************)
EXTENDS Naturals, FiniteSets

CONSTANTS
    NumSamples,     \* n_repeated_sampling, the same in every run
    MaxWorkers,     \* max_repeated_sampling_workers, or n_repeated_sampling
    MaxAnswers      \* bound: answers generated over all runs

ASSUME RepeatedSamplingAssumption ==
    /\ NumSamples \in Nat \ {0}
    /\ MaxWorkers \in Nat \ {0}
    /\ MaxAnswers \in Nat

VARIABLES
    summary,        \* repeated_sampling_results.json
    conversations,  \* repeated_sampling_conversations_<i>.json
    evaluations,    \* repeated_sampling_results_<i>.json
    made,           \* how many answers the model gave
    pc,             \* where the run stands; "down": none runs
    known,          \* results_repeated_sampling
    job,            \* the future of each sample
    workers,        \* max_workers
    current         \* the sample that is judged and saved, with its answer

disk == <<summary, conversations, evaluations>>
vars == <<summary, conversations, evaluations, made, pc, known, job, workers, current>>

Samples == 0..(NumSamples - 1)
Answers == Nat
NoAnswer == 0
NoSample == [index |-> 0, answer |-> NoAnswer]
Idle == [state |-> "none", answer |-> NoAnswer]

TypeOK ==
    /\ summary \in [Samples -> Answers]
    /\ conversations \in [Samples -> Answers]
    /\ evaluations \in [Samples -> Answers]
    /\ made \in Nat
    /\ pc \in {"down", "collect", "judge", "save_conversation", "save_summary", "complete"}
    /\ known \in [Samples -> Answers]
    /\ job \in [Samples -> [state : {"none", "queued", "asking", "answered", "failed", "done"},
                            answer : Answers]]
    /\ workers \in Nat
    /\ current \in [index : Samples, answer : Answers]

Init ==
    /\ summary = [i \in Samples |-> NoAnswer]
    /\ conversations = [i \in Samples |-> NoAnswer]
    /\ evaluations = [i \in Samples |-> NoAnswer]
    /\ made = 0
    /\ pc = "down"
    /\ known = [i \in Samples |-> NoAnswer]
    /\ job = [i \in Samples |-> Idle]
    /\ workers = 0
    /\ current = NoSample

\* The memory of a run that is over.
Forgotten ==
    /\ known' = [i \in Samples |-> NoAnswer]
    /\ job' = [i \in Samples |-> Idle]
    /\ workers' = 0
    /\ current' = NoSample

-----------------------------------------------------------------------------
(* The start of a run, and its calls of the model.                         *)

\* Mutant: takes the samples that are there for the first ones.
Missing_Contiguous ==
    {i \in Samples : i >= Cardinality({j \in Samples : summary[j] # NoAnswer})}

Missing == {i \in Samples : summary[i] = NoAnswer}

Smaller(m, n) == IF m < n THEN m ELSE n

Run ==
    /\ pc = "down"
    /\ Missing # {}
    /\ pc' = "collect"
    /\ known' = summary
    /\ job' = [i \in Samples |-> IF i \in Missing THEN [Idle EXCEPT !.state = "queued"] ELSE Idle]
    /\ workers' = Smaller(Cardinality(Missing), MaxWorkers)
    /\ UNCHANGED <<disk, made, current>>

RunNothingToDo ==
    /\ pc = "down"
    /\ Missing = {}
    /\ pc' = "complete"
    /\ UNCHANGED <<disk, made, known, job, workers, current>>

\* Mutant: a thread serves one sample only.
Asking_ThreadsNotReused == {i \in Samples : job[i].state \notin {"none", "queued"}}

Asking == {i \in Samples : job[i].state = "asking"}

\* In order, one per thread; one worker is the loop, which asks for a sample when
\* it is done with the one before.
Ask(i) ==
    /\ job[i].state = "queued"
    /\ \A j \in Samples : j < i => job[j].state # "queued"
    /\ Cardinality(Asking) < workers
    /\ workers = 1 => \A j \in Samples : j < i => job[j].state \in {"none", "done"}
    /\ job' = [job EXCEPT ![i].state = "asking"]
    /\ UNCHANGED <<disk, made, pc, known, workers, current>>

Answer(i) ==
    /\ job[i].state = "asking"
    /\ made < MaxAnswers
    /\ made' = made + 1
    /\ job' = [job EXCEPT ![i] = [state |-> "answered", answer |-> made']]
    /\ UNCHANGED <<disk, pc, known, workers, current>>

AskFails(i) ==
    /\ job[i].state = "asking"
    /\ job' = [job EXCEPT ![i].state = "failed"]
    /\ UNCHANGED <<disk, made, pc, known, workers, current>>

-----------------------------------------------------------------------------
(* The caller: as_completed, then judge and save.                          *)

CollectError(i) ==
    /\ pc = "collect"
    /\ job[i].state = "failed"
    /\ job' = [job EXCEPT ![i] = [Idle EXCEPT !.state = "done"]]
    /\ UNCHANGED <<disk, made, pc, known, workers, current>>

Collect(i) ==
    /\ pc = "collect"
    /\ job[i].state = "answered"
    /\ current' = [index |-> i, answer |-> job[i].answer]
    /\ pc' = "judge"
    /\ UNCHANGED <<disk, made, known, job, workers>>

\* The sample is saved or given up; the others go on.
NextSample ==
    /\ job' = [job EXCEPT ![current.index] = [Idle EXCEPT !.state = "done"]]
    /\ current' = NoSample
    /\ pc' = "collect"

Judge ==
    /\ pc = "judge"
    /\ evaluations' = [evaluations EXCEPT ![current.index] = current.answer]
    /\ pc' = "save_conversation"
    /\ UNCHANGED <<summary, conversations, made, known, job, workers, current>>

SaveConversation ==
    /\ pc = "save_conversation"
    /\ conversations' = [conversations EXCEPT ![current.index] = current.answer]
    /\ pc' = "save_summary"
    /\ UNCHANGED <<summary, evaluations, made, known, job, workers, current>>

\* Mutant: what is written now is not part of what is written next.
SaveSummary_Forgets ==
    /\ pc = "save_summary"
    /\ summary' = [known EXCEPT ![current.index] = current.answer]
    /\ NextSample
    /\ UNCHANGED <<conversations, evaluations, made, known, workers>>

SaveSummary ==
    /\ pc = "save_summary"
    /\ summary' = [known EXCEPT ![current.index] = current.answer]
    /\ known' = summary'
    /\ NextSample
    /\ UNCHANGED <<conversations, evaluations, made, workers>>

\* A step that kept failing; what was written before it stays.
StepFails ==
    /\ pc \in {"judge", "save_conversation", "save_summary"}
    /\ NextSample
    /\ UNCHANGED <<disk, made, known, workers>>

\* The samples are all there, and the contest goes on, or it ends with an error.
End ==
    /\ pc = "collect"
    /\ \A i \in Samples : job[i].state \in {"none", "done"}
    /\ pc' = IF \A i \in Samples : known[i] # NoAnswer THEN "complete" ELSE "down"
    /\ Forgotten
    /\ UNCHANGED <<disk, made>>

\* The process ends or is killed, or an exception ends the run.
Crash ==
    /\ pc # "down"
    /\ pc' = "down"
    /\ Forgotten
    /\ UNCHANGED <<disk, made>>

Next ==
    \/ Run
    \/ RunNothingToDo
    \/ \E i \in Samples :
          \/ Ask(i)
          \/ Answer(i)
          \/ AskFails(i)
          \/ CollectError(i)
          \/ Collect(i)
    \/ Judge
    \/ SaveConversation
    \/ SaveSummary
    \/ StepFails
    \/ End
    \/ Crash

\* Every call of the model has a timeout, every thread keeps running.
Fairness ==
    /\ \A i \in Samples :
          /\ WF_vars(Ask(i))
          /\ WF_vars(Answer(i) \/ AskFails(i))
          /\ WF_vars(CollectError(i) \/ Collect(i))
    /\ WF_vars(Judge \/ SaveConversation \/ SaveSummary \/ StepFails)
    /\ WF_vars(End)

Spec == Init /\ [][Next]_vars
FairSpec == Spec /\ Fairness

-----------------------------------------------------------------------------
(* Properties.                                                             *)

\* What the summary has of a sample belongs together: its public result and its
\* conversation are those of the answer the summary names, whatever runs died or
\* samples failed after writing only one of them.
FilesAgree ==
    \A i \in Samples :
        summary[i] # NoAnswer => evaluations[i] = summary[i] /\ conversations[i] = summary[i]

\* A sample that is in the summary is there in every later run, and the same: the
\* selection, which the whole contest builds on, never changes once it was made.
KeepsSamples == [][\A i \in Samples : summary[i] # NoAnswer => summary'[i] = summary[i]]_vars

\* A run ends, whatever answers fail, or is killed.
RunEnds == pc = "collect" ~> pc \in {"down", "complete"}

-----------------------------------------------------------------------------
(* The inductive invariant: what the caller works on is missing in the     *)
(* summary, of which it has a copy in memory.                              *)

Working == pc \in {"judge", "save_conversation", "save_summary"}

MemoryMirrorsDisk ==
    /\ pc = "collect" \/ Working => known = summary
    /\ Working =>
          /\ summary[current.index] = NoAnswer
          /\ current.answer # NoAnswer
    /\ pc \in {"save_conversation", "save_summary"} =>
          evaluations[current.index] = current.answer
    /\ pc = "save_summary" => conversations[current.index] = current.answer

JobsAreMissing ==
    \A i \in Samples :
        /\ job[i].state \in {"queued", "asking", "answered", "failed"} =>
              pc # "down" /\ summary[i] = NoAnswer
        /\ job[i].state = "answered" => job[i].answer # NoAnswer

SamplingInv ==
    /\ TypeOK
    /\ FilesAgree
    /\ MemoryMirrorsDisk
    /\ JobsAreMissing

=============================================================================
