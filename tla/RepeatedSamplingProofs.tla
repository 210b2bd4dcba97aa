----------------------- MODULE RepeatedSamplingProofs ------------------------
(***************************************************************************)
(* For every number of samples and of workers, and however often a run is  *)
(* cut short, the files of a sample belong together and are kept.          *)
(***************************************************************************)
EXTENDS RepeatedSampling, FiniteSetTheorems, TLAPS

LEMMA ZeroIsSample == 0 \in Samples
BY RepeatedSamplingAssumption DEF Samples

(* The number of threads is a number. *)
LEMMA WorkersType ==
    ASSUME TypeOK
    PROVE  Smaller(Cardinality(Missing), MaxWorkers) \in Nat
<1>1. IsFiniteSet(Samples)
  BY RepeatedSamplingAssumption, FS_Interval DEF Samples
<1>2. Missing \in SUBSET Samples
  BY DEF Missing
<1>3. Cardinality(Missing) \in Nat
  BY <1>1, <1>2, FS_Subset, FS_CardinalityType
<1>. QED
  BY <1>3, RepeatedSamplingAssumption DEF Smaller

(* The initial state satisfies the inductive invariant. *)
LEMMA InitInv == Init => SamplingInv
<1>. SUFFICES ASSUME Init PROVE SamplingInv
  OBVIOUS
<1>1. TypeOK
  BY ZeroIsSample DEF Init, TypeOK, Answers, NoAnswer, Idle, NoSample
<1>2. FilesAgree
  BY DEF Init, FilesAgree
<1>3. MemoryMirrorsDisk
  BY DEF Init, MemoryMirrorsDisk, Working
<1>4. JobsAreMissing
  BY DEF Init, JobsAreMissing, Idle
<1>. QED
  BY <1>1, <1>2, <1>3, <1>4 DEF SamplingInv

-----------------------------------------------------------------------------
(* A run that ends or has not begun: only the files matter. *)
LEMMA ForgottenInv ==
    ASSUME SamplingInv, Forgotten, UNCHANGED <<disk, made>>, pc' \in {"down", "complete"}
    PROVE  SamplingInv'
<1>1. TypeOK'
  BY ZeroIsSample DEF SamplingInv, TypeOK, Forgotten, disk, Answers, NoAnswer, Idle, NoSample
<1>2. FilesAgree'
  BY DEF SamplingInv, FilesAgree, disk
<1>3. MemoryMirrorsDisk'
  BY DEF MemoryMirrorsDisk, Working
<1>4. JobsAreMissing'
  BY DEF Forgotten, JobsAreMissing, Idle
<1>. QED
  BY <1>1, <1>2, <1>3, <1>4 DEF SamplingInv

LEMMA RunInv ==
    ASSUME SamplingInv, Run
    PROVE  SamplingInv'
<1>1. TypeOK'
  BY WorkersType DEF SamplingInv, TypeOK, Run, disk, Answers, NoAnswer, Idle
<1>2. FilesAgree' /\ MemoryMirrorsDisk'
  BY DEF SamplingInv, FilesAgree, MemoryMirrorsDisk, Working, Run, disk
<1>3. JobsAreMissing'
  <2>1. pc' = "collect" /\ summary' = summary
    BY DEF Run, disk
  <2>2. ASSUME NEW i \in Samples
        PROVE  /\ job'[i].state = "queued" => i \in Missing
               /\ job'[i].state \in {"queued", "none"}
    BY DEF Run, Idle
  <2>. QED
    BY <2>1, <2>2 DEF JobsAreMissing, Missing
<1>. QED
  BY <1>1, <1>2, <1>3 DEF SamplingInv

LEMMA RunNothingToDoInv ==
    ASSUME SamplingInv, RunNothingToDo
    PROVE  SamplingInv'
<1>1. TypeOK'
  BY DEF SamplingInv, TypeOK, RunNothingToDo, disk
<1>2. FilesAgree' /\ MemoryMirrorsDisk'
  BY DEF SamplingInv, FilesAgree, MemoryMirrorsDisk, Working, RunNothingToDo, disk
<1>3. JobsAreMissing'
  BY DEF SamplingInv, JobsAreMissing, RunNothingToDo, disk
<1>. QED
  BY <1>1, <1>2, <1>3 DEF SamplingInv

(* A step of one future: no file is written, and the caller stays where it *)
(* is.                                                                     *)
LEMMA FutureInv ==
    ASSUME SamplingInv, NEW i \in Samples,
           NEW f \in [state : {"asking", "answered", "failed", "done"}, answer : Answers],
           job' = [job EXCEPT ![i] = f],
           f.state # "done" => job[i].state \in {"queued", "asking"},
           f.state = "answered" => f.answer # NoAnswer,
           made' \in Nat, UNCHANGED <<disk, pc, known, workers, current>>
    PROVE  SamplingInv'
<1>1. TypeOK'
  BY DEF SamplingInv, TypeOK, disk
<1>2. FilesAgree' /\ MemoryMirrorsDisk'
  BY DEF SamplingInv, FilesAgree, MemoryMirrorsDisk, Working, disk
<1>3. JobsAreMissing'
  BY DEF SamplingInv, TypeOK, JobsAreMissing, disk
<1>. QED
  BY <1>1, <1>2, <1>3 DEF SamplingInv

LEMMA AskInv ==
    ASSUME SamplingInv, NEW i \in Samples, Ask(i)
    PROVE  SamplingInv'
<1>. DEFINE f == [job[i] EXCEPT !.state = "asking"]
<1>1. /\ f \in [state : {"asking", "answered", "failed", "done"}, answer : Answers]
      /\ f.state = "asking"
  BY DEF SamplingInv, TypeOK
<1>2. job' = [job EXCEPT ![i] = f]
  BY DEF Ask
<1>3. job[i].state = "queued" /\ made' \in Nat /\ UNCHANGED <<disk, pc, known, workers, current>>
  BY DEF Ask, SamplingInv, TypeOK
<1>. QED
  BY <1>1, <1>2, <1>3, FutureInv

LEMMA AnswerInv ==
    ASSUME SamplingInv, NEW i \in Samples, Answer(i)
    PROVE  SamplingInv'
<1>. DEFINE f == [state |-> "answered", answer |-> made + 1]
<1>1. made \in Nat
  BY DEF SamplingInv, TypeOK
<1>2. /\ f \in [state : {"asking", "answered", "failed", "done"}, answer : Answers]
      /\ f.state = "answered" /\ f.answer # NoAnswer
  BY <1>1 DEF Answers, NoAnswer
<1>3. made' = made + 1 /\ job' = [job EXCEPT ![i] = f]
  BY DEF Answer
<1>4. job[i].state = "asking" /\ made' \in Nat /\ UNCHANGED <<disk, pc, known, workers, current>>
  BY <1>1, <1>3 DEF Answer
<1>. HIDE DEF f
<1>. QED
  BY <1>2, <1>3, <1>4, FutureInv

LEMMA AskFailsInv ==
    ASSUME SamplingInv, NEW i \in Samples, AskFails(i)
    PROVE  SamplingInv'
<1>. DEFINE f == [job[i] EXCEPT !.state = "failed"]
<1>1. /\ f \in [state : {"asking", "answered", "failed", "done"}, answer : Answers]
      /\ f.state = "failed"
  BY DEF SamplingInv, TypeOK
<1>2. job' = [job EXCEPT ![i] = f]
  BY DEF AskFails
<1>3. job[i].state = "asking" /\ made' \in Nat /\ UNCHANGED <<disk, pc, known, workers, current>>
  BY DEF AskFails, SamplingInv, TypeOK
<1>. QED
  BY <1>1, <1>2, <1>3, FutureInv

LEMMA CollectErrorInv ==
    ASSUME SamplingInv, NEW i \in Samples, CollectError(i)
    PROVE  SamplingInv'
BY FutureInv DEF CollectError, SamplingInv, TypeOK, Answers, NoAnswer, Idle

LEMMA CollectInv ==
    ASSUME SamplingInv, NEW i \in Samples, Collect(i)
    PROVE  SamplingInv'
<1>1. TypeOK'
  BY DEF SamplingInv, TypeOK, Collect, disk
<1>2. FilesAgree' /\ JobsAreMissing'
  BY DEF SamplingInv, FilesAgree, JobsAreMissing, Collect, disk
<1>3. MemoryMirrorsDisk'
  BY DEF SamplingInv, MemoryMirrorsDisk, JobsAreMissing, Working, Collect, disk
<1>. QED
  BY <1>1, <1>2, <1>3 DEF SamplingInv

-----------------------------------------------------------------------------
(* The files of the sample that is worked on are no part of the summary.   *)
LEMMA JudgeInv ==
    ASSUME SamplingInv, Judge
    PROVE  SamplingInv'
<1>1. current.index \in Samples /\ summary[current.index] = NoAnswer /\ current.answer \in Answers
  BY DEF SamplingInv, TypeOK, MemoryMirrorsDisk, Working, Judge
<1>2. TypeOK'
  BY <1>1 DEF SamplingInv, TypeOK, Judge
<1>3. FilesAgree' /\ JobsAreMissing'
  BY <1>1 DEF SamplingInv, TypeOK, FilesAgree, JobsAreMissing, Judge
<1>4. MemoryMirrorsDisk'
  BY <1>1 DEF SamplingInv, TypeOK, MemoryMirrorsDisk, Working, Judge
<1>. QED
  BY <1>2, <1>3, <1>4 DEF SamplingInv

LEMMA SaveConversationInv ==
    ASSUME SamplingInv, SaveConversation
    PROVE  SamplingInv'
<1>1. current.index \in Samples /\ summary[current.index] = NoAnswer /\ current.answer \in Answers
  BY DEF SamplingInv, TypeOK, MemoryMirrorsDisk, Working, SaveConversation
<1>2. TypeOK'
  BY <1>1 DEF SamplingInv, TypeOK, SaveConversation
<1>3. FilesAgree' /\ JobsAreMissing'
  BY <1>1 DEF SamplingInv, TypeOK, FilesAgree, JobsAreMissing, SaveConversation
<1>4. MemoryMirrorsDisk'
  BY <1>1 DEF SamplingInv, TypeOK, MemoryMirrorsDisk, Working, SaveConversation
<1>. QED
  BY <1>2, <1>3, <1>4 DEF SamplingInv

(* What NextSample leaves of the memory. *)
LEMMA NextSampleFacts ==
    ASSUME SamplingInv, NextSample
    PROVE  /\ current.index \in Samples
           /\ \A j \in Samples : j # current.index => job'[j] = job[j]
           /\ job'[current.index].state = "done"
           /\ job' \in [Samples -> [state : {"none", "queued", "asking", "answered",
                                             "failed", "done"},
                                    answer : Answers]]
           /\ current' \in [index : Samples, answer : Answers]
BY ZeroIsSample DEF SamplingInv, TypeOK, NextSample, Idle, NoSample, Answers, NoAnswer

LEMMA SaveSummaryInv ==
    ASSUME SamplingInv, SaveSummary
    PROVE  SamplingInv'
<1>. DEFINE i == current.index
<1>1. /\ i \in Samples
      /\ current.answer \in Answers
      /\ known = summary
      /\ evaluations[i] = current.answer
      /\ conversations[i] = current.answer
  BY DEF SamplingInv, TypeOK, MemoryMirrorsDisk, Working, SaveSummary
<1>2. /\ summary' = [summary EXCEPT ![i] = current.answer]
      /\ known' = summary'
      /\ pc' = "collect"
      /\ UNCHANGED <<conversations, evaluations, made, workers>>
  BY <1>1 DEF SaveSummary, NextSample
<1>3. \A j \in Samples : summary'[j] = IF j = i THEN current.answer ELSE summary[j]
  BY <1>1, <1>2 DEF SamplingInv, TypeOK
<1>4. TypeOK'
  BY <1>1, <1>2, NextSampleFacts DEF SamplingInv, TypeOK, SaveSummary
<1>5. FilesAgree'
  BY <1>1, <1>2, <1>3 DEF SamplingInv, FilesAgree
<1>6. MemoryMirrorsDisk'
  BY <1>2 DEF MemoryMirrorsDisk, Working
<1>7. JobsAreMissing'
  BY <1>2, <1>3, NextSampleFacts DEF SamplingInv, JobsAreMissing, SaveSummary
<1>. QED
  BY <1>4, <1>5, <1>6, <1>7 DEF SamplingInv

LEMMA StepFailsInv ==
    ASSUME SamplingInv, StepFails
    PROVE  SamplingInv'
<1>1. TypeOK'
  BY NextSampleFacts DEF SamplingInv, TypeOK, StepFails, NextSample, disk
<1>2. FilesAgree' /\ MemoryMirrorsDisk'
  BY DEF SamplingInv, FilesAgree, MemoryMirrorsDisk, Working, StepFails, NextSample, disk
<1>3. JobsAreMissing'
  BY NextSampleFacts DEF SamplingInv, JobsAreMissing, StepFails, NextSample, disk
<1>. QED
  BY <1>1, <1>2, <1>3 DEF SamplingInv

LEMMA EndInv ==
    ASSUME SamplingInv, End \/ Crash
    PROVE  SamplingInv'
BY ForgottenInv DEF End, Crash

LEMMA StutterInv ==
    ASSUME SamplingInv, UNCHANGED vars
    PROVE  SamplingInv'
BY DEF SamplingInv, TypeOK, FilesAgree, MemoryMirrorsDisk, Working, JobsAreMissing, vars, disk

LEMMA NextInv == SamplingInv /\ [Next]_vars => SamplingInv'
<1>. SUFFICES ASSUME SamplingInv, [Next]_vars PROVE SamplingInv'
  OBVIOUS
<1>1. CASE Run \/ RunNothingToDo
  BY <1>1, RunInv, RunNothingToDoInv
<1>2. ASSUME NEW i \in Samples,
             Ask(i) \/ Answer(i) \/ AskFails(i) \/ CollectError(i) \/ Collect(i)
      PROVE  SamplingInv'
  BY <1>2, AskInv, AnswerInv, AskFailsInv, CollectErrorInv, CollectInv
<1>3. CASE Judge \/ SaveConversation \/ SaveSummary \/ StepFails
  BY <1>3, JudgeInv, SaveConversationInv, SaveSummaryInv, StepFailsInv
<1>4. CASE End \/ Crash
  BY <1>4, EndInv
<1>5. CASE UNCHANGED vars
  BY <1>5, StutterInv
<1>. QED
  BY <1>1, <1>2, <1>3, <1>4, <1>5 DEF Next

-----------------------------------------------------------------------------
(* The inductive invariant: the caller works on a sample the summary lacks *)
(* (scaffolds.py, run_repeated_sampling).                                  *)
THEOREM SamplingInvariant == Spec => []SamplingInv
<1>. QED
  BY InitInv, NextInv, PTL DEF Spec

(* The files of a sample that is in the summary are of one answer          *)
(* (scaffolds.py:172-222).                                                 *)
THEOREM SamplingFilesAgree == Spec => []FilesAgree
<1>1. SamplingInv => FilesAgree
  BY DEF SamplingInv
<1>. QED
  BY <1>1, SamplingInvariant, PTL

(* A step that writes the summary adds a sample it lacks. *)
LEMMA StepKeepsSamples ==
    ASSUME SamplingInv, [Next]_vars
    PROVE  \A i \in Samples : summary[i] # NoAnswer => summary'[i] = summary[i]
<1>1. CASE SaveSummary
  BY <1>1 DEF SamplingInv, TypeOK, MemoryMirrorsDisk, Working, SaveSummary
<1>2. CASE summary' = summary
  BY <1>2
<1>3. SaveSummary \/ summary' = summary
  BY DEF Next, Run, RunNothingToDo, Ask, Answer, AskFails, CollectError, Collect, Judge,
         SaveConversation, StepFails, End, Crash, vars, disk
<1>. QED
  BY <1>1, <1>2, <1>3

(* A sample, once in the summary, is the same in every later run           *)
(* (scaffolds.py:241, 216-222).                                            *)
THEOREM SamplingKeepsSamples == Spec => KeepsSamples
<1>1. SamplingInv /\ [Next]_vars =>
        [\A i \in Samples : summary[i] # NoAnswer => summary'[i] = summary[i]]_vars
  BY StepKeepsSamples
<1>. QED
  BY <1>1, SamplingInvariant, PTL DEF Spec, KeepsSamples
=============================================================================
