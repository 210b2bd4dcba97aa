----------------------------- MODULE SelfRefine ------------------------------
(***************************************************************************)
(* run_self_refinement (ale_bench_eval/scaffolds.py) and the files it      *)
(* leaves for the next run: the summary self_refine_results.json, and per  *)
(* iteration a conversation and the public result.  A run may be killed or *)
(* raise between any two writes; a later one, with the same settings but   *)
(* for n_self_refine, resumes from what it finds.  Every file is replaced  *)
(* whole (logger.py, atomic_json_dump).                                    *)
(*                                                                         *)
(* An answer of the model is a number: its text, its code and its score    *)
(* play no part here, but whether its code is blank does.                  *)
(***************************************************************************)
EXTENDS Integers, Sequences

CONSTANTS
    Lengths,        \* the values of n_self_refine that runs are given
    InitialEmpty,   \* whether the selected repeated sampling has blank code
    Top,            \* the largest of Lengths
    MaxAnswers      \* bound: answers generated over all runs

ASSUME SelfRefineAssumption ==
    /\ Top \in Nat \ {0}
    /\ Lengths \subseteq 1..Top
    /\ InitialEmpty \in BOOLEAN
    /\ MaxAnswers \in Nat

VARIABLES
    summary,        \* self_refine_results.json; no entries: no file
    conversations,  \* self_refine_conversations_<i>.json: the answer it ends with
    evaluations,    \* self_refine_results_<i>.json: the answer it judges
    made,           \* how many answers the model gave
    pc,             \* where the run stands; "down": none runs
    target,         \* config.n_self_refine
    entries,        \* results_self_refine
    history,        \* message_history: the answer it ends with
    feedback,       \* public_result: the answer it judges
    reply           \* the iteration in progress

disk == <<summary, conversations, evaluations>>
vars == <<summary, conversations, evaluations, made, pc, target, entries,
          history, feedback, reply>>

NoGen == -1
Gens == Int
Indices == 0..Top

\* What an entry was generated from, history and feedback, is not in the file.
Entry == [gen : Gens, empty : BOOLEAN, overflow : BOOLEAN, history : Gens, feedback : Gens]
Initial == [gen |-> 0, empty |-> InitialEmpty, overflow |-> FALSE,
            history |-> NoGen, feedback |-> NoGen]

FeedbackOf(e) == IF e.empty THEN NoGen ELSE e.gen
LastOf(s) == s[Len(s)]

\* The entries a run starts with.
Known == IF summary = <<>> THEN <<Initial>> ELSE summary

TypeOK ==
    /\ summary \in Seq(Entry)
    /\ conversations \in [Indices -> Gens]
    /\ evaluations \in [Indices -> Gens]
    /\ made \in Nat
    /\ pc \in {"down", "ask", "judge", "save_conversation", "save_summary", "delete"}
    /\ target \in 0..Top
    /\ entries \in Seq(Entry)
    /\ history \in Gens
    /\ feedback \in Gens
    /\ reply \in Entry

Init ==
    /\ summary = <<>>
    /\ conversations = [i \in Indices |-> NoGen]
    /\ evaluations = [i \in Indices |-> NoGen]
    /\ made = 0
    /\ pc = "down"
    /\ target = 0
    /\ entries = <<>>
    /\ history = NoGen
    /\ feedback = NoGen
    /\ reply = Initial

\* The memory of a run that is over.
Down ==
    /\ pc' = "down"
    /\ target' = 0
    /\ entries' = <<>>
    /\ history' = NoGen
    /\ feedback' = NoGen
    /\ reply' = Initial

-----------------------------------------------------------------------------
(* The start of a run.                                                     *)

\* Mutant: the conversation of the selected sampling, whatever was done since.
HistoryToResume_Initial(known) == Initial.gen

\* Files missing here end the run.
HistoryToResume(known) ==
    IF Len(known) = 1 THEN Initial.gen ELSE conversations[Len(known) - 1]

FeedbackToResume(known) ==
    IF Len(known) = 1 THEN FeedbackOf(Initial)
    ELSE IF LastOf(known).empty THEN NoGen ELSE evaluations[Len(known) - 1]

CanResume(known) ==
    Len(known) > 1 =>
        /\ conversations[Len(known) - 1] # NoGen
        /\ LastOf(known).empty \/ evaluations[Len(known) - 1] # NoGen

Load(n) ==
    /\ pc = "down"
    /\ ~LastOf(Known).overflow
    /\ Len(Known) < n
    /\ CanResume(Known)
    /\ pc' = "ask"
    /\ target' = n
    /\ entries' = Known
    /\ history' = HistoryToResume(Known)
    /\ feedback' = FeedbackToResume(Known)
    /\ UNCHANGED <<disk, made, reply>>

\* Nothing to refine: only the summary may still be missing.
LoadNothingToDo(n) ==
    /\ pc = "down"
    /\ LastOf(Known).overflow \/ Len(Known) >= n
    /\ summary' = Known
    /\ UNCHANGED <<conversations, evaluations, made, pc, target, entries,
                   history, feedback, reply>>

-----------------------------------------------------------------------------
(* An iteration; its index is the number of entries so far.                *)

Answer(empty) ==
    /\ pc = "ask"
    /\ made < MaxAnswers
    /\ made' = made + 1
    /\ reply' = [gen |-> made + 1, empty |-> empty, overflow |-> FALSE,
                 history |-> history, feedback |-> feedback]
    /\ pc' = "judge"
    /\ UNCHANGED <<disk, target, entries, history, feedback>>

\* MaxTokenError: an entry without an answer.
Overflow ==
    /\ pc = "ask"
    /\ reply' = [gen |-> NoGen, empty |-> TRUE, overflow |-> TRUE,
                 history |-> history, feedback |-> feedback]
    /\ pc' = "save_summary"
    /\ UNCHANGED <<disk, made, target, entries, history, feedback>>

\* The answer is judged, or code that fails to compile in place of blank code,
\* and the result saved.
Judge ==
    /\ pc = "judge"
    /\ evaluations' = [evaluations EXCEPT ![Len(entries)] = reply.gen]
    /\ feedback' = FeedbackOf(reply)
    /\ pc' = "save_conversation"
    /\ UNCHANGED <<summary, conversations, made, target, entries, history, reply>>

SaveConversation ==
    /\ pc = "save_conversation"
    /\ conversations' = [conversations EXCEPT ![Len(entries)] = reply.gen]
    /\ pc' = "save_summary"
    /\ UNCHANGED <<summary, evaluations, made, target, entries, history, feedback, reply>>

SaveSummary ==
    /\ pc = "save_summary"
    /\ summary' = Append(entries, reply)
    /\ IF reply.overflow
       THEN Down
       ELSE /\ entries' = Append(entries, reply)
            /\ pc' = "delete"
            /\ UNCHANGED <<target, history, feedback, reply>>
    /\ UNCHANGED <<conversations, evaluations, made>>

\* Mutant: the conversation just saved is deleted.
Deleted_Latest == Len(entries) - 1

\* The conversation the summary no longer needs.
Deleted == Len(entries) - 2

\* A file that cannot be deleted stays.
DeletePrevious ==
    /\ pc = "delete"
    /\ conversations' \in {conversations, [conversations EXCEPT ![Deleted] = NoGen]}
    /\ IF Len(entries) < target
       THEN /\ pc' = "ask"
            /\ history' = reply.gen
            /\ UNCHANGED <<target, entries, feedback, reply>>
       ELSE Down
    /\ UNCHANGED <<summary, evaluations, made>>

\* The process is killed, or an exception ends the run: of the model, of the
\* judge or of a write that kept failing.
Crash ==
    /\ pc # "down"
    /\ Down
    /\ UNCHANGED <<disk, made>>

Next ==
    \/ \E n \in Lengths : Load(n) \/ LoadNothingToDo(n)
    \/ \E empty \in BOOLEAN : Answer(empty)
    \/ Overflow
    \/ Judge
    \/ SaveConversation
    \/ SaveSummary
    \/ DeletePrevious
    \/ Crash

Spec == Init /\ [][Next]_vars

-----------------------------------------------------------------------------
(* Properties.                                                             *)

\* Whenever a run dies, the next one can resume: the conversation of the last
\* iteration in the summary is there, it and every public result belong to the
\* answer the summary names, and not to one of a run that died before it.
FilesAgree ==
    /\ \A i \in 2..Len(summary) :
          ~summary[i].overflow => evaluations[i - 1] = summary[i].gen
    /\ Len(summary) > 1 /\ ~LastOf(summary).overflow =>
          conversations[Len(summary) - 1] = LastOf(summary).gen

\* However many runs it takes, the summary is one chain: each of its entries was
\* asked for after the messages, and with the feedback, of the entry before it,
\* none is ever rewritten, and nothing follows an overflow.
Chain == INSTANCE RefinementLog WITH log <- Known
ImplementsLog == Chain!Spec

-----------------------------------------------------------------------------
(* The inductive invariant behind them: the memory of a run mirrors the    *)
(* files it started from or has written.                                   *)

Iterating == pc \in {"ask", "judge", "save_conversation", "save_summary"}

MemoryMirrorsDisk ==
    /\ pc # "down" => entries = Known
    /\ Iterating => ~LastOf(entries).overflow /\ Len(entries) < target
    /\ pc = "ask" =>
          /\ history = LastOf(entries).gen
          /\ feedback = FeedbackOf(LastOf(entries))
    /\ pc \in {"judge", "save_conversation", "save_summary"} =>
          /\ reply.history = LastOf(entries).gen
          /\ reply.feedback = FeedbackOf(LastOf(entries))
    /\ pc \in {"save_conversation", "save_summary"} /\ ~reply.overflow =>
          /\ evaluations[Len(entries)] = reply.gen
          /\ feedback = FeedbackOf(reply)
    /\ pc = "save_summary" /\ ~reply.overflow =>
          conversations[Len(entries)] = reply.gen
    /\ pc \in {"judge", "save_conversation"} => ~reply.overflow
    /\ pc = "delete" =>
          /\ Len(summary) > 1
          /\ Len(entries) <= target
          /\ reply = LastOf(entries)
          /\ ~reply.overflow
          /\ feedback = FeedbackOf(reply)

RefineInv ==
    /\ TypeOK
    /\ Len(summary) <= Top
    /\ Known[1] = Initial
    /\ FilesAgree
    /\ MemoryMirrorsDisk

=============================================================================
