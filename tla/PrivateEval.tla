----------------------------- MODULE PrivateEval -----------------------------
(***************************************************************************)
(* The last phases of evaluate_contest (ale_bench_eval/__main__.py): the   *)
(* solutions it selects from the chain of self-refinement (selection.py),  *)
(* and their private evaluations (evaluate.py, run_private_evaluation),    *)
(* cached in one file per solution name for the runs that follow.  A run   *)
(* may be killed or raise anywhere; a later one may ask for another        *)
(* n_self_refine.                                                          *)
(*                                                                         *)
(* The chain is the summary of SelfRefine, which only grows: an entry is   *)
(* here the code and the score that the selection looks at.  The scores    *)
(* are those of a problem that minimizes; one that maximizes mirrors it.   *)
(***************************************************************************)
EXTENDS Integers, Sequences

CONSTANTS
    Codes,          \* the codes an answer can hold, told apart after strip()
    Scores,         \* the values of overall_absolute_score
    Worst,          \* get_worst_score
    Lengths,        \* the values of n_self_refine that runs are given
    Top,            \* the largest of Lengths
    MaxEvals        \* bound: private evaluations begun, over all runs

ASSUME PrivateEvalAssumption ==
    /\ Top \in Nat \ {0}
    /\ Lengths \subseteq 1..Top
    /\ Scores \subseteq Nat
    /\ Worst \in Nat
    /\ MaxEvals \in Nat

VARIABLES
    chain,      \* self_refine_results.json
    cache,      \* private_result_<name>.json
    final,      \* final_results.json
    evals,      \* how many private evaluations were begun, in all
    pc,         \* where the run stands; "down": none runs
    target,     \* n_self_refine
    todo,       \* the solutions still to come
    past,       \* past_solution
    results,    \* results_private
    charged     \* num_call_private_eval of the session

disk == <<chain, cache, final>>
vars == <<chain, cache, final, evals, pc, target, todo, past, results, charged>>

\* The solution "repeated_sampling" is 0, "self_refine_<i>" is i.
Names == 0..Top
NoName == -1
Blank == ""

\* A result is known by the evaluation that gave it and the code it judged.
Result == [eval : Nat, code : Codes \cup {Blank}]
Missing == [eval |-> -1, code |-> Blank]
Failed == [eval |-> -2, code |-> Blank]
Nothing == [name \in Names |-> Missing]

\* A blank answer is judged as code that fails to compile.  The initial entry is the
\* selected repeated sampling.
Answers ==
    [code : Codes, score : Scores \cup {Worst}, overflow : {FALSE}]
      \cup {[code |-> Blank, score |-> Worst, overflow |-> FALSE]}
Overflow == [code |-> Blank, score |-> Worst, overflow |-> TRUE]

Entry == [code : Codes \cup {Blank}, score : Nat, overflow : BOOLEAN]
Last == chain[Len(chain)]

TypeOK ==
    /\ chain \in Seq(Entry)
    /\ Len(chain) \in 1..Top
    /\ cache \in [Names -> Result \cup {Missing}]
    /\ final \in [Names -> Result \cup {Missing, Failed}]
    /\ evals \in Nat
    /\ pc \in {"down", "refine", "evaluate", "save", "aborted"}
    /\ target \in 0..Top
    /\ todo \subseteq Names
    /\ past \in Names \cup {NoName}
    /\ results \in [Names -> Result \cup {Missing, Failed}]
    /\ charged \in 0..1

Init ==
    /\ \E e \in Answers : chain = <<e>>
    /\ cache = Nothing
    /\ final = Nothing
    /\ evals = 0
    /\ pc = "down"
    /\ target = 0
    /\ todo = {}
    /\ past = NoName
    /\ results = Nothing
    /\ charged = 0

-----------------------------------------------------------------------------
(* The selection.                                                          *)

\* power_of_two_indices
Targets(n) == {k \in 1..n : k = n \/ \E i \in 0..n : k = 2^i}

Prefix(s, n) == SubSeq(s, 1, IF n < Len(s) THEN n ELSE Len(s))

\* argmin: the first of the best.
BestOf(s) ==
    CHOOSE i \in 1..Len(s) :
        /\ \A j \in 1..Len(s) : s[i].score <= s[j].score
        /\ \A j \in 1..(i - 1) : s[i].score < s[j].score

\* Mutant: the best of all refinements so far, whatever the name says.
CodeOf_All(name) == IF name = 0 THEN chain[1].code ELSE chain[BestOf(chain)].code

\* The code that a run evaluates under a name.
CodeOf(name) ==
    IF name = 0 THEN chain[1].code
    ELSE Prefix(chain, name)[BestOf(Prefix(chain, name))].code

-----------------------------------------------------------------------------
(* A run, up to its selection.  It has a session of its own.               *)

Forgotten ==
    /\ todo' = {}
    /\ past' = NoName
    /\ results' = Nothing
    /\ charged' = 0

Run(n) ==
    /\ pc \in {"down", "aborted"}
    /\ pc' = "refine"
    /\ target' = n
    /\ Forgotten
    /\ UNCHANGED <<disk, evals>>

Refined == Last.overflow \/ Len(chain) >= target

\* An iteration of run_self_refinement: an answer, or the overflow.
Refine(e) ==
    /\ pc = "refine"
    /\ ~Refined
    /\ chain' = Append(chain, e)
    /\ UNCHANGED <<cache, final, evals, pc, target, todo, past, results, charged>>

Select ==
    /\ pc = "refine"
    /\ Refined
    /\ pc' = "evaluate"
    /\ todo' = {0} \cup Targets(target)
    /\ UNCHANGED <<disk, evals, target, past, results, charged>>

-----------------------------------------------------------------------------
(* run_private_evaluation, one solution after the other.                   *)

Current(name) == name \in todo /\ \A other \in todo : name <= other

\* Mutant: a run does not look for the results of earlier ones.
Cached_Ignored(name) == FALSE

\* The file private_result_<name>.json is there.
Cached(name) == cache[name] # Missing

SameAsPast(name) == past # NoName /\ CodeOf(past) = CodeOf(name)

\* A solution is done with: result r, or the error that stands for one.
Done(name, r) ==
    /\ results' = [results EXCEPT ![name] = r]
    /\ past' = name
    /\ todo' = todo \ {name}

LoadCached(name) ==
    /\ pc = "evaluate"
    /\ Current(name)
    /\ Cached(name)
    /\ Done(name, cache[name])
    /\ UNCHANGED <<disk, evals, pc, target, charged>>

\* Mutant: the result of the same code is not saved under the second name.
CopySame_NotSaved(name) ==
    /\ pc = "evaluate"
    /\ Current(name)
    /\ ~Cached(name)
    /\ SameAsPast(name)
    /\ cache[past] # Missing
    /\ Done(name, results[past])
    /\ UNCHANGED <<disk, evals, pc, target, charged>>

\* The same code as the solution before: its result, and its cached result too.
CopySame(name) ==
    /\ pc = "evaluate"
    /\ Current(name)
    /\ ~Cached(name)
    /\ SameAsPast(name)
    /\ cache[past] # Missing
    /\ Done(name, results[past])
    /\ cache' = [cache EXCEPT ![name] = cache[past]]
    /\ UNCHANGED <<chain, final, evals, pc, target, charged>>

\* The cached result of the solution before is not there: FileNotFoundError, which
\* nothing catches on its way out of evaluate_contest.
CopyAborts(name) ==
    /\ pc = "evaluate"
    /\ Current(name)
    /\ ~Cached(name)
    /\ SameAsPast(name)
    /\ cache[past] = Missing
    /\ pc' = "aborted"
    /\ UNCHANGED <<disk, evals, target, todo, past, results, charged>>

\* session.private_eval returns; the session is charged its one evaluation.
Evaluate(name) ==
    /\ pc = "evaluate"
    /\ Current(name)
    /\ ~Cached(name)
    /\ ~SameAsPast(name)
    /\ charged < 1
    /\ evals < MaxEvals
    /\ evals' = evals + 1
    /\ charged' = 1
    /\ pc' = "save"
    /\ UNCHANGED <<disk, target, todo, past, results>>

\* Mutant: the charge is taken back only after a success.
EvaluateRaises_NotReset(name) ==
    /\ pc = "evaluate"
    /\ Current(name)
    /\ ~Cached(name)
    /\ ~SameAsPast(name)
    /\ charged' \in IF charged < 1 THEN {0, 1} ELSE {1}
    /\ Done(name, Failed)
    /\ UNCHANGED <<disk, evals, pc, target>>

\* It raises, before or after the charge; the finally clause takes that back.
EvaluateRaises(name) ==
    /\ pc = "evaluate"
    /\ Current(name)
    /\ ~Cached(name)
    /\ ~SameAsPast(name)
    /\ charged' = 0
    /\ Done(name, Failed)
    /\ UNCHANGED <<disk, evals, pc, target>>

\* The result is written, and only then recorded.
Save(name) ==
    /\ pc = "save"
    /\ Current(name)
    /\ LET r == [eval |-> evals, code |-> CodeOf(name)]
       IN  /\ cache' = [cache EXCEPT ![name] = r]
           /\ Done(name, r)
    /\ pc' = "evaluate"
    /\ charged' = 0
    /\ UNCHANGED <<chain, final, evals, target>>

SaveFails(name) ==
    /\ pc = "save"
    /\ Current(name)
    /\ Done(name, Failed)
    /\ pc' = "evaluate"
    /\ charged' = 0
    /\ UNCHANGED <<disk, evals, target>>

Finish ==
    /\ pc = "evaluate"
    /\ todo = {}
    /\ final' = results
    /\ pc' = "down"
    /\ target' = 0
    /\ Forgotten
    /\ UNCHANGED <<chain, cache, evals>>

\* The process is killed, or an exception of another kind ends the run.
Crash ==
    /\ pc \in {"refine", "evaluate", "save"}
    /\ pc' = "down"
    /\ target' = 0
    /\ Forgotten
    /\ UNCHANGED <<disk, evals>>

Next ==
    \/ \E n \in Lengths : Run(n)
    \/ \E e \in Answers \cup {Overflow} : Refine(e)
    \/ Select
    \/ \E name \in Names :
          \/ LoadCached(name)
          \/ CopySame(name)
          \/ CopyAborts(name)
          \/ Evaluate(name)
          \/ EvaluateRaises(name)
          \/ Save(name)
          \/ SaveFails(name)
    \/ Finish
    \/ Crash

Spec == Init /\ [][Next]_vars

-----------------------------------------------------------------------------
(* Properties.                                                             *)

\* The cache is keyed by the name of a solution alone, and still never stale: in
\* every later run, whatever its length, the name selects the code that was
\* evaluated, and the published result is the cached one.
CacheNeverStale ==
    \A name \in Names :
        /\ cache[name] # Missing => cache[name].code = CodeOf(name)
        /\ final[name] \in Result => final[name] = cache[name]

\* What was evaluated is not evaluated again, or replaced, by any run.
KeepsResults == [][\A name \in Names : cache[name] # Missing => cache'[name] = cache[name]]_vars

\* The missing file of a result to copy ends a contest only behind a private
\* evaluation that failed in this run; results that were loaded or copied
\* themselves are always there.
AbortsOnlyAfterFailure == pc = "aborted" => past # NoName /\ results[past] = Failed

\* However many solutions a run evaluates in its one session, and whichever of
\* them raise, before their charge or after it, none is refused for the private
\* evaluation of another.
EverySolutionAdmitted == pc = "evaluate" => charged < 1

-----------------------------------------------------------------------------
(* The inductive invariant.                                                *)

\* A name is settled once the chain it selects from cannot change any more.
SettledName(name) == Last.overflow \/ Len(chain) >= name

CacheSettled ==
    \A name \in Names :
        cache[name] # Missing => SettledName(name) /\ cache[name].code = CodeOf(name)

ResultsAreCached ==
    \A name \in Names :
        /\ results[name] \in Result => results[name] = cache[name]
        /\ results[name] = Failed => cache[name] = Missing
        /\ final[name] \in Result => final[name] = cache[name]

Fresh == pc \in {"down", "refine"} => past = NoName /\ charged = 0

Evaluating ==
    pc \in {"evaluate", "save"} =>
        /\ \A name \in todo : SettledName(name)
        /\ past # NoName => results[past] # Missing

Saving ==
    pc = "save" =>
        \A name \in Names : Current(name) => cache[name] = Missing

PrivateEvalInv ==
    /\ TypeOK
    /\ CacheSettled
    /\ ResultsAreCached
    /\ Fresh
    /\ Evaluating
    /\ Saving
    /\ AbortsOnlyAfterFailure
    /\ EverySolutionAdmitted

=============================================================================
