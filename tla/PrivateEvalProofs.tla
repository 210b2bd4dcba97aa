-------------------------- MODULE PrivateEvalProofs --------------------------
(***************************************************************************)
(* For every set of lengths and every set of codes, no cached private      *)
(* result is ever stale, however often a contest is run and cut short.     *)
(***************************************************************************)
EXTENDS PrivateEval, WellFoundedInduction, TLAPS

(* Every nonempty set of natural numbers has a smallest element. *)
LEMMA Smallest ==
    ASSUME NEW S \in SUBSET Nat, S # {}
    PROVE  \E x \in S : \A y \in S : x <= y
<1>. DEFINE R == {p \in Nat \X Nat : p[1] < p[2]}
<1>1. IsWellFoundedOn(R, Nat)
  BY NatLessThanWellFounded DEF OpToRel
<1>2. \E x \in S : \A y \in S : ~ (<<y, x>> \in R)
  <2>. HIDE DEF R
  <2>. QED
    BY <1>1, WFMin
<1>3. PICK x \in S : \A y \in S : ~ (<<y, x>> \in R)
  BY <1>2
<1>4. ASSUME NEW y \in S
      PROVE  x <= y
  <2>1. <<y, x>> \in R <=> y < x
    OBVIOUS
  <2>. QED
    BY <1>3, <2>1
<1>. QED
  BY <1>4

(* A nonempty chain has a first best entry. *)
LEMMA BestOfExists ==
    ASSUME NEW s \in Seq(Entry), s # <<>>
    PROVE  BestOf(s) \in 1..Len(s)
<1>. DEFINE Best(i) == \A j \in 1..Len(s) : s[i].score <= s[j].score
            First(i) == \A j \in 1..(i - 1) : s[i].score < s[j].score
            S == {s[i].score : i \in 1..Len(s)}
            B == {i \in 1..Len(s) : Best(i)}
<1>1. \A i \in 1..Len(s) : s[i].score \in Nat
  <2>1. \A i \in 1..Len(s) : s[i] \in Entry
    OBVIOUS
  <2>. QED
    BY <2>1 DEF Entry
<1>2. S \in SUBSET Nat /\ S # {}
  <2>1. 1 \in 1..Len(s)
    OBVIOUS
  <2>. QED
    BY <1>1, <2>1
<1>3. PICK best \in S : \A score \in S : best <= score
  <2>. HIDE DEF S
  <2>. QED
    BY <1>2, Smallest
<1>4. B \in SUBSET Nat /\ B # {}
  BY <1>3
<1>5. PICK i \in B : \A j \in B : i <= j
  <2>. HIDE DEF B
  <2>. QED
    BY <1>4, Smallest
<1>6. First(i)
  <2>. SUFFICES ASSUME NEW j \in 1..(i - 1)
                PROVE  s[i].score < s[j].score
    OBVIOUS
  <2>1. j \in 1..Len(s) /\ j \notin B
    BY <1>5
  <2>2. PICK k \in 1..Len(s) : ~(s[j].score <= s[k].score)
    BY <2>1
  <2>3. s[i].score <= s[k].score
    BY <1>5
  <2>. QED
    BY <1>1, <1>5, <2>1, <2>2, <2>3
<1>7. \E k \in 1..Len(s) : Best(k) /\ First(k)
  BY <1>5, <1>6
<1>. QED
  BY <1>7 DEF BestOf

(* The part of the chain that a name selects from. *)
LEMMA PrefixFacts ==
    ASSUME NEW s \in Seq(Entry), s # <<>>, NEW n \in Nat \ {0}
    PROVE  Prefix(s, n) \in Seq(Entry) /\ Prefix(s, n) # <<>>
<1>. DEFINE m == IF n < Len(s) THEN n ELSE Len(s)
<1>1. m \in Nat \ {0} /\ m <= Len(s)
  OBVIOUS
<1>2. SubSeq(s, 1, m) \in Seq(Entry) /\ Len(SubSeq(s, 1, m)) = m
  <2>. HIDE DEF m
  <2>1. \A i \in 1..m : s[i] \in Entry
    BY <1>1
  <2>. QED
    BY <1>1, <2>1
<1>. QED
  BY <1>1, <1>2 DEF Prefix

LEMMA PrefixOfAppend ==
    ASSUME NEW s \in Seq(Entry), NEW e \in Entry, NEW n \in 1..Len(s)
    PROVE  Prefix(Append(s, e), n) = Prefix(s, n)
BY DEF Prefix

(* A selected code is a code. *)
LEMMA CodeOfType ==
    ASSUME TypeOK, NEW name \in Names
    PROVE  CodeOf(name) \in Codes \cup {Blank}
<1>1. chain \in Seq(Entry) /\ chain # <<>>
  BY DEF TypeOK
<1>2. CASE name = 0
  <2>1. chain[1] \in Entry
    BY <1>1
  <2>. QED
    BY <1>2, <2>1 DEF CodeOf, Entry
<1>3. CASE name # 0
  <2>. DEFINE s == Prefix(chain, name)
  <2>1. name \in Nat \ {0}
    BY <1>3, PrivateEvalAssumption DEF Names
  <2>2. s \in Seq(Entry) /\ s # <<>>
    BY <1>1, <2>1, PrefixFacts
  <2>3. BestOf(s) \in 1..Len(s)
    <3>. HIDE DEF s
    <3>. QED
      BY <2>2, BestOfExists
  <2>4. s[BestOf(s)] \in Entry
    BY <2>2, <2>3
  <2>5. CodeOf(name) = s[BestOf(s)].code
    BY <1>3 DEF CodeOf
  <2>. QED
    BY <2>4, <2>5 DEF Entry
<1>. QED
  BY <1>2, <1>3

(* What a settled name selects is the same after one more refinement. *)
LEMMA CodeOfKept ==
    ASSUME TypeOK, NEW e \in Entry, chain' = Append(chain, e),
           NEW name \in Names, Len(chain) >= name
    PROVE  CodeOf(name)' = CodeOf(name)
<1>1. chain \in Seq(Entry) /\ Len(chain) \in Nat \ {0}
  BY DEF TypeOK
<1>2. CASE name = 0
  BY <1>1, <1>2 DEF CodeOf
<1>3. CASE name # 0
  <2>1. name \in 1..Len(chain)
    BY <1>1, <1>3, PrivateEvalAssumption DEF Names
  <2>2. Prefix(Append(chain, e), name) = Prefix(chain, name)
    BY <1>1, <2>1, PrefixOfAppend
  <2>. QED
    BY <1>3, <2>2 DEF CodeOf
<1>. QED
  BY <1>2, <1>3

LEMMA ResultFacts == Missing \notin Result /\ Failed \notin Result /\ Missing # Failed
BY DEF Missing, Failed, Result

LEMMA NothingFacts ==
    /\ Nothing \in [Names -> Result \cup {Missing}]
    /\ Nothing \in [Names -> Result \cup {Missing, Failed}]
    /\ \A name \in Names : Nothing[name] = Missing
BY DEF Nothing

LEMMA AnswersAreEntries == Answers \cup {Overflow} \subseteq Entry
<1>1. ASSUME NEW e \in [code : Codes, score : Scores \cup {Worst}, overflow : {FALSE}]
      PROVE  e \in Entry
  BY PrivateEvalAssumption DEF Entry
<1>2. [code |-> Blank, score |-> Worst, overflow |-> FALSE] \in Entry
  BY PrivateEvalAssumption DEF Entry
<1>3. Overflow \in Entry
  BY PrivateEvalAssumption DEF Overflow, Entry
<1>. QED
  BY <1>1, <1>2, <1>3 DEF Answers

(* The initial state satisfies the inductive invariant. *)
LEMMA InitInv == Init => PrivateEvalInv
<1>. SUFFICES ASSUME Init PROVE PrivateEvalInv
  OBVIOUS
<1>1. PICK e \in Answers : chain = <<e>>
  BY DEF Init
<1>2. chain \in Seq(Entry) /\ Len(chain) \in 1..Top
  <2>1. e \in Entry
    BY AnswersAreEntries
  <2>. QED
    BY <1>1, <2>1, PrivateEvalAssumption
<1>3. TypeOK
  BY <1>2, NothingFacts, PrivateEvalAssumption DEF Init, TypeOK
<1>4. CacheSettled /\ ResultsAreCached
  BY NothingFacts, ResultFacts DEF Init, CacheSettled, ResultsAreCached
<1>5. Fresh /\ Evaluating /\ Saving /\ AbortsOnlyAfterFailure /\ EverySolutionAdmitted
  BY DEF Init, Fresh, Evaluating, Saving, AbortsOnlyAfterFailure, EverySolutionAdmitted
<1>. QED
  BY <1>3, <1>4, <1>5 DEF PrivateEvalInv

-----------------------------------------------------------------------------
(* Steps that leave the chain alone keep what the names select.            *)
LEMMA ChainKept ==
    ASSUME UNCHANGED chain, NEW name
    PROVE  CodeOf(name)' = CodeOf(name) /\ SettledName(name)' = SettledName(name)
BY DEF CodeOf, SettledName, Last

(* A run that ends or begins holds no result. *)
LEMMA ForgottenInv ==
    ASSUME PrivateEvalInv, Forgotten, UNCHANGED <<chain, cache, evals>>,
           pc' \in {"down", "refine"}, target' \in 0..Top,
           final' = final \/ final' = results
    PROVE  PrivateEvalInv'
<1>1. TypeOK'
  BY NothingFacts DEF PrivateEvalInv, TypeOK, Forgotten, NoName
<1>2. CacheSettled'
  BY ChainKept DEF PrivateEvalInv, CacheSettled
<1>3. ResultsAreCached'
  BY NothingFacts, ResultFacts DEF PrivateEvalInv, ResultsAreCached, Forgotten
<1>4. (Fresh /\ Evaluating /\ Saving /\ AbortsOnlyAfterFailure /\ EverySolutionAdmitted)'
  BY DEF Forgotten, Fresh, Evaluating, Saving, AbortsOnlyAfterFailure, EverySolutionAdmitted
<1>. QED
  BY <1>1, <1>2, <1>3, <1>4 DEF PrivateEvalInv

LEMMA RunInv ==
    ASSUME PrivateEvalInv, NEW n \in Lengths, Run(n)
    PROVE  PrivateEvalInv'
BY ForgottenInv, PrivateEvalAssumption DEF Run, disk

LEMMA CrashInv ==
    ASSUME PrivateEvalInv, Crash
    PROVE  PrivateEvalInv'
BY ForgottenInv, PrivateEvalAssumption DEF Crash, disk

LEMMA FinishInv ==
    ASSUME PrivateEvalInv, Finish
    PROVE  PrivateEvalInv'
BY ForgottenInv, PrivateEvalAssumption DEF Finish

(* A refinement only happens while the last entry is no overflow: every    *)
(* settled name lies within the entries that are there.                    *)
LEMMA RefineInv ==
    ASSUME PrivateEvalInv, NEW e \in Answers \cup {Overflow}, Refine(e)
    PROVE  PrivateEvalInv'
<1>1. e \in Entry
  BY AnswersAreEntries
<1>2. chain \in Seq(Entry) /\ Len(chain) \in 1..Top /\ chain' = Append(chain, e)
  BY DEF PrivateEvalInv, TypeOK, Refine
<1>3. Len(chain) < target /\ target \in 0..Top /\ ~Last.overflow
  BY <1>2 DEF PrivateEvalInv, TypeOK, Refine, Refined
<1>4. TypeOK'
  <2>1. chain' \in Seq(Entry) /\ Len(chain') \in 1..Top
    BY <1>1, <1>2, <1>3, PrivateEvalAssumption
  <2>. QED
    BY <2>1 DEF PrivateEvalInv, TypeOK, Refine
<1>5. CacheSettled'
  <2>. SUFFICES ASSUME NEW name \in Names, cache[name] # Missing
                PROVE  SettledName(name)' /\ cache[name].code = CodeOf(name)'
    BY DEF CacheSettled, Refine
  <2>1. Len(chain) >= name /\ cache[name].code = CodeOf(name)
    BY <1>3 DEF PrivateEvalInv, CacheSettled, SettledName
  <2>2. CodeOf(name)' = CodeOf(name)
    BY <1>1, <1>2, <2>1, CodeOfKept DEF PrivateEvalInv
  <2>3. Len(chain') >= name
    BY <1>1, <1>2, <2>1, PrivateEvalAssumption DEF Names
  <2>. QED
    BY <2>1, <2>2, <2>3 DEF SettledName
<1>6. (ResultsAreCached /\ Fresh /\ Evaluating /\ Saving /\ AbortsOnlyAfterFailure
        /\ EverySolutionAdmitted)'
  BY DEF PrivateEvalInv, ResultsAreCached, Fresh, Evaluating, Saving, AbortsOnlyAfterFailure,
         EverySolutionAdmitted, Refine
<1>. QED
  BY <1>4, <1>5, <1>6 DEF PrivateEvalInv

(* Every name a run selects for is settled by then. *)
LEMMA SelectInv ==
    ASSUME PrivateEvalInv, Select
    PROVE  PrivateEvalInv'
<1>1. target \in 0..Top /\ Len(chain) \in 1..Top /\ Refined /\ past = past'
  BY DEF PrivateEvalInv, TypeOK, Select
<1>2. Targets(target) \subseteq 1..target
  BY DEF Targets
<1>3. \A name \in todo' : name \in Names /\ SettledName(name)
  BY <1>1, <1>2, PrivateEvalAssumption DEF Select, Names, Refined, SettledName
<1>4. pc = "refine" /\ pc' = "evaluate" /\ UNCHANGED <<disk, past, results, charged>>
  BY DEF Select
<1>5. TypeOK'
  BY <1>3, <1>4 DEF PrivateEvalInv, TypeOK, Select, disk
<1>6. (CacheSettled /\ ResultsAreCached)'
  BY <1>4, ChainKept DEF PrivateEvalInv, CacheSettled, ResultsAreCached, disk
<1>7. (Fresh /\ Evaluating /\ Saving /\ AbortsOnlyAfterFailure /\ EverySolutionAdmitted)'
  BY <1>3, <1>4 DEF PrivateEvalInv, Fresh, Evaluating, Saving, AbortsOnlyAfterFailure,
                    EverySolutionAdmitted, SettledName, Last, disk
<1>. QED
  BY <1>5, <1>6, <1>7 DEF PrivateEvalInv

-----------------------------------------------------------------------------
(* A solution that is done with: its result is in the cache or a failure,  *)
(* and only its own file was written, if it was missing.                   *)
LEMMA DoneInv ==
    ASSUME PrivateEvalInv,
           pc \in {"evaluate", "save"},
           pc' = "evaluate",
           NEW name \in Names, Current(name),
           NEW r \in Result \cup {Failed}, Done(name, r),
           UNCHANGED <<chain, final, evals, target>>,
           charged' = 0,
           \/ cache' = cache
           \/ cache[name] = Missing /\ r \in Result /\ cache' = [cache EXCEPT ![name] = r],
           r \in Result => r = cache'[name] /\ r.code = CodeOf(name),
           r = Failed => cache'[name] = Missing
    PROVE  PrivateEvalInv'
<1>. USE DEF PrivateEvalInv
<1>1. TypeOK'
  BY DEF TypeOK, Done
<1>2. \A other \in Names : other # name => cache'[other] = cache[other]
  BY DEF TypeOK
<1>3. \A other \in Names : other # name => results'[other] = results[other]
  BY DEF TypeOK, Done
<1>4. results'[name] = r /\ past' = name /\ todo' \subseteq todo /\ name \in todo
  BY DEF TypeOK, Done, Current
<1>5. \A other \in todo : SettledName(other)
  BY DEF Evaluating
<1>6. CacheSettled'
  <2>. SUFFICES ASSUME NEW other \in Names, cache'[other] # Missing
                PROVE  SettledName(other) /\ cache'[other].code = CodeOf(other)
    BY ChainKept DEF CacheSettled
  <2>1. CASE cache'[other] = cache[other]
    BY <2>1 DEF CacheSettled
  <2>2. CASE other = name /\ r \in Result
    BY <1>4, <1>5, <2>2
  <2>. QED
    BY <1>2, <2>1, <2>2
<1>7. ResultsAreCached'
  <2>. SUFFICES ASSUME NEW other \in Names
                PROVE  /\ results'[other] \in Result => results'[other] = cache'[other]
                       /\ results'[other] = Failed => cache'[other] = Missing
                       /\ final[other] \in Result => final[other] = cache'[other]
    BY DEF ResultsAreCached
  <2>1. /\ results'[other] \in Result => results'[other] = cache'[other]
        /\ results'[other] = Failed => cache'[other] = Missing
    BY <1>2, <1>3, <1>4, ResultFacts DEF ResultsAreCached
  <2>2. final[other] \in Result => final[other] = cache'[other]
    BY <1>2, ResultFacts DEF ResultsAreCached, TypeOK
  <2>. QED
    BY <2>1, <2>2
<1>8. (Fresh /\ Evaluating /\ Saving /\ AbortsOnlyAfterFailure /\ EverySolutionAdmitted)'
  <2>1. \A other \in todo' : SettledName(other)'
    BY <1>4, <1>5, ChainKept
  <2>2. results'[past'] # Missing
    BY <1>4, ResultFacts
  <2>. QED
    BY <2>1, <2>2 DEF Fresh, Evaluating, Saving, AbortsOnlyAfterFailure, EverySolutionAdmitted
<1>. QED
  BY <1>1, <1>6, <1>7, <1>8

LEMMA LoadCachedInv ==
    ASSUME PrivateEvalInv, NEW name \in Names, LoadCached(name)
    PROVE  PrivateEvalInv'
<1>1. cache[name] \in Result /\ cache[name].code = CodeOf(name)
  BY DEF PrivateEvalInv, TypeOK, CacheSettled, LoadCached, Cached
<1>2. charged' = 0
  BY DEF PrivateEvalInv, TypeOK, EverySolutionAdmitted, LoadCached
<1>. QED
  BY <1>1, <1>2, ResultFacts, DoneInv DEF LoadCached, disk

(* A result to copy is the cached one of the past solution. *)
LEMMA CopySameInv ==
    ASSUME PrivateEvalInv, NEW name \in Names, CopySame(name)
    PROVE  PrivateEvalInv'
<1>1. past \in Names /\ results[past] # Missing
  BY DEF PrivateEvalInv, TypeOK, Evaluating, CopySame, SameAsPast
<1>2. cache[past] \in Result /\ cache[past].code = CodeOf(name)
  BY <1>1 DEF PrivateEvalInv, TypeOK, CacheSettled, CopySame, SameAsPast
<1>3. charged' = 0
  BY DEF PrivateEvalInv, TypeOK, EverySolutionAdmitted, CopySame
<1>4. results[past] = cache[past]
  BY <1>1, <1>2, ResultFacts DEF PrivateEvalInv, TypeOK, ResultsAreCached
<1>5. cache' = [cache EXCEPT ![name] = cache[past]] /\ cache'[name] = cache[past]
  BY DEF PrivateEvalInv, TypeOK, CopySame
<1>. QED
  BY <1>2, <1>3, <1>4, <1>5, ResultFacts, DoneInv DEF CopySame, Cached

(* The past solution has a result that is not in the cache: it failed. *)
LEMMA CopyAbortsInv ==
    ASSUME PrivateEvalInv, NEW name \in Names, CopyAborts(name)
    PROVE  PrivateEvalInv'
<1>1. past \in Names /\ results[past] # Missing /\ cache[past] = Missing
  BY DEF PrivateEvalInv, TypeOK, Evaluating, CopyAborts, SameAsPast
<1>2. results[past] = Failed /\ past # NoName
  BY <1>1, ResultFacts DEF PrivateEvalInv, TypeOK, ResultsAreCached, CopyAborts, SameAsPast
<1>3. TypeOK'
  BY DEF PrivateEvalInv, TypeOK, CopyAborts, disk
<1>4. (CacheSettled /\ ResultsAreCached)'
  BY ChainKept DEF PrivateEvalInv, CacheSettled, ResultsAreCached, CopyAborts, disk
<1>5. (Fresh /\ Evaluating /\ Saving /\ AbortsOnlyAfterFailure /\ EverySolutionAdmitted)'
  BY <1>2 DEF Fresh, Evaluating, Saving, AbortsOnlyAfterFailure, EverySolutionAdmitted,
              CopyAborts
<1>. QED
  BY <1>3, <1>4, <1>5 DEF PrivateEvalInv

LEMMA EvaluateInv ==
    ASSUME PrivateEvalInv, NEW name \in Names, Evaluate(name)
    PROVE  PrivateEvalInv'
<1>1. TypeOK'
  BY DEF PrivateEvalInv, TypeOK, Evaluate, disk
<1>2. (CacheSettled /\ ResultsAreCached)'
  BY ChainKept DEF PrivateEvalInv, CacheSettled, ResultsAreCached, Evaluate, disk
<1>3. Saving'
  <2>. SUFFICES ASSUME NEW other \in Names, Current(other)'
                PROVE  cache[other] = Missing
    BY DEF Saving, Evaluate, disk
  <2>1. other = name
    BY PrivateEvalAssumption DEF Current, Evaluate, Names
  <2>. QED
    BY <2>1 DEF Evaluate, Cached
<1>4. (Fresh /\ Evaluating /\ AbortsOnlyAfterFailure /\ EverySolutionAdmitted)'
  BY ChainKept DEF PrivateEvalInv, Fresh, Evaluating, AbortsOnlyAfterFailure,
     EverySolutionAdmitted, Evaluate, disk
<1>. QED
  BY <1>1, <1>2, <1>3, <1>4 DEF PrivateEvalInv

LEMMA EvaluateRaisesInv ==
    ASSUME PrivateEvalInv, NEW name \in Names, EvaluateRaises(name)
    PROVE  PrivateEvalInv'
BY ResultFacts, DoneInv DEF EvaluateRaises, Cached, disk

LEMMA SaveInv ==
    ASSUME PrivateEvalInv, NEW name \in Names, Save(name)
    PROVE  PrivateEvalInv'
<1>. DEFINE r == [eval |-> evals, code |-> CodeOf(name)]
<1>1. r \in Result /\ r.code = CodeOf(name)
  BY CodeOfType DEF PrivateEvalInv, TypeOK, Result
<1>2. cache[name] = Missing
  BY DEF PrivateEvalInv, Saving, Save
<1>3. cache' = [cache EXCEPT ![name] = r] /\ cache'[name] = r
  BY DEF PrivateEvalInv, TypeOK, Save
<1>4. Done(name, r)
  BY DEF Save
<1>. QED
  <2>. HIDE DEF r
  <2>. QED
    BY <1>1, <1>2, <1>3, <1>4, ResultFacts, DoneInv DEF Save

LEMMA SaveFailsInv ==
    ASSUME PrivateEvalInv, NEW name \in Names, SaveFails(name)
    PROVE  PrivateEvalInv'
BY ResultFacts, DoneInv DEF PrivateEvalInv, Saving, SaveFails, disk

LEMMA StutterInv ==
    ASSUME PrivateEvalInv, UNCHANGED vars
    PROVE  PrivateEvalInv'
<1>1. TypeOK'
  BY DEF PrivateEvalInv, TypeOK, vars, disk
<1>2. (CacheSettled /\ ResultsAreCached)'
  BY ChainKept DEF PrivateEvalInv, CacheSettled, ResultsAreCached, vars, disk
<1>3. (Fresh /\ Evaluating /\ Saving /\ AbortsOnlyAfterFailure /\ EverySolutionAdmitted)'
  BY ChainKept DEF PrivateEvalInv, Fresh, Evaluating, Saving, Current, AbortsOnlyAfterFailure,
     EverySolutionAdmitted, vars, disk
<1>. QED
  BY <1>1, <1>2, <1>3 DEF PrivateEvalInv

LEMMA NextInv == PrivateEvalInv /\ [Next]_vars => PrivateEvalInv'
<1>. SUFFICES ASSUME PrivateEvalInv, [Next]_vars PROVE PrivateEvalInv'
  OBVIOUS
<1>1. CASE \E n \in Lengths : Run(n)
  BY <1>1, RunInv
<1>2. CASE \E e \in Answers \cup {Overflow} : Refine(e)
  BY <1>2, RefineInv
<1>3. CASE Select
  BY <1>3, SelectInv
<1>4. ASSUME NEW name \in Names,
             \/ LoadCached(name) \/ CopySame(name) \/ CopyAborts(name) \/ Evaluate(name)
             \/ EvaluateRaises(name) \/ Save(name) \/ SaveFails(name)
      PROVE  PrivateEvalInv'
  BY <1>4, LoadCachedInv, CopySameInv, CopyAbortsInv, EvaluateInv, EvaluateRaisesInv,
     SaveInv, SaveFailsInv
<1>5. CASE Finish
  BY <1>5, FinishInv
<1>6. CASE Crash
  BY <1>6, CrashInv
<1>7. CASE UNCHANGED vars
  BY <1>7, StutterInv
<1>. QED
  BY <1>1, <1>2, <1>3, <1>4, <1>5, <1>6, <1>7 DEF Next

-----------------------------------------------------------------------------
(* The inductive invariant: what is in the cache belongs to a settled name *)
(* and to the code it selects, and what a run holds as a result is there   *)
(* (evaluate.py, run_private_evaluation).                                  *)
THEOREM PrivateEvalInvariant == Spec => []PrivateEvalInv
<1>. QED
  BY InitInv, NextInv, PTL DEF Spec

(* The cached private results, keyed by name, are never stale, and the     *)
(* published ones are the cached ones (evaluate.py:53, __main__.py:176).   *)
THEOREM PrivateEvalCacheNeverStale == Spec => []CacheNeverStale
<1>1. PrivateEvalInv => CacheNeverStale
  BY DEF PrivateEvalInv, CacheSettled, ResultsAreCached, CacheNeverStale
<1>. QED
  BY <1>1, PrivateEvalInvariant, PTL

(* The missing file of a result to copy ends a contest only behind a       *)
(* private evaluation that failed (evaluate.py:97).                        *)
THEOREM PrivateEvalAbortsOnlyAfterFailure == Spec => []AbortsOnlyAfterFailure
<1>1. PrivateEvalInv => AbortsOnlyAfterFailure
  BY DEF PrivateEvalInv
<1>. QED
  BY <1>1, PrivateEvalInvariant, PTL

(* No solution is refused for the private evaluation of another            *)
(* (evaluate.py:153, the charge taken back).                               *)
THEOREM PrivateEvalEverySolutionAdmitted == Spec => []EverySolutionAdmitted
<1>1. PrivateEvalInv => EverySolutionAdmitted
  BY DEF PrivateEvalInv
<1>. QED
  BY <1>1, PrivateEvalInvariant, PTL

(* A step that writes a cached result finds none under that name. *)
LEMMA StepKeepsResults ==
    ASSUME PrivateEvalInv, [Next]_vars
    PROVE  \A name \in Names : cache[name] # Missing => cache'[name] = cache[name]
<1>1. CASE cache' = cache
  BY <1>1
<1>2. ASSUME NEW name \in Names, Save(name) \/ CopySame(name)
      PROVE  cache[name] = Missing /\ \E r : cache' = [cache EXCEPT ![name] = r]
  BY <1>2 DEF PrivateEvalInv, Saving, Save, CopySame, Cached
<1>3. CASE \E name \in Names : Save(name) \/ CopySame(name)
  BY <1>2, <1>3 DEF PrivateEvalInv, TypeOK
<1>4. (\E name \in Names : Save(name) \/ CopySame(name)) \/ cache' = cache
  BY DEF Next, Run, Refine, Select, LoadCached, CopyAborts, Evaluate, EvaluateRaises,
         SaveFails, Finish, Crash, vars, disk
<1>. QED
  BY <1>1, <1>3, <1>4

(* What was evaluated under a name is never evaluated again or replaced    *)
(* (evaluate.py:53).                                                       *)
THEOREM PrivateEvalKeepsResults == Spec => KeepsResults
<1>1. PrivateEvalInv /\ [Next]_vars =>
        [\A name \in Names : cache[name] # Missing => cache'[name] = cache[name]]_vars
  BY StepKeepsResults
<1>. QED
  BY <1>1, PrivateEvalInvariant, PTL DEF Spec, KeepsResults
=============================================================================
