-------------------------- MODULE SelfRefineProofs ---------------------------
(***************************************************************************)
(* For every set of lengths and however often a run is cut short, a        *)
(* self-refinement can be resumed, and its record is one chain.            *)
(***************************************************************************)
EXTENDS SelfRefine, TLAPS

LEMMA InitialIsEntry == Initial \in Entry
BY SelfRefineAssumption DEF Initial, Entry, Gens, NoGen

LEMMA EmptyIsSeq == <<>> \in Seq(Entry) /\ Len(<<>>) = 0
OBVIOUS

(* What the entries a run starts with look like. *)
LEMMA KnownFacts ==
    ASSUME summary \in Seq(Entry)
    PROVE  /\ Known \in Seq(Entry)
           /\ Len(Known) \in Nat \ {0}
           /\ LastOf(Known) \in Entry
           /\ summary = <<>> => Known = <<Initial>> /\ Len(Known) = 1
           /\ summary # <<>> => Known = summary
           /\ Len(Known) > 1 => Known = summary
<1>1. CASE summary = <<>>
  BY <1>1, InitialIsEntry DEF Known, LastOf
<1>2. CASE summary # <<>>
  BY <1>2 DEF Known, LastOf
<1>. QED
  BY <1>1, <1>2

(* Appending an entry makes it the last one and keeps the others. *)
LEMMA AppendFacts ==
    ASSUME NEW s \in Seq(Entry), NEW e \in Entry
    PROVE  /\ Append(s, e) \in Seq(Entry)
           /\ Append(s, e) # <<>>
           /\ Len(Append(s, e)) = Len(s) + 1
           /\ LastOf(Append(s, e)) = e
           /\ \A i \in 1..Len(s) : Append(s, e)[i] = s[i]
           /\ SubSeq(Append(s, e), 1, Len(s)) = s
<1>1. /\ Append(s, e) \in Seq(Entry)
      /\ Append(s, e) # <<>>
      /\ Len(Append(s, e)) = Len(s) + 1
      /\ LastOf(Append(s, e)) = e
      /\ \A i \in 1..Len(s) : Append(s, e)[i] = s[i]
  BY DEF LastOf
<1>2. SubSeq(Append(s, e), 1, Len(s)) = s
  BY <1>1
<1>. QED
  BY <1>1, <1>2

LEMMA FeedbackType ==
    ASSUME NEW e \in Entry
    PROVE  FeedbackOf(e) \in Gens
BY DEF FeedbackOf, Entry, Gens, NoGen

(* The initial state satisfies the inductive invariant. *)
LEMMA InitInv == Init => RefineInv
<1>. SUFFICES ASSUME Init PROVE RefineInv
  OBVIOUS
<1>1. TypeOK
  BY InitialIsEntry, SelfRefineAssumption DEF Init, TypeOK, Gens, NoGen, Indices
<1>2. FilesAgree
  BY DEF Init, FilesAgree
<1>3. MemoryMirrorsDisk
  BY DEF Init, MemoryMirrorsDisk, Iterating
<1>4. Known[1] = Initial /\ Len(summary) <= Top
  BY SelfRefineAssumption DEF Init, Known
<1>. QED
  BY <1>1, <1>2, <1>3, <1>4 DEF RefineInv

-----------------------------------------------------------------------------
(* A step that leaves the summary alone keeps every part of the invariant  *)
(* that reads only the summary.                                            *)
LEMMA SummaryKept ==
    ASSUME RefineInv, UNCHANGED summary
    PROVE  /\ Known' = Known
           /\ (Len(summary) <= Top)'
           /\ (Known[1] = Initial)'
BY DEF RefineInv, Known

(* The files of the entries in the summary agree as long as none is written. *)
LEMMA FilesKept ==
    ASSUME RefineInv, UNCHANGED summary,
           \A k \in 1..(Len(summary) - 1) : evaluations'[k] = evaluations[k],
           Len(summary) > 1 =>
               conversations'[Len(summary) - 1] = conversations[Len(summary) - 1]
    PROVE  FilesAgree'
<1>1. Len(summary) \in Nat
  BY DEF RefineInv, TypeOK
<1>2. \A i \in 2..Len(summary) : i - 1 \in 1..(Len(summary) - 1)
  BY <1>1
<1>. QED
  BY <1>1, <1>2 DEF RefineInv, FilesAgree, LastOf

(* Every way a run ends keeps what is on disk, and what is on disk is all  *)
(* that is left to say.                                                    *)
LEMMA DownInv ==
    ASSUME RefineInv, Down, UNCHANGED <<summary, evaluations, made>>,
           conversations' \in [Indices -> Gens], FilesAgree'
    PROVE  RefineInv'
<1>1. TypeOK'
  BY InitialIsEntry, SelfRefineAssumption DEF RefineInv, TypeOK, Down, Gens, NoGen
<1>2. MemoryMirrorsDisk'
  BY DEF Down, MemoryMirrorsDisk, Iterating
<1>. QED
  BY <1>1, <1>2, SummaryKept DEF RefineInv

LEMMA CrashInv ==
    ASSUME RefineInv, Crash
    PROVE  RefineInv'
<1>1. FilesAgree'
  BY DEF RefineInv, FilesAgree, Crash, disk, LastOf
<1>. QED
  BY <1>1, DownInv DEF Crash, disk, RefineInv, TypeOK

LEMMA LoadInv ==
    ASSUME RefineInv, NEW n \in Lengths, Load(n)
    PROVE  RefineInv'
<1>1. /\ Known \in Seq(Entry)
      /\ Len(Known) \in Nat \ {0}
      /\ LastOf(Known) \in Entry
      /\ Len(Known) > 1 => Known = summary
      /\ Known[1] = Initial
  BY KnownFacts DEF RefineInv, TypeOK
<1>2. n \in 1..Top
  BY SelfRefineAssumption
<1>2a. Len(Known) \in Nat \ {0}
  BY <1>1
<1>3. /\ HistoryToResume(Known) = LastOf(Known).gen
      /\ FeedbackToResume(Known) = FeedbackOf(LastOf(Known))
  <2>1. CASE Len(Known) = 1
    BY <2>1, <1>1 DEF HistoryToResume, FeedbackToResume, LastOf
  <2>2. CASE Len(Known) # 1
    <3>. Len(Known) = 1 \/ Len(Known) > 1
      BY <1>2a
    <3>0. Len(Known) > 1
      BY <2>2, Zenon
    <3>1. ~LastOf(Known).overflow /\ LastOf(Known) = summary[Len(summary)] /\ Len(summary) = Len(Known)
      BY <3>0, <1>1 DEF Load, LastOf
    <3>2. /\ conversations[Len(Known) - 1] = LastOf(Known).gen
          /\ evaluations[Len(Known) - 1] = LastOf(Known).gen
      BY <3>1, <3>0, <1>1 DEF RefineInv, FilesAgree
    <3>. QED
      BY <2>2, <3>2, Zenon DEF HistoryToResume, FeedbackToResume, FeedbackOf
  <2>. QED
    BY <2>1, <2>2
<1>4. TypeOK'
  BY <1>1, <1>2, <1>3, FeedbackType DEF Load, RefineInv, TypeOK, disk, Entry, Gens
<1>5. FilesAgree'
  BY DEF RefineInv, FilesAgree, Load, disk, LastOf
<1>6. MemoryMirrorsDisk'
  BY <1>1, <1>3, SummaryKept DEF Load, disk, MemoryMirrorsDisk, Iterating, LastOf, FeedbackOf
<1>. QED
  BY <1>4, <1>5, <1>6, SummaryKept DEF Load, disk, RefineInv

LEMMA LoadNothingToDoInv ==
    ASSUME RefineInv, NEW n \in Lengths, LoadNothingToDo(n)
    PROVE  RefineInv'
<1>1. /\ Known \in Seq(Entry)
      /\ Len(Known) \in Nat \ {0}
      /\ summary = <<>> => Known = <<Initial>> /\ Len(Known) = 1
      /\ summary # <<>> => Known = summary
      /\ Known[1] = Initial
  BY KnownFacts DEF RefineInv, TypeOK
<1>2. Known' = Known
  BY <1>1 DEF LoadNothingToDo, Known
<1>3. TypeOK'
  BY <1>1 DEF LoadNothingToDo, RefineInv, TypeOK
<1>4. FilesAgree' /\ (Len(summary) <= Top)'
  <2>1. CASE summary = <<>>
    <3>1. summary' = <<Initial>> /\ Len(summary') = 1
      BY <2>1, <1>1 DEF LoadNothingToDo
    <3>. QED
      BY <3>1, SelfRefineAssumption DEF FilesAgree
  <2>2. CASE summary # <<>>
    BY <2>2, <1>1 DEF LoadNothingToDo, FilesAgree, RefineInv, LastOf
  <2>. QED
    BY <2>1, <2>2
<1>5. MemoryMirrorsDisk'
  BY DEF LoadNothingToDo, MemoryMirrorsDisk, Iterating
<1>. QED
  BY <1>1, <1>2, <1>3, <1>4, <1>5 DEF RefineInv

-----------------------------------------------------------------------------
(* The steps of an iteration.                                              *)

(* While a run is in an iteration, its entries are those on disk. *)
LEMMA IterationFacts ==
    ASSUME RefineInv, Iterating
    PROVE  /\ entries = Known
           /\ Known \in Seq(Entry)
           /\ Len(Known) \in Nat \ {0}
           /\ LastOf(Known) \in Entry
           /\ Len(Known) > 1 => Known = summary
           /\ Len(entries) \in Indices
           /\ Len(entries) + 1 <= Top
           /\ ~LastOf(Known).overflow
<1>1. entries = Known /\ Len(entries) < target /\ ~LastOf(Known).overflow
  BY DEF RefineInv, MemoryMirrorsDisk, Iterating
<1>. QED
  BY <1>1, KnownFacts, SelfRefineAssumption DEF RefineInv, TypeOK, Indices

LEMMA AnswerInv ==
    ASSUME RefineInv, NEW empty \in BOOLEAN, Answer(empty)
    PROVE  RefineInv'
<1>1. TypeOK'
  BY DEF Answer, RefineInv, TypeOK, Entry, Gens, disk
<1>2. FilesAgree'
  BY DEF RefineInv, FilesAgree, Answer, disk, LastOf
<1>3. MemoryMirrorsDisk'
  BY SummaryKept DEF Answer, disk, RefineInv, MemoryMirrorsDisk, Iterating, LastOf, FeedbackOf
<1>. QED
  BY <1>1, <1>2, <1>3, SummaryKept DEF Answer, disk, RefineInv

LEMMA OverflowInv ==
    ASSUME RefineInv, Overflow
    PROVE  RefineInv'
<1>1. TypeOK'
  BY DEF Overflow, RefineInv, TypeOK, Entry, Gens, NoGen, disk
<1>2. FilesAgree'
  BY DEF RefineInv, FilesAgree, Overflow, disk, LastOf
<1>3. MemoryMirrorsDisk'
  BY SummaryKept DEF Overflow, disk, RefineInv, MemoryMirrorsDisk, Iterating, LastOf, FeedbackOf
<1>. QED
  BY <1>1, <1>2, <1>3, SummaryKept DEF Overflow, disk, RefineInv

LEMMA JudgeInv ==
    ASSUME RefineInv, Judge
    PROVE  RefineInv'
<1>1. Iterating
  BY DEF Judge, Iterating
<1>2. /\ entries = Known
      /\ Len(Known) \in Nat \ {0}
      /\ Len(Known) > 1 => Known = summary
      /\ Len(entries) \in Indices
  BY <1>1, IterationFacts
<1>3. TypeOK'
  BY FeedbackType DEF Judge, RefineInv, TypeOK, Entry, Gens
<1>4. FilesAgree'
  <2>1. ASSUME NEW k \in 1..(Len(summary) - 1)
        PROVE  evaluations'[k] = evaluations[k]
    <3>1. k \in Indices /\ Len(entries) # k
      BY <1>2, KnownFacts, SelfRefineAssumption DEF RefineInv, TypeOK, Indices
    <3>. QED
      BY <3>1 DEF Judge, RefineInv, TypeOK
  <2>2. Len(summary) \in Nat
    BY DEF RefineInv, TypeOK
  <2>. QED
    BY <2>1, <2>2, FilesKept DEF Judge
<1>5. MemoryMirrorsDisk'
  BY <1>2, SummaryKept DEF Judge, RefineInv, TypeOK, MemoryMirrorsDisk, Iterating, LastOf, FeedbackOf
<1>. QED
  BY <1>3, <1>4, <1>5, SummaryKept DEF Judge, RefineInv

LEMMA SaveConversationInv ==
    ASSUME RefineInv, SaveConversation
    PROVE  RefineInv'
<1>1. Iterating
  BY DEF SaveConversation, Iterating
<1>2. /\ entries = Known
      /\ Len(Known) \in Nat \ {0}
      /\ Len(Known) > 1 => Known = summary
      /\ Len(entries) \in Indices
  BY <1>1, IterationFacts
<1>3. TypeOK'
  BY DEF SaveConversation, RefineInv, TypeOK, Entry, Gens
<1>4. FilesAgree'
  <2>1. ASSUME NEW k \in 1..(Len(summary) - 1)
        PROVE  conversations'[k] = conversations[k]
    <3>1. k \in Indices /\ Len(entries) # k
      BY <1>2, KnownFacts, SelfRefineAssumption DEF RefineInv, TypeOK, Indices
    <3>. QED
      BY <3>1 DEF SaveConversation, RefineInv, TypeOK
  <2>2. Len(summary) \in Nat
    BY DEF RefineInv, TypeOK
  <2>. QED
    BY <2>1, <2>2, FilesKept DEF SaveConversation
<1>5. MemoryMirrorsDisk'
  BY <1>2, SummaryKept
  DEF SaveConversation, RefineInv, TypeOK, MemoryMirrorsDisk, Iterating, LastOf, FeedbackOf
<1>. QED
  BY <1>3, <1>4, <1>5, SummaryKept DEF SaveConversation, RefineInv

(* The one step that grows the summary. *)
LEMMA SaveSummaryFacts ==
    ASSUME RefineInv, SaveSummary
    PROVE  /\ Known' = Append(Known, reply)
           /\ summary' = Append(Known, reply)
           /\ Known \in Seq(Entry)
           /\ Len(Known) \in Nat \ {0}
           /\ reply \in Entry
           /\ ~LastOf(Known).overflow
           /\ Len(Known) + 1 <= Top
           /\ reply.history = LastOf(Known).gen
           /\ reply.feedback = FeedbackOf(LastOf(Known))
<1>1. Iterating
  BY DEF SaveSummary, Iterating
<1>2. entries = Known /\ Known \in Seq(Entry) /\ reply \in Entry
  BY <1>1, IterationFacts DEF RefineInv, TypeOK
<1>3. summary' = Append(Known, reply) /\ summary' # <<>>
  BY <1>2, AppendFacts DEF SaveSummary
<1>4. Known' = Append(Known, reply)
  BY <1>3 DEF Known
<1>. QED
  BY <1>1, <1>2, <1>3, <1>4, IterationFacts DEF SaveSummary, RefineInv, MemoryMirrorsDisk

LEMMA SaveSummaryInv ==
    ASSUME RefineInv, SaveSummary
    PROVE  RefineInv'
<1>0. Iterating
  BY DEF SaveSummary, Iterating
<1>1. /\ Known' = Append(Known, reply)
      /\ summary' = Append(Known, reply)
      /\ Known \in Seq(Entry)
      /\ Len(Known) \in Nat \ {0}
      /\ Len(Known) + 1 <= Top
      /\ reply \in Entry
  BY SaveSummaryFacts
<1>2. /\ summary' \in Seq(Entry)
      /\ Len(summary') = Len(Known) + 1
      /\ LastOf(summary') = reply
      /\ summary'[Len(Known) + 1] = reply
      /\ \A i \in 1..Len(Known) : summary'[i] = Known[i]
  BY <1>1, AppendFacts DEF LastOf
<1>3. entries = Known /\ (Len(Known) > 1 => Known = summary) /\ Len(entries) < target
  BY <1>0, IterationFacts DEF RefineInv, MemoryMirrorsDisk
<1>4. FilesAgree'
  <2>1. ASSUME NEW i \in 2..Len(summary'), ~summary'[i].overflow
        PROVE  evaluations'[i - 1] = summary'[i].gen
    <3>1. CASE i = Len(Known) + 1
      BY <3>1, <2>1, <1>1, <1>2, <1>3 DEF SaveSummary, RefineInv, MemoryMirrorsDisk
    <3>2. CASE i # Len(Known) + 1
      <4>1. i \in 2..Len(Known) /\ Known = summary
        BY <3>2, <1>1, <1>2, <1>3
      <4>. QED
        BY <4>1, <2>1, <1>2 DEF SaveSummary, RefineInv, FilesAgree
    <3>. QED
      BY <3>1, <3>2
  <2>2. ~LastOf(summary').overflow => conversations'[Len(summary') - 1] = LastOf(summary').gen
    BY <1>1, <1>2, <1>3 DEF SaveSummary, RefineInv, MemoryMirrorsDisk
  <2>. QED
    BY <2>1, <2>2 DEF FilesAgree, LastOf
<1>5. TypeOK'
  <2>1. CASE reply.overflow
    BY <2>1, <1>2, InitialIsEntry, SelfRefineAssumption
    DEF SaveSummary, Down, RefineInv, TypeOK, Gens, NoGen
  <2>2. CASE ~reply.overflow
    BY <2>2, <1>1, <1>2, <1>3 DEF SaveSummary, RefineInv, TypeOK
  <2>. QED
    BY <2>1, <2>2
<1>6. MemoryMirrorsDisk'
  <2>1. CASE reply.overflow
    BY <2>1 DEF SaveSummary, Down, MemoryMirrorsDisk, Iterating
  <2>2. CASE ~reply.overflow
    <3>1. pc' = "delete" /\ entries' = Known' /\ reply' = reply /\ LastOf(entries') = reply
      BY <2>2, <1>1, <1>2, <1>3 DEF SaveSummary
    <3>2. feedback' = FeedbackOf(reply)
      BY <2>2 DEF SaveSummary, RefineInv, MemoryMirrorsDisk, FeedbackOf
    <3>3. Len(entries') <= target' /\ Len(summary') > 1
      BY <2>2, <1>1, <1>2, <1>3 DEF SaveSummary, RefineInv, TypeOK
    <3>. QED
      BY <3>1, <3>2, <3>3, <2>2 DEF MemoryMirrorsDisk, Iterating, LastOf, FeedbackOf
  <2>. QED
    BY <2>1, <2>2
<1>7. (Known[1] = Initial)'
  BY <1>1, <1>2 DEF RefineInv
<1>. QED
  BY <1>1, <1>2, <1>4, <1>5, <1>6, <1>7 DEF RefineInv

LEMMA DeletePreviousInv ==
    ASSUME RefineInv, DeletePrevious
    PROVE  RefineInv'
<1>1. /\ entries = Known
      /\ Len(summary) > 1
      /\ Len(entries) <= target
      /\ reply = LastOf(entries)
      /\ ~reply.overflow
      /\ feedback = FeedbackOf(reply)
  BY DEF DeletePrevious, RefineInv, MemoryMirrorsDisk
<1>2. Known = summary /\ Len(Known) \in Nat
  BY <1>1, KnownFacts DEF RefineInv, TypeOK
<1>3. conversations' \in [Indices -> Gens]
  BY DEF DeletePrevious, RefineInv, TypeOK, Gens, NoGen
<1>4. FilesAgree'
  <2>1. conversations'[Len(summary) - 1] = conversations[Len(summary) - 1]
    <3>1. Len(summary) - 1 \in Indices /\ Deleted # Len(summary) - 1
      BY <1>1, <1>2, SelfRefineAssumption DEF Deleted, Indices, RefineInv, TypeOK
    <3>. QED
      BY <3>1 DEF DeletePrevious, RefineInv, TypeOK
  <2>. QED
    BY <2>1 DEF DeletePrevious, RefineInv, FilesAgree, LastOf
<1>5. CASE Len(entries) < target
  <2>1. TypeOK'
    BY <1>3, <1>5 DEF DeletePrevious, RefineInv, TypeOK, Entry
  <2>2. MemoryMirrorsDisk'
    BY <1>1, <1>5, SummaryKept DEF DeletePrevious, MemoryMirrorsDisk, Iterating, LastOf, FeedbackOf
  <2>. QED
    BY <1>4, <2>1, <2>2, SummaryKept DEF DeletePrevious, RefineInv
<1>6. CASE ~(Len(entries) < target)
  BY <1>3, <1>4, <1>6, DownInv DEF DeletePrevious
<1>. QED
  BY <1>5, <1>6

LEMMA StutterInv ==
    ASSUME RefineInv, UNCHANGED vars
    PROVE  RefineInv'
BY DEF RefineInv, TypeOK, FilesAgree, MemoryMirrorsDisk, Iterating, Known, LastOf, FeedbackOf, vars, disk

LEMMA NextInv == RefineInv /\ [Next]_vars => RefineInv'
<1>. SUFFICES ASSUME RefineInv, [Next]_vars PROVE RefineInv'
  OBVIOUS
<1>1. ASSUME NEW n \in Lengths, Load(n) PROVE RefineInv'
  BY <1>1, LoadInv
<1>2. ASSUME NEW n \in Lengths, LoadNothingToDo(n) PROVE RefineInv'
  BY <1>2, LoadNothingToDoInv
<1>3. ASSUME NEW empty \in BOOLEAN, Answer(empty) PROVE RefineInv'
  BY <1>3, AnswerInv
<1>. QED
  BY <1>1, <1>2, <1>3, OverflowInv, JudgeInv, SaveConversationInv, SaveSummaryInv,
     DeletePreviousInv, CrashInv, StutterInv DEF Next

-----------------------------------------------------------------------------
(* The theorems.                                                           *)

(* The memory of a run mirrors the files it started from or has written, in *)
(* every state run_self_refinement and its crashes can reach.               *)
THEOREM SelfRefineInvariant == Spec => []RefineInv
<1>1. Init => RefineInv
  BY InitInv
<1>2. RefineInv /\ [Next]_vars => RefineInv'
  BY NextInv
<1>. QED
  BY <1>1, <1>2, PTL DEF Spec

(* Wherever a run is cut short, the summary, the last conversation and the *)
(* public results on disk belong together, so that the next run resumes.   *)
THEOREM SelfRefineFilesAgree == Spec => []FilesAgree
<1>1. RefineInv => FilesAgree
  BY DEF RefineInv
<1>. QED
  BY <1>1, SelfRefineInvariant, PTL

(* Over all runs the summary is one chain of links. *)
THEOREM SelfRefineImplementsLog == Spec => ImplementsLog
<1>1. Init => Chain!Init
  BY DEF Init, Known, Chain!Init
<1>2. RefineInv /\ [Next]_vars => [Chain!Next]_Known
  <2>. SUFFICES ASSUME RefineInv, [Next]_vars PROVE Known' = Known \/ Chain!Next
    OBVIOUS
  <2>1. CASE SaveSummary
    <3>1. /\ Known' = Append(Known, reply)
          /\ Known \in Seq(Entry)
          /\ Len(Known) \in Nat \ {0}
          /\ reply \in Entry
          /\ ~LastOf(Known).overflow
          /\ reply.history = LastOf(Known).gen
          /\ reply.feedback = FeedbackOf(LastOf(Known))
      BY <2>1, SaveSummaryFacts
    <3>2. /\ Len(Known') = Len(Known) + 1
          /\ SubSeq(Known', 1, Len(Known)) = Known
          /\ Known'[Len(Known')] = reply
      BY <3>1, AppendFacts DEF LastOf
    <3>. QED
      BY <3>1, <3>2 DEF Chain!Next, Chain!Extend, Chain!Last, Chain!FeedbackOf, LastOf, FeedbackOf
  <2>2. CASE \E n \in Lengths : LoadNothingToDo(n)
    BY <2>2, KnownFacts DEF LoadNothingToDo, Known, RefineInv, TypeOK
  <2>3. CASE UNCHANGED summary
    BY <2>3 DEF Known
  <2>. QED
    BY <2>1, <2>2, <2>3
    DEF Next, vars, disk, Load, Answer, Overflow, Judge, SaveConversation, DeletePrevious, Crash
<1>. QED
  BY <1>1, <1>2, SelfRefineInvariant, PTL DEF Spec, ImplementsLog, Chain!Spec
=============================================================================
