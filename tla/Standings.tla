------------------------------ MODULE Standings ------------------------------
(***************************************************************************)
(* Where a private evaluation places in the contest it replays             *)
(* (ale_bench/data.py, Session.estimate_rank_and_performance): the         *)
(* relative scores recalculated with the new participant, the rank in the  *)
(* standings, and the performance looked up in the map of rank to          *)
(* performance, by a binary search and an interpolation.                   *)
(*                                                                         *)
(* Ranks for the performance are multiples of 1/2, kept here doubled.      *)
(* What the code computes in floating point is exact here.                 *)
(***************************************************************************)
EXTENDS Integers, Sequences, FiniteSets

CONSTANTS
    Contests,       \* the problems: see Contest below
    CaseScores,     \* the values of absolute_score of an accepted case
    MaxScore        \* relative_max_score

VARIABLES
    contest,        \* the problem, loaded
    pc,             \* where the call stands; "idle": none is made
    sub,            \* the private result: its cases' scores
    done,           \* how many cases are recalculated
    own,            \* the sum of new_relative_case_scores
    totals,         \* new_overall_relative_scores_existing
    rank,           \* new_rank
    perfRank,       \* twice the rank the performance is asked for
    keys,           \* sorted_keys
    lose, win,      \* bounds of the binary search: 0-based, as in the code
    performance,    \* new_performance
    before          \* the private result placed before this one, and its place

search == <<keys, lose, win>>
vars == <<contest, pc, sub, done, own, totals, rank, perfRank, search,
          performance, before>>

\* A case that is not accepted, and one of a verdict that makes the whole result
\* count for nothing (CE and IE).
Rejected == -1
Uncounted == -2
Verdicts == CaseScores \cup {Rejected, Uncounted}

Kinds == {"absolute", "min", "max", "rank_min", "rank_max"}

Placed == [sub : Seq(Verdicts), rank : Int, performance : Int]
NotYet == [sub |-> <<>>, rank |-> 0, performance |-> 0]

-----------------------------------------------------------------------------
(* A contest: its kind, allow_score_non_ac, standings_scores (rank,        *)
(* score), the raw data of the map (rank, performance), and the cases of   *)
(* relative_results, each with the absolute scores of all participants.    *)

Rank(row) == row[1]
Score(row) == row[2]
Perf(row) == row[2]

\* The validators: validate_data, validate_raw_data (with the ties that model_post_init
\* refuses), validate_absolute_scores.  The code compares each row with the next, which
\* comes to comparing it with all that follow.
ValidStandings(s) ==
    /\ \A i, j \in 1..Len(s) :
          i < j => Rank(s[i]) <= Rank(s[j]) /\ Score(s[i]) >= Score(s[j]) /\ Score(s[i]) > 0
    /\ Score(s[Len(s)]) = 0

ValidRawData(raw) ==
    /\ Len(raw) > 1
    /\ \A i, j \in 1..Len(raw) :
          i < j => /\ Rank(raw[i]) <= Rank(raw[j])
                   /\ Perf(raw[i]) >= Perf(raw[j])
                   /\ Rank(raw[i]) = Rank(raw[j]) => Perf(raw[i]) = Perf(raw[j])

ValidCases(cases) ==
    \A c, d \in 1..Len(cases) : Len(cases[c]) > 0 /\ Len(cases[c]) = Len(cases[d])

\* What the validators let through.  load_problem pairs the tables as it finds them, in
\* the lite version those of fewer cases with the performances of the whole contest:
\* nothing compares their rows, their ranks or their participants.
Contest(c) ==
    /\ c.kind \in Kinds
    /\ c.partial \in BOOLEAN
    /\ c.standings \in Seq(Int \X Nat) \ {<<>>}
    /\ c.raw \in Seq(Int \X Int)
    /\ c.cases \in Seq(Seq(CaseScores \cup {Rejected}))
    /\ ValidStandings(c.standings)
    /\ ValidRawData(c.raw)
    /\ c.kind # "absolute" => c.cases # <<>> /\ ValidCases(c.cases)

ASSUME StandingsAssumption ==
    /\ CaseScores \subseteq Nat
    /\ MaxScore \in Nat \ {0}
    /\ \A c \in Contests : Contest(c)

\* Bound: the cases of a contest of absolute scores, whose sum alone counts.
AbsoluteCases == 2

NumCases == IF contest.kind = "absolute" THEN AbsoluteCases ELSE Len(contest.cases)
Participants == IF contest.kind = "absolute" THEN {} ELSE 1..Len(contest.cases[1])
LastRank == Rank(contest.standings[Len(contest.standings)])

\* score_rank_list: a score, and the ranks from that of its first row, i, to the one
\* before the row that follows its last, j.
Groups(s) ==
    {g \in (1..Len(s)) \X (1..Len(s)) :
        LET i == g[1]
            j == g[2]
        IN  /\ Score(s[i]) = Score(s[j])
            /\ \A h \in 1..Len(s) : Score(s[h]) = Score(s[i]) => i <= h /\ h <= j}
ScoreRankList ==
    LET s == contest.standings
    IN  {[score |-> Score(s[g[1]]),
          start |-> Rank(s[g[1]]),
          end |-> IF g[2] = Len(s) THEN Rank(s[g[2]]) ELSE Rank(s[g[2] + 1]) - 1] :
            g \in Groups(s)}

\* Mutant: the last row, score 0, is not added.
KeyRows_NoLast == {i \in 1..(Len(contest.raw) - 1) :
                      Rank(contest.raw[i]) # Rank(contest.raw[i + 1])}

\* RankPerformanceMap.data: tied ranks share one entry, at twice their average, made by
\* the last row that has the rank.
KeyRows == {i \in 1..Len(contest.raw) :
               i < Len(contest.raw) => Rank(contest.raw[i]) # Rank(contest.raw[i + 1])}
KeyOf(i) ==
    IF i = Len(contest.raw) THEN 2 * Rank(contest.raw[i])
    ELSE Rank(contest.raw[i]) + Rank(contest.raw[i + 1]) - 1
Keys == {KeyOf(i) : i \in KeyRows}
PerformanceAt(key) == Perf(contest.raw[CHOOSE i \in KeyRows : KeyOf(i) = key])

\* What sorted() returns, for a set of numbers.
SortedOf(S) ==
    {s \in [1..Cardinality(S) -> S] :
        /\ \A i, j \in 1..Cardinality(S) : i < j => s[i] < s[j]
        /\ \A a \in S : \E i \in 1..Cardinality(S) : s[i] = a}

-----------------------------------------------------------------------------
(* Relative scores.                                                        *)

\* round(n / d): half to even.
Round(n, d) ==
    LET q == n \div d
        r == 2 * (n % d)
    IN  IF r > d \/ (r = d /\ q % 2 = 1) THEN q + 1 ELSE q

\* n / d with a half rounded up.
RoundUp(n, d) == IF 2 * (n % d) >= d THEN n \div d + 1 ELSE n \div d

LessIsBetter == contest.kind \in {"min", "rank_min"}
Better(a, b) == IF LessIsBetter THEN a < b ELSE a > b

\* Mutant: a rejected case is passed on as 0, as it is for absolute scores.
NewScore_Zero(k) == IF sub[k] < 0 THEN 0 ELSE sub[k]

\* The score of the new participant in a case, as get_new_rank passes it on.
NewScore(k) == IF sub[k] < 0 THEN Rejected ELSE sub[k]

\* The scores of a case; the new participant comes last.
CaseOf(k) == Append(contest.cases[k], NewScore(k))
Accepted(s) == {s[u] : u \in {v \in 1..Len(s) : s[v] >= 0}}

\* best_score; None is Rejected.
BestScores(s) ==
    IF Accepted(s) = {} THEN {Rejected}
    ELSE {a \in Accepted(s) : \A b \in Accepted(s) : ~Better(b, a)}

\* By rank: a participant loses to the better ones, and by half to the tied ones.
RankScore(s, a) ==
    LET n_lose == Cardinality({v \in 1..Len(s) : s[v] >= 0 /\ Better(s[v], a)})
        n_tie == Cardinality({v \in 1..Len(s) : s[v] = a}) - 1
    IN  Round(MaxScore * (2 * (Len(s) - n_lose) - n_tie), 2 * Len(s))

\* The relative score of absolute score a among the scores s of a case.
RelativeScore(s, best, a) ==
    IF a < 0 THEN 0
    ELSE CASE contest.kind = "max" -> RoundUp(MaxScore * a, best)
           [] contest.kind = "min" -> RoundUp(MaxScore * best, a)
           [] OTHER -> RankScore(s, a)

\* A score of 0 is refused where less is better; where more is better, the case is
\* divided by its best score.
CaseRaises(s) ==
    \/ contest.kind = "min" /\ 0 \in Accepted(s)
    \/ contest.kind = "max" /\ Accepted(s) = {0}

-----------------------------------------------------------------------------
TypeOK ==
    /\ contest \in Contests
    /\ pc \in {"idle", "cases", "rank", "look", "search", "placed", "raised"}
    /\ sub \in Seq(Verdicts)
    /\ done \in 0..Len(sub)
    /\ own \in Nat
    /\ totals \in [Participants -> Nat]
    /\ rank \in Int
    /\ perfRank \in Int
    /\ keys \in Seq(Int)
    /\ lose \in -1..Len(keys)
    /\ win \in 0..Len(keys)
    /\ performance \in Int
    /\ before \in Placed \cup {NotYet}

Init ==
    /\ contest \in Contests
    /\ pc = "idle"
    /\ sub = <<>>
    /\ done = 0
    /\ own = 0
    /\ totals = [p \in Participants |-> 0]
    /\ rank = 0
    /\ perfRank = 0
    /\ keys = <<>>
    /\ lose = 0
    /\ win = 0
    /\ performance = 0
    /\ before = NotYet

\* get_new_rank is called with the result of a private evaluation.
Submit(s) ==
    /\ pc = "idle"
    /\ sub' = s
    /\ pc' = IF contest.kind = "absolute" THEN "rank" ELSE "cases"
    /\ UNCHANGED <<contest, done, own, totals, rank, perfRank, search, performance, before>>

\* One round of the loop of recalculate_relative_score.
Recalculate ==
    /\ pc = "cases"
    /\ done < NumCases
    /\ LET s == CaseOf(done + 1)
       IN  /\ ~CaseRaises(s)
           /\ \E best \in BestScores(s) :
                 /\ own' = own + RelativeScore(s, best, NewScore(done + 1))
                 /\ totals' = [p \in Participants |->
                                 totals[p] + RelativeScore(s, best, s[p])]
    /\ done' = done + 1
    /\ UNCHANGED <<contest, pc, sub, rank, perfRank, search, performance, before>>

RecalculateRaises ==
    /\ pc = "cases"
    /\ done < NumCases
    /\ CaseRaises(CaseOf(done + 1))
    /\ pc' = "raised"
    /\ UNCHANGED <<contest, sub, done, own, totals, rank, perfRank, search,
                   performance, before>>

\* The end of get_new_rank: the rank, and (doubled) the one for the performance.
Ranked(r, double) ==
    /\ rank' = r
    /\ perfRank' = double
    /\ pc' = "look"
    /\ UNCHANGED <<contest, sub, done, own, totals, search, performance, before>>

\* The new participant is counted half, and so is each participant tied with it; the
\* two halves that are its own place are taken off again.
RankRelative ==
    LET better == Cardinality({p \in Participants : totals[p] > own})
        tied == Cardinality({p \in Participants : totals[p] = own})
    IN  /\ pc = "cases"
        /\ done = NumCases
        /\ own # 0
        /\ Ranked(better + 1, 2 * (better + 1) + (IF tied = 0 THEN 0 ELSE tied - 1))

\* overall_absolute_score
AbsoluteScore ==
    LET accepted == {k \in 1..AbsoluteCases : sub[k] >= 0}
        counted(k) == IF k \in accepted THEN sub[k] ELSE 0
    IN  IF \/ \E k \in 1..AbsoluteCases : sub[k] = Uncounted
           \/ ~contest.partial /\ accepted # 1..AbsoluteCases
        THEN 0 ELSE counted(1) + counted(2)

\* The lowest score, absolute or relative: the last row.
RankLowest ==
    /\ \/ pc = "rank" /\ AbsoluteScore = 0
       \/ pc = "cases" /\ done = NumCases /\ own = 0
    /\ Ranked(LastRank, 2 * LastRank)

\* The first entry that the new score reaches.
Reached == {e \in ScoreRankList : e.score <= AbsoluteScore}
Found == {e \in Reached : \A f \in Reached : f.score <= e.score}

\* Mutant: a tied score takes the last rank of the tie.
RankAbsolute_EndOfTie ==
    /\ pc = "rank"
    /\ AbsoluteScore # 0
    /\ \E e \in Found :
          Ranked(e.start, IF e.score = AbsoluteScore THEN 2 * e.end ELSE 2 * e.start)

\* A tied score takes the average of its ranks.
RankAbsolute ==
    /\ pc = "rank"
    /\ AbsoluteScore # 0
    /\ \E e \in Found :
          Ranked(e.start, IF e.score = AbsoluteScore THEN e.start + e.end ELSE 2 * e.start)

-----------------------------------------------------------------------------
(* RankPerformanceMap.get_performance.                                     *)

\* The rank is one of the map.
LookUp ==
    /\ pc = "look"
    /\ perfRank \in Keys
    /\ performance' = PerformanceAt(perfRank)
    /\ pc' = "placed"
    /\ UNCHANGED <<contest, sub, done, own, totals, rank, perfRank, search, before>>

BeginSearch ==
    /\ pc = "look"
    /\ perfRank \notin Keys
    /\ keys' \in SortedOf(Keys)
    /\ lose' = -1
    /\ win' = Cardinality(Keys)
    /\ pc' = "search"
    /\ UNCHANGED <<contest, sub, done, own, totals, rank, perfRank, performance, before>>

Key(i) == keys[i + 1]
Mid == (lose + win) \div 2

Narrow ==
    /\ pc = "search"
    /\ win - lose > 1
    /\ \/ perfRank < Key(Mid) /\ win' = Mid /\ UNCHANGED lose
       \/ perfRank >= Key(Mid) /\ lose' = Mid /\ UNCHANGED win
    /\ UNCHANGED <<contest, pc, sub, done, own, totals, rank, perfRank, keys,
                   performance, before>>

\* A rank above the first key is extrapolated from the first two.
Low == IF win = 0 THEN 1 ELSE win

\* Mutant: the two entries are exchanged.
Interpolated_Exchanged ==
    LET high == Key(Low - 1)
        low == Key(Low)
        drop == PerformanceAt(high) - PerformanceAt(low)
    IN  Round(PerformanceAt(low) * (low - high) + drop * (perfRank - high), low - high)

Interpolated ==
    LET high == Key(Low - 1)
        low == Key(Low)
        drop == PerformanceAt(high) - PerformanceAt(low)
    IN  Round(PerformanceAt(high) * (low - high) - drop * (perfRank - high), low - high)

\* A rank below the last one, or a map of one entry, has nothing to interpolate
\* between (RuntimeError, IndexError).
Interpolate ==
    /\ pc = "search"
    /\ win - lose <= 1
    /\ IF Low < Len(keys)
       THEN pc' = "placed" /\ performance' = Interpolated
       ELSE pc' = "raised" /\ UNCHANGED performance
    /\ UNCHANGED <<contest, sub, done, own, totals, rank, perfRank, search, before>>

\* The next private result: the standings are frozen, and nothing is kept.
Again ==
    /\ pc \in {"placed", "raised"}
    /\ before' = IF pc = "placed"
                 THEN [sub |-> sub, rank |-> rank, performance |-> performance]
                 ELSE before
    /\ pc' = "idle"
    /\ sub' = <<>>
    /\ done' = 0
    /\ own' = 0
    /\ totals' = [p \in Participants |-> 0]
    /\ rank' = 0
    /\ perfRank' = 0
    /\ keys' = <<>>
    /\ lose' = 0
    /\ win' = 0
    /\ performance' = 0
    /\ UNCHANGED contest

Next ==
    \/ \E s \in [1..NumCases -> Verdicts] : Submit(s)
    \/ Recalculate
    \/ RecalculateRaises
    \/ RankRelative
    \/ RankLowest
    \/ RankAbsolute
    \/ LookUp
    \/ BeginSearch
    \/ Narrow
    \/ Interpolate
    \/ Again

Spec == Init /\ [][Next]_vars

-----------------------------------------------------------------------------
(* Properties.                                                             *)

\* Verdict a of a case is at least as good as b.
NoWorse(a, b) ==
    \/ b = Uncounted
    \/ b = Rejected /\ a # Uncounted
    \/ a >= 0 /\ b >= 0 /\ (IF LessIsBetter THEN a <= b ELSE a >= b)

\* The participants with a case accepted.
Scoring == {p \in Participants : \E k \in 1..NumCases : contest.cases[k][p] # Rejected}

\* What is asked of the standings for a place in them to mean something, and nothing
\* checks: those of one rank have one score (one score may have several ranks); fewer
\* than the last rank, the one for score 0, have a relative result that counts.
Consistent ==
    IF contest.kind = "absolute"
    THEN \A i, j \in 1..Len(contest.standings) :
             Rank(contest.standings[i]) = Rank(contest.standings[j]) =>
                 Score(contest.standings[i]) = Score(contest.standings[j])
    ELSE Cardinality(Scoring) < LastRank

\* A result that is at least as good in every case is placed at least as high, in the
\* standings and in performance, although every result recalculates the relative scores
\* of all participants, its ties move it by half ranks, and the performance is rounded,
\* whatever table of performances the standings are paired with (get_new_rank,
\* get_performance).
BetterNeverPlacedWorse ==
    pc = "placed" /\ before # NotYet /\ Consistent =>
        /\ (\A k \in 1..NumCases : NoWorse(sub[k], before.sub[k])) =>
              rank <= before.rank /\ performance >= before.performance
        /\ (\A k \in 1..NumCases : NoWorse(before.sub[k], sub[k])) =>
              rank >= before.rank /\ performance <= before.performance

\* The performance is that of the rank in the map: none of a higher entry is below it
\* and none of a lower one above it, the extrapolated and the rounded ones included.
InTable ==
    \A key \in Keys :
        /\ key <= perfRank => PerformanceAt(key) >= performance
        /\ key >= perfRank => PerformanceAt(key) <= performance

\* Both ranks are behind every higher score, and not behind a lower one.
InStandings ==
    \A i \in 1..Len(contest.standings) :
        LET row == contest.standings[i]
        IN  /\ Score(row) > AbsoluteScore => Rank(row) < rank /\ 2 * Rank(row) < perfRank
            /\ Score(row) = AbsoluteScore => rank <= Rank(row)
            /\ Score(row) < AbsoluteScore => rank <= Rank(row) /\ perfRank <= 2 * Rank(row)

\* Both tables have the same rows of ranks, as those of one contest have.
SameRanks ==
    /\ Len(contest.standings) = Len(contest.raw)
    /\ \A i \in 1..Len(contest.raw) : Rank(contest.standings[i]) = Rank(contest.raw[i])

\* The participants' own performances: not above those with a higher score, nor below
\* those with a lower; with a score of the standings, that of the participants who have
\* it, or between theirs where one score has several ranks.
AmongPeers ==
    \A i \in 1..Len(contest.raw) :
        LET score == Score(contest.standings[i])
            peers == {Perf(contest.raw[j]) : j \in
                         {h \in 1..Len(contest.raw) : Score(contest.standings[h]) = score}}
        IN  /\ score > AbsoluteScore => Perf(contest.raw[i]) >= performance
            /\ score < AbsoluteScore => Perf(contest.raw[i]) <= performance
            /\ score = AbsoluteScore => \E p, q \in peers : p <= performance /\ performance <= q

\* A placement is between its neighbours in each table: in the map of performances,
\* whatever standings it is paired with; in the standings, where scores are absolute;
\* and, where both have the same ranks, among those with its own score ("If new rank
\* is in the standings, return the same performance").
PlacedBetweenNeighbours ==
    pc = "placed" =>
        /\ InTable
        /\ contest.kind = "absolute" /\ Consistent =>
              InStandings /\ (SameRanks => AmongPeers)

\* The recalculated scores of a case keep its order, and their sums with it: a
\* participant at least as good as the new one in all cases so far is not behind it,
\* and nobody has more than the full score of each case.
RecalculationKeepsOrder ==
    contest.kind # "absolute" =>
        /\ \A p \in Participants :
              /\ (\A k \in 1..done : NoWorse(contest.cases[k][p], sub[k])) => totals[p] >= own
              /\ (\A k \in 1..done : NoWorse(sub[k], contest.cases[k][p])) => totals[p] <= own
              /\ totals[p] <= done * MaxScore
        /\ own <= done * MaxScore

\* A placement raises for a score of 0: one where less is better, or a case in which
\* nobody has more.  Otherwise it reaches the "Something went wrong" of the search, or an
\* index out of range, and only where the table of performances cannot answer: it knows
\* one rank alone, or the standings end on a lower rank than it does.
RaisesOnlyWhereUndefined ==
    LET lowest == Rank(contest.raw[Len(contest.raw)])
    IN  pc = "raised" =>
            \/ \E k \in 1..NumCases :
                   \/ contest.kind = "min" /\ 0 \in Accepted(CaseOf(k))
                   \/ contest.kind = "max" /\ \A u \in 1..Len(CaseOf(k)) : CaseOf(k)[u] <= 0
            \/ /\ perfRank \notin Keys
               /\ \/ Rank(contest.raw[1]) = lowest
                  \/ perfRank > 2 * lowest /\ (Consistent => LastRank > lowest)

-----------------------------------------------------------------------------
(* The inductive invariant.                                                *)

Submitted ==
    /\ pc = "idle" => done = 0
    /\ pc \in {"cases", "rank"} => sub \in [1..NumCases -> Verdicts]
    /\ pc = "cases" => contest.kind # "absolute" /\ done <= NumCases
    /\ pc = "rank" => contest.kind = "absolute"

\* Nobody is given anything for a case that is not accepted.
Earned == \A p \in Participants : totals[p] > 0 => p \in Scoring

\* No place is below that of score 0.
AboveTheLast == pc \in {"look", "search", "placed"} /\ Consistent => perfRank <= 2 * LastRank

\* The rank is between the two bounds of the search, and none of the keys.
Bracketed ==
    pc = "search" =>
        /\ keys \in SortedOf(Keys)
        /\ perfRank \notin Keys
        /\ lose < win
        /\ lose >= 0 => Key(lose) <= perfRank
        /\ win < Len(keys) => perfRank < Key(win)

\* The search of get_performance keeps the rank between its bounds, and the rank it is
\* asked for is not below that of score 0: its errors are left to the tables.
StandingsInv ==
    /\ TypeOK
    /\ Submitted
    /\ Earned
    /\ AboveTheLast
    /\ Bracketed
    /\ RaisesOnlyWhereUndefined

=============================================================================
