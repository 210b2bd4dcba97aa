--------------------------- MODULE StandingsProofs ---------------------------
(***************************************************************************)
(* Proofs about Standings: its inductive invariant; that a placement       *)
(* raises only for scores of 0, or where the table of performances cannot  *)
(* answer; that the recalculation keeps the order of the results; and that *)
(* every placement is that of its own verdicts, in order with those of     *)
(* other results, with the standings and with the table.                   *)
(***************************************************************************)
EXTENDS Standings, FiniteSetTheorems, SequenceTheorems, WellFoundedInduction, TLAPS

USE DEF search

-----------------------------------------------------------------------------
(* The rounding and the counting of the relative scores.                   *)

\* Both ways of rounding a non-negative fraction give a natural number.
LEMMA RoundType ==
    ASSUME NEW n \in Nat, NEW d \in Nat \ {0}
    PROVE  Round(n, d) \in Nat /\ RoundUp(n, d) \in Nat
  <1>1. n \div d \in Nat
    OBVIOUS
  <1>2. QED
    BY <1>1 DEF Round, RoundUp

\* Two disjoint sets of positions count no more together than there are positions.
LEMMA DisjointCount ==
    ASSUME NEW n \in Nat, NEW A \in SUBSET (1..n), NEW B \in SUBSET (1..n), A \cap B = {}
    PROVE  /\ Cardinality(A) \in Nat
           /\ Cardinality(B) \in Nat
           /\ Cardinality(A) + Cardinality(B) <= n
  <1>1. IsFiniteSet(1..n) /\ Cardinality(1..n) = n
    BY FS_Interval
  <1>2. IsFiniteSet(A) /\ IsFiniteSet(B) /\ A \cup B \in SUBSET (1..n)
    BY <1>1, FS_Subset
  <1>3. Cardinality(A \cup B) <= n
    BY <1>1, <1>2, FS_Subset
  <1>4. Cardinality(A \cup B) = Cardinality(A) + Cardinality(B) - 0
    BY <1>2, FS_Union, FS_EmptySet
  <1>5. Cardinality(A) \in Nat /\ Cardinality(B) \in Nat
    BY <1>2, FS_CardinalityType
  <1>6. QED
    BY <1>3, <1>4, <1>5

\* A score by rank is a natural number, for every score of the case.
LEMMA RankScoreType ==
    ASSUME NEW s \in Seq(Int), NEW u \in 1..Len(s), s[u] >= 0
    PROVE  RankScore(s, s[u]) \in Nat
  <1> DEFINE L == {v \in 1..Len(s) : s[v] >= 0 /\ Better(s[v], s[u])}
             T == {v \in 1..Len(s) : s[v] = s[u]}
             numerator == MaxScore * (2 * (Len(s) - Cardinality(L)) - (Cardinality(T) - 1))
  <1>1. L \cap T = {}
    BY DEF Better
  <1>0. /\ L \in SUBSET (1..Len(s))
        /\ T \in SUBSET (1..Len(s))
        /\ Len(s) \in Nat
    OBVIOUS
  <1> HIDE DEF L, T
  <1>2. /\ Cardinality(L) \in Nat
        /\ Cardinality(T) \in Nat
        /\ Cardinality(L) + Cardinality(T) <= Len(s)
    BY <1>0, <1>1, DisjointCount
  <1>3. 2 * (Len(s) - Cardinality(L)) - (Cardinality(T) - 1) \in Nat
    BY <1>0, <1>2
  <1>4. MaxScore \in Nat
    BY StandingsAssumption
  <1>5. numerator \in Nat
    BY <1>3, <1>4
  <1>6. 2 * Len(s) \in Nat \ {0}
    OBVIOUS
  <1> HIDE DEF numerator
  <1>7. Round(numerator, 2 * Len(s)) \in Nat
    BY <1>5, <1>6, RoundType
  <1>8. QED
    BY <1>7 DEF RankScore, numerator, L, T

\* Every set of natural numbers has a least one.
LEMMA LeastNumber ==
    ASSUME NEW S \in SUBSET Nat, S # {}
    PROVE  \E x \in S : \A y \in S : x <= y
<1>. DEFINE R == {p \in Nat \X Nat : p[1] < p[2]}
<1>1. IsWellFoundedOn(R, Nat)
  BY NatLessThanWellFounded DEF OpToRel
<1>2. PICK x \in S : \A y \in S : ~ (<<y, x>> \in R)
  <2>. HIDE DEF R
  <2>. QED
    BY <1>1, WFMin
<1>3. ASSUME NEW y \in S
      PROVE  x <= y
  <2>1. <<y, x>> \in R <=> y < x
    OBVIOUS
  <2>. QED
    BY <1>2, <2>1
<1>. QED
  BY <1>3

\* Every set of rows has a last one.
LEMMA LastOf ==
    ASSUME NEW n \in Nat, NEW S \in SUBSET (1..n), S # {}
    PROVE  \E x \in S : \A y \in S : y <= x
<1>. DEFINE D == {n - y : y \in S}
<1>1. D \in SUBSET Nat /\ D # {}
  <2>1. \A y \in S : n - y \in Nat
    OBVIOUS
  <2>. QED
    BY <2>1
<1>2. PICK d \in D : \A e \in D : d <= e
  <2>. HIDE DEF D
  <2>. QED
    BY <1>1, LeastNumber
<1>3. PICK x \in S : d = n - x
  OBVIOUS
<1>4. ASSUME NEW y \in S
      PROVE  y <= x
  <2>1. n - y \in D
    OBVIOUS
  <2>2. n - x <= n - y
    BY <1>2, <1>3, <2>1
  <2>. QED
    BY <2>2
<1>. QED
  BY <1>4

-----------------------------------------------------------------------------
(* What the validators guarantee of a contest, and what they do not: the   *)
(* standings have their own number of rows, the table of performances its  *)
(* own.                                                                    *)

\* Rows of the table of performances,
LastRow == Len(contest.raw)
Rows == 1..LastRow
RowRank(i) == Rank(contest.raw[i])
RowPerf(i) == Perf(contest.raw[i])

\* places in the standings,
LastPlace == Len(contest.standings)
Places == 1..LastPlace
PlaceRank(i) == Rank(contest.standings[i])
PlaceScore(i) == Score(contest.standings[i])

\* and the new participant, who comes last in every case.
Self == Len(contest.cases[1]) + 1

\* The performances are in order, of rank and of performance.
LEMMA RowsFacts ==
    ASSUME contest \in Contests
    PROVE  /\ LastRow \in Nat /\ LastRow > 1
           /\ \A i \in Rows : /\ i \in Nat /\ i >= 1 /\ i <= LastRow
                              /\ RowRank(i) \in Int /\ RowPerf(i) \in Int
                              /\ RowRank(i) <= RowRank(LastRow)
           /\ \A i, j \in Rows : i <= j => RowRank(i) <= RowRank(j) /\ RowPerf(i) >= RowPerf(j)
           /\ \A i, j \in Rows : RowRank(i) = RowRank(j) => RowPerf(i) = RowPerf(j)
           /\ \A i \in Nat : i \in Rows <=> 1 <= i /\ i <= LastRow
           /\ 1 \in Rows /\ LastRow \in Rows
  <1> DEFINE n == Len(contest.raw)
  <1>1. Contest(contest)
    BY StandingsAssumption
  <1>2. contest.raw \in Seq(Int \X Int) /\ ValidRawData(contest.raw)
    BY <1>1 DEF Contest
  <1>3. n \in Nat /\ n > 1
    BY <1>2 DEF ValidRawData
  <1>4. \A i \in 1..n : Rank(contest.raw[i]) \in Int /\ Perf(contest.raw[i]) \in Int
    <2>1. \A i \in 1..n : contest.raw[i] \in Int \X Int
      BY <1>2, ElementOfSeq
    <2>2. QED
      BY <2>1 DEF Rank, Perf
  <1>5. \A i, j \in 1..n :
           i < j => /\ Rank(contest.raw[i]) <= Rank(contest.raw[j])
                    /\ Perf(contest.raw[i]) >= Perf(contest.raw[j])
                    /\ Rank(contest.raw[i]) = Rank(contest.raw[j]) =>
                          Perf(contest.raw[i]) = Perf(contest.raw[j])
    BY <1>2 DEF ValidRawData
  <1> HIDE DEF n
  <1>6. \A i \in 1..n : i \in Nat /\ i >= 1 /\ i <= n
    BY <1>3
  <1>7. \A i, j \in 1..n : i < j \/ j < i \/ i = j
    BY <1>3
  <1>8. ASSUME NEW i \in 1..n, NEW j \in 1..n, i <= j
        PROVE  /\ Rank(contest.raw[i]) <= Rank(contest.raw[j])
               /\ Perf(contest.raw[i]) >= Perf(contest.raw[j])
    <2>1. CASE i = j
      <3>1. Rank(contest.raw[i]) \in Int /\ Perf(contest.raw[i]) \in Int
        BY <1>4
      <3>2. QED
        BY <2>1, <3>1
    <2>2. CASE i # j
      <3>1. i < j
        BY <1>6, <1>8, <2>2
      <3>2. QED
        BY <1>5, <3>1
    <2>3. QED
      BY <2>1, <2>2
  <1>9. \A i, j \in 1..n :
           Rank(contest.raw[i]) = Rank(contest.raw[j]) => Perf(contest.raw[i]) = Perf(contest.raw[j])
    BY <1>5, <1>7
  <1>10. n \in 1..n /\ 1 \in 1..n /\ \A i \in 1..n : Rank(contest.raw[i]) <= Rank(contest.raw[n])
    BY <1>3, <1>6, <1>8
  <1>11. \A i \in Nat : i \in 1..n <=> 1 <= i /\ i <= n
    BY <1>3
  <1>12. QED
    BY <1>3, <1>4, <1>6, <1>8, <1>9, <1>10, <1>11 DEF n, LastRow, Rows, RowRank, RowPerf

\* The standings are in order, of rank and of score, and end with score 0.
LEMMA PlacesFacts ==
    ASSUME contest \in Contests
    PROVE  /\ LastPlace \in Nat /\ LastPlace \in Places /\ LastRank = PlaceRank(LastPlace)
           /\ LastRank \in Int /\ PlaceScore(LastPlace) = 0
           /\ \A i \in Places : /\ i \in Nat /\ i >= 1 /\ i <= LastPlace
                                /\ PlaceRank(i) \in Int /\ PlaceScore(i) \in Nat
                                /\ PlaceRank(i) <= LastRank
                                /\ i # LastPlace => PlaceScore(i) > 0
           /\ \A i, j \in Places :
                 i <= j => PlaceRank(i) <= PlaceRank(j) /\ PlaceScore(i) >= PlaceScore(j)
           /\ \A i \in Nat : i \in Places <=> 1 <= i /\ i <= LastPlace
  <1> DEFINE st == contest.standings
             n == Len(st)
  <1>1. Contest(contest)
    BY StandingsAssumption
  <1>2. st \in Seq(Int \X Nat) /\ st # <<>> /\ ValidStandings(st)
    BY <1>1 DEF Contest
  <1>3. n \in Nat /\ n >= 1
    BY <1>2
  <1>4. \A i \in 1..n : Rank(st[i]) \in Int /\ Score(st[i]) \in Nat
    <2>1. \A i \in 1..n : st[i] \in Int \X Nat
      BY <1>2, ElementOfSeq
    <2>2. QED
      BY <2>1 DEF Rank, Score
  <1>5. /\ \A i, j \in 1..n :
              i < j => Rank(st[i]) <= Rank(st[j]) /\ Score(st[i]) >= Score(st[j]) /\ Score(st[i]) > 0
        /\ Score(st[n]) = 0
    BY <1>2 DEF ValidStandings
  <1>6. LastRank = Rank(st[n])
    BY DEF LastRank
  <1> HIDE DEF n, st
  <1>7. /\ \A i \in 1..n : i \in Nat /\ i >= 1 /\ i <= n
        /\ n \in 1..n /\ \A i \in 1..n : i # n => i < n
    BY <1>3
  <1>8. ASSUME NEW i \in 1..n, NEW j \in 1..n, i <= j
        PROVE  Rank(st[i]) <= Rank(st[j]) /\ Score(st[i]) >= Score(st[j])
    <2>1. CASE i = j
      <3>1. Rank(st[i]) \in Int /\ Score(st[i]) \in Int
        BY <1>4
      <3>2. QED
        BY <2>1, <3>1
    <2>2. CASE i # j
      <3>1. i < j
        BY <1>7, <1>8, <2>2
      <3>2. QED
        BY <1>5, <3>1
    <2>3. QED
      BY <2>1, <2>2
  <1>9. \A i \in 1..n : i # n => Score(st[i]) > 0
    BY <1>5, <1>7
  <1>10. \A i \in Nat : i \in 1..n <=> 1 <= i /\ i <= n
    BY <1>3
  <1>11. \A i \in 1..n : Rank(st[i]) <= Rank(st[n])
    BY <1>7, <1>8
  <1>12. QED
    BY <1>3, <1>4, <1>5, <1>6, <1>7, <1>8, <1>9, <1>10, <1>11
       DEF n, st, LastPlace, Places, PlaceRank, PlaceScore

\* Every case has a score of each of the other participants.
LEMMA CasesFacts ==
    ASSUME contest \in Contests, contest.kind # "absolute"
    PROVE  /\ NumCases \in Nat
           /\ Self \in Nat /\ Self > 1 /\ Participants = 1..(Self - 1)
           /\ \A k \in 1..NumCases :
                 /\ contest.cases[k] \in Seq(CaseScores \cup {Rejected})
                 /\ Len(contest.cases[k]) = Self - 1
  <1>1. Contest(contest)
    BY StandingsAssumption
  <1>2. /\ contest.cases \in Seq(Seq(CaseScores \cup {Rejected}))
        /\ contest.cases # <<>> /\ ValidCases(contest.cases)
    BY <1>1 DEF Contest
  <1>3. NumCases = Len(contest.cases) /\ Len(contest.cases) \in Nat
    BY <1>2 DEF NumCases
  <1>4. 1 \in 1..NumCases
    BY <1>2, <1>3
  <1>5. \A k \in 1..NumCases :
           /\ contest.cases[k] \in Seq(CaseScores \cup {Rejected})
           /\ Len(contest.cases[k]) \in Nat /\ Len(contest.cases[k]) > 0
           /\ Len(contest.cases[k]) = Len(contest.cases[1])
    <2> TAKE k \in 1..NumCases
    <2>1. contest.cases[k] \in Seq(CaseScores \cup {Rejected})
      BY <1>2, <1>3, ElementOfSeq
    <2>2. Len(contest.cases[k]) \in Nat
      BY <2>1
    <2>3. Len(contest.cases[k]) > 0 /\ Len(contest.cases[k]) = Len(contest.cases[1])
      BY <1>2, <1>3, <1>4 DEF ValidCases
    <2>4. QED
      BY <2>1, <2>2, <2>3
  <1>6. Participants = 1..Len(contest.cases[1])
    BY DEF Participants
  <1> DEFINE n == Len(contest.cases[1])
  <1>7. n \in Nat /\ n > 0 /\ Self = n + 1
    BY <1>4, <1>5 DEF Self
  <1> HIDE DEF n
  <1>8. Self \in Nat /\ Self > 1 /\ Self - 1 = n
    BY <1>7
  <1>9. QED
    BY <1>3, <1>5, <1>6, <1>8 DEF n

\* The entries of the map, in order: that of a row is at twice its rank or more, and at
\* less than twice the rank of any row after it.
LEMMA KeyRowFacts ==
    ASSUME contest \in Contests
    PROVE  /\ \A h \in KeyRows : /\ h \in Rows /\ KeyOf(h) \in Int
                                 /\ 2 * RowRank(h) <= KeyOf(h)
                                 /\ KeyOf(h) <= 2 * RowRank(LastRow)
           /\ \A h \in KeyRows : \A j \in Rows : h < j => KeyOf(h) <= 2 * RowRank(j) - 2
           /\ LastRow \in KeyRows /\ KeyOf(LastRow) = 2 * RowRank(LastRow)
<1>1. /\ LastRow \in Nat /\ LastRow > 1 /\ LastRow \in Rows
      /\ \A i \in Rows : /\ i \in Nat /\ i >= 1 /\ i <= LastRow
                         /\ RowRank(i) \in Int /\ RowRank(i) <= RowRank(LastRow)
      /\ \A i, j \in Rows : i <= j => RowRank(i) <= RowRank(j)
      /\ \A i \in Nat : i \in Rows <=> 1 <= i /\ i <= LastRow
  BY RowsFacts
<1>2. \A h \in KeyRows : h \in Rows /\ (h < LastRow => RowRank(h) # RowRank(h + 1))
  BY DEF KeyRows, Rows, RowRank, LastRow
<1>3. LastRow \in KeyRows /\ KeyOf(LastRow) = 2 * RowRank(LastRow)
  BY <1>1 DEF KeyRows, KeyOf, Rows, RowRank, LastRow
<1>4. ASSUME NEW h \in KeyRows, h # LastRow
      PROVE  /\ h + 1 \in Rows /\ KeyOf(h) = RowRank(h) + RowRank(h + 1) - 1
             /\ RowRank(h) < RowRank(h + 1)
  <2>0. h \in Rows
    BY <1>2
  <2>1. h \in Nat /\ 1 <= h /\ h <= LastRow /\ LastRow \in Nat /\ h < LastRow
    BY <1>1, <1>4, <2>0
  <2>2. h + 1 \in Rows
    BY <1>1, <2>1
  <2>3. RowRank(h) <= RowRank(h + 1) /\ RowRank(h) # RowRank(h + 1)
    BY <1>1, <1>2, <2>0, <2>1, <2>2
  <2>4. KeyOf(h) = RowRank(h) + RowRank(h + 1) - 1
    BY <1>4 DEF KeyOf, RowRank, LastRow
  <2>5. RowRank(h) \in Int /\ RowRank(h + 1) \in Int
    BY <1>1, <2>0, <2>2
  <2>. QED
    BY <2>2, <2>3, <2>4, <2>5
<1>5. ASSUME NEW h \in KeyRows
      PROVE  /\ h \in Rows /\ KeyOf(h) \in Int
             /\ 2 * RowRank(h) <= KeyOf(h) /\ KeyOf(h) <= 2 * RowRank(LastRow)
  <2>1. CASE h = LastRow
    BY <1>1, <1>2, <1>3, <2>1
  <2>2. CASE h # LastRow
    <3>1. /\ h \in Rows /\ h + 1 \in Rows
          /\ KeyOf(h) = RowRank(h) + RowRank(h + 1) - 1
          /\ RowRank(h) < RowRank(h + 1)
      BY <1>2, <1>4, <2>2
    <3>2. /\ RowRank(h) \in Int /\ RowRank(h + 1) \in Int /\ RowRank(LastRow) \in Int
          /\ RowRank(h) <= RowRank(LastRow) /\ RowRank(h + 1) <= RowRank(LastRow)
      BY <1>1, <3>1
    <3>. QED
      BY <3>1, <3>2
  <2>. QED
    BY <2>1, <2>2
<1>6. ASSUME NEW h \in KeyRows, NEW j \in Rows, h < j
      PROVE  KeyOf(h) <= 2 * RowRank(j) - 2
  <2>1. h \in Nat /\ j \in Nat /\ j <= LastRow /\ h \in Rows
    BY <1>1, <1>2
  <2>2. h # LastRow /\ h + 1 <= j
    BY <1>1, <1>6, <2>1
  <2>3. /\ h + 1 \in Rows /\ KeyOf(h) = RowRank(h) + RowRank(h + 1) - 1
        /\ RowRank(h) < RowRank(h + 1)
    BY <1>4, <2>2
  <2>4. RowRank(h + 1) <= RowRank(j)
    BY <1>1, <2>2, <2>3
  <2>5. RowRank(h) \in Int /\ RowRank(h + 1) \in Int /\ RowRank(j) \in Int
    BY <1>1, <2>1, <2>3
  <2>. QED
    BY <2>3, <2>4, <2>5
<1>. QED
  BY <1>3, <1>5, <1>6

\* The map's keys: the last row makes the largest, and where there is more than one rank
\* another row makes a smaller one.
LEMMA KeysFacts ==
    ASSUME contest \in Contests
    PROVE  /\ Keys \in SUBSET Int
           /\ IsFiniteSet(Keys)
           /\ \A a \in Keys : a <= 2 * RowRank(LastRow) /\ PerformanceAt(a) \in Int
           /\ 2 * RowRank(LastRow) \in Keys
           /\ RowRank(1) # RowRank(LastRow) => \E a \in Keys : a < 2 * RowRank(LastRow)
<1>1. /\ LastRow \in Nat /\ 1 \in Rows /\ LastRow \in Rows
      /\ \A i \in Rows : /\ i \in Nat /\ i >= 1 /\ i <= LastRow
                         /\ RowRank(i) \in Int /\ RowPerf(i) \in Int
      /\ \A i \in Nat : i \in Rows <=> 1 <= i /\ i <= LastRow
  BY RowsFacts
<1>2. /\ \A h \in KeyRows : h \in Rows /\ KeyOf(h) \in Int /\ KeyOf(h) <= 2 * RowRank(LastRow)
      /\ \A h \in KeyRows : \A j \in Rows : h < j => KeyOf(h) <= 2 * RowRank(j) - 2
      /\ LastRow \in KeyRows /\ KeyOf(LastRow) = 2 * RowRank(LastRow)
  BY KeyRowFacts
<1>3. IsFiniteSet(Keys)
  <2>1. IsFiniteSet(Rows)
    BY <1>1, FS_Interval DEF Rows
  <2>2. KeyRows \subseteq Rows
    BY <1>2
  <2>3. IsFiniteSet(KeyRows)
    BY <2>1, <2>2, FS_Subset
  <2>. DEFINE f == [h \in KeyRows |-> KeyOf(h)]
  <2>4. f \in Surjection(KeyRows, Keys)
    BY DEF Keys, Surjection
  <2>. QED
    BY <2>3, <2>4, FS_Surjection
<1>4. ASSUME NEW a \in Keys
      PROVE  a \in Int /\ a <= 2 * RowRank(LastRow) /\ PerformanceAt(a) \in Int
  <2>1. \E i \in KeyRows : KeyOf(i) = a
    BY DEF Keys
  <2>2. (CHOOSE i \in KeyRows : KeyOf(i) = a) \in KeyRows
    BY <2>1
  <2>3. PerformanceAt(a) \in Int
    BY <1>1, <1>2, <2>2 DEF PerformanceAt, RowPerf
  <2>. QED
    BY <1>2, <2>1, <2>3
<1>5. ASSUME RowRank(1) # RowRank(LastRow)
      PROVE  \E a \in Keys : a < 2 * RowRank(LastRow)
  <2>. DEFINE S == {i \in Rows : RowRank(i) # RowRank(LastRow)}
  <2>1. S \in SUBSET (1..LastRow) /\ S # {}
    BY <1>1, <1>5 DEF Rows
  <2>2. PICK h \in S : \A y \in S : y <= h
    <3>. HIDE DEF S
    <3>. QED
      BY <1>1, <2>1, LastOf
  <2>3. h \in Rows /\ RowRank(h) # RowRank(LastRow) /\ h \in Nat /\ h < LastRow
    BY <1>1
  <2>4. h + 1 \in Rows /\ h + 1 \notin S
    BY <1>1, <2>2, <2>3
  <2>5. RowRank(h + 1) = RowRank(LastRow)
    BY <2>4
  <2>6. h \in KeyRows
    BY <2>3, <2>5 DEF KeyRows, Rows, RowRank, LastRow
  <2>7. KeyOf(h) <= 2 * RowRank(LastRow) - 2
    BY <1>1, <1>2, <2>3, <2>6
  <2>8. KeyOf(h) \in Keys /\ KeyOf(h) \in Int /\ RowRank(LastRow) \in Int
    BY <1>1, <1>2, <2>6 DEF Keys
  <2>9. KeyOf(h) < 2 * RowRank(LastRow)
    BY <2>7, <2>8
  <2>. QED
    BY <2>8, <2>9
<1>. QED
  BY <1>2, <1>3, <1>4, <1>5 DEF Keys

\* The relative score of every participant in a case that does not raise is a natural
\* number: the best score it is divided by is not 0.
LEMMA RelativeScoreType ==
    ASSUME NEW s \in Seq(CaseScores \cup {Rejected}),
           contest \in Contests,
           contest.kind # "absolute",
           ~CaseRaises(s),
           NEW best \in BestScores(s),
           NEW u \in 1..Len(s)
    PROVE  RelativeScore(s, best, s[u]) \in Nat
  <1> DEFINE a == s[u]
  <1>1. CaseScores \subseteq Nat /\ MaxScore \in Nat \ {0}
    BY StandingsAssumption
  <1>2. s \in Seq(Int) /\ \A v \in 1..Len(s) : s[v] \in CaseScores \cup {Rejected}
    <2>1. CaseScores \cup {Rejected} \subseteq Int
      BY <1>1 DEF Rejected
    <2>2. QED
      BY <2>1, SeqMonotonic, ElementOfSeq
  <1>3. a \in Int
    BY <1>2, ElementOfSeq
  <1>4. CASE a < 0
    BY <1>4 DEF RelativeScore
  <1>5. CASE a >= 0
    <2>1. a \in Accepted(s) /\ a \in Nat
      BY <1>3, <1>5 DEF Accepted
    <2>2. best \in Accepted(s) /\ \A b \in Accepted(s) : ~Better(b, best)
      BY <2>1 DEF BestScores
    <2>3. \A b \in Accepted(s) : b \in Nat
      BY <1>1, <1>2 DEF Accepted, Rejected
    <2>4. MaxScore * a \in Nat /\ MaxScore * best \in Nat
      BY <1>1, <2>1, <2>2, <2>3
    <2>5. CASE contest.kind = "max"
      <3>1. Accepted(s) # {0}
        BY <2>5 DEF CaseRaises
      <3>2. \E b \in Accepted(s) : b # 0
        BY <2>1, <3>1
      <3>3. best \in Nat \ {0}
        BY <2>2, <2>3, <2>5, <3>2 DEF Better, LessIsBetter
      <3>4. QED
        BY <1>5, <1>3, <2>4, <2>5, <3>3, RoundType DEF RelativeScore
    <2>6. CASE contest.kind = "min"
      <3>1. a \in Nat \ {0}
        BY <2>1, <2>6 DEF CaseRaises
      <3>2. QED
        BY <1>5, <1>3, <2>4, <2>6, <3>1, RoundType DEF RelativeScore
    <2>7. CASE contest.kind \notin {"max", "min"}
      <3>1. RankScore(s, a) \in Nat
        BY <1>2, <1>5, RankScoreType
      <3>2. RelativeScore(s, best, a) = RankScore(s, a)
        BY <1>3, <1>5, <2>7 DEF RelativeScore
      <3>3. QED
        BY <3>1, <3>2
    <2>8. QED
      BY <2>5, <2>6, <2>7
  <1>6. QED
    BY <1>3, <1>4, <1>5

\* The case that the new participant joins.
LEMMA CaseOfFacts ==
    ASSUME contest \in Contests, contest.kind # "absolute",
           sub \in [1..NumCases -> Verdicts], NEW k \in 1..NumCases
    PROVE  /\ NewScore(k) \in CaseScores \cup {Rejected}
           /\ CaseOf(k) \in Seq(CaseScores \cup {Rejected})
           /\ Len(CaseOf(k)) = Self
           /\ CaseOf(k)[Self] = NewScore(k)
           /\ \A p \in Participants : CaseOf(k)[p] = contest.cases[k][p]
  <1> DEFINE S == CaseScores \cup {Rejected}
  <1>1. CaseScores \subseteq Nat
    BY StandingsAssumption
  <1>2. NewScore(k) \in S
    BY <1>1 DEF NewScore, Verdicts, Rejected, Uncounted
  <1>3. contest.cases[k] \in Seq(S) /\ Len(contest.cases[k]) = Self - 1
    BY CasesFacts
  <1>4. Self \in Nat /\ Self > 1 /\ Participants = 1..(Self - 1)
    BY CasesFacts
  <1> HIDE DEF S
  <1>5. /\ CaseOf(k) \in Seq(S)
        /\ Len(CaseOf(k)) = Len(contest.cases[k]) + 1
        /\ CaseOf(k)[Len(contest.cases[k]) + 1] = NewScore(k)
        /\ \A p \in 1..Len(contest.cases[k]) : CaseOf(k)[p] = contest.cases[k][p]
    BY <1>2, <1>3 DEF CaseOf
  <1>6. Len(contest.cases[k]) + 1 = Self
    BY <1>3, <1>4
  <1>7. QED
    BY <1>2, <1>3, <1>4, <1>5, <1>6 DEF S

-----------------------------------------------------------------------------
(* The ranks, and the search.                                              *)

\* A rank found in the standings is not past the last row's.
LEMMA GroupFacts ==
    ASSUME contest \in Contests, NEW e \in ScoreRankList
    PROVE  /\ e.start \in Int
           /\ e.end \in Int
           /\ e.start <= LastRank
           /\ e.end <= LastRank
  <1> DEFINE st == contest.standings
  <1>1. /\ LastPlace \in Nat /\ LastRank \in Int
        /\ \A i \in Places : i \in Nat /\ i >= 1 /\ i <= LastPlace
                             /\ Rank(st[i]) \in Int /\ Rank(st[i]) <= LastRank
        /\ \A i \in Nat : i \in Places <=> 1 <= i /\ i <= LastPlace
    BY PlacesFacts DEF PlaceRank
  <1>2. PICK g \in Groups(st) :
           /\ e.start = Rank(st[g[1]])
           /\ e.end = IF g[2] = LastPlace THEN Rank(st[g[2]]) ELSE Rank(st[g[2] + 1]) - 1
    BY DEF ScoreRankList, LastPlace
  <1>3. g[1] \in Places /\ g[2] \in Places
    BY DEF Groups, Places, LastPlace
  <1>4. e.start \in Int /\ e.start <= LastRank
    BY <1>1, <1>2, <1>3
  <1>5. CASE g[2] = LastPlace
    BY <1>1, <1>2, <1>3, <1>4, <1>5
  <1>6. CASE g[2] # LastPlace
    <2>1. g[2] + 1 \in Places
      BY <1>1, <1>3, <1>6
    <2>2. Rank(st[g[2] + 1]) \in Int /\ Rank(st[g[2] + 1]) <= LastRank
      BY <1>1, <2>1
    <2>3. e.end = Rank(st[g[2] + 1]) - 1
      BY <1>2, <1>6
    <2>4. e.end \in Int /\ e.end <= LastRank
      BY <1>1, <2>2, <2>3
    <2>5. QED
      BY <1>4, <2>4
  <1>7. QED
    BY <1>5, <1>6

\* Sorted keys: at least one, and two where there is more than one rank; each of them a
\* key, in ascending order, and none left out.
LEMMA SortedFacts ==
    ASSUME contest \in Contests, NEW s \in SortedOf(Keys)
    PROVE  /\ s \in Seq(Int)
           /\ Len(s) \in Nat
           /\ Len(s) = Cardinality(Keys)
           /\ Len(s) >= 1
           /\ RowRank(1) # RowRank(LastRow) => Len(s) >= 2
           /\ \A i \in 1..Len(s) : s[i] \in Keys
           /\ \A i, j \in 1..Len(s) : i < j => s[i] < s[j]
           /\ \A a \in Keys : \E i \in 1..Len(s) : s[i] = a
  <1> DEFINE n == Cardinality(Keys)
             top == 2 * RowRank(LastRow)
  <1>1. n \in Nat /\ Keys \in SUBSET Int /\ top \in Keys
        /\ (RowRank(1) # RowRank(LastRow) => \E a \in Keys : a < top)
    BY KeysFacts, FS_CardinalityType
  <1>2. /\ s \in [1..n -> Keys]
        /\ \A i, j \in 1..n : i < j => s[i] < s[j]
        /\ \A a \in Keys : \E i \in 1..n : s[i] = a
    BY DEF SortedOf
  <1> HIDE DEF n, top
  <1>3. s \in Seq(Int) /\ Len(s) = n
    <2>1. s \in [1..n -> Int]
      BY <1>1, <1>2
    <2>2. QED
      BY <1>1, <2>1
  <1>4. n >= 1
    BY <1>1, <1>2
  <1>5. ASSUME RowRank(1) # RowRank(LastRow)
        PROVE  n >= 2
    <2>1. PICK a \in Keys : a < top
      BY <1>1, <1>5
    <2>2. a \in Int /\ top \in Int
      BY <1>1
    <2>3. PICK i \in 1..n : s[i] = a
      BY <1>2
    <2>4. PICK j \in 1..n : s[j] = top
      BY <1>1, <1>2
    <2>5. i # j
      BY <2>1, <2>2, <2>3, <2>4
    <2>6. QED
      BY <1>1, <2>5
  <1>6. QED
    BY <1>1, <1>2, <1>3, <1>4, <1>5 DEF n

\* The search ends between two keys, or on the first two, unless the table of
\* performances has one rank alone or the rank is below all of it: then it would be the
\* last key, and the map had been asked for it directly.
LEMMA SearchEnds ==
    ASSUME contest \in Contests, TypeOK, Bracketed,
           pc = "search", win - lose <= 1
    PROVE  /\ Low < Len(keys) => Low \in 1..(Len(keys) - 1)
           /\ ~(Low < Len(keys)) => \/ RowRank(1) = RowRank(LastRow)
                                    \/ perfRank > 2 * RowRank(LastRow)
  <1> DEFINE top == 2 * RowRank(LastRow)
  <1>1. keys \in SortedOf(Keys)
    BY DEF Bracketed
  <1>2. /\ Len(keys) \in Nat
        /\ Len(keys) >= 1
        /\ RowRank(1) # RowRank(LastRow) => Len(keys) >= 2
        /\ \A i \in 1..Len(keys) : keys[i] \in Keys
        /\ \A i, j \in 1..Len(keys) : i < j => keys[i] < keys[j]
        /\ \A a \in Keys : \E i \in 1..Len(keys) : keys[i] = a
    BY <1>1, SortedFacts
  <1>3. lose \in -1..Len(keys) /\ win \in 0..Len(keys) /\ lose < win /\ perfRank \in Int
        /\ perfRank \notin Keys
    BY DEF TypeOK, Bracketed
  <1>4. top \in Keys /\ Keys \in SUBSET Int /\ \A a \in Keys : a <= top
    BY KeysFacts
  <1> HIDE DEF top
  <1>5. Low \in Nat /\ Low >= 1
    BY <1>2, <1>3 DEF Low
  <1>6. Low < Len(keys) => Low \in 1..(Len(keys) - 1)
    BY <1>2, <1>5
  <1>7. ASSUME ~(Low < Len(keys)), RowRank(1) # RowRank(LastRow)
        PROVE  perfRank > top
    <2>0. Low = IF win = 0 THEN 1 ELSE win
      BY DEF Low
    <2>1. win = Len(keys) /\ lose = Len(keys) - 1 /\ lose >= 0
      <3>1. Len(keys) \in Nat /\ Len(keys) >= 2 /\ lose \in Int /\ win \in Int
            /\ win >= 0 /\ win <= Len(keys) /\ lose < win
        BY <1>2, <1>3, <1>7
      <3>2. win = Len(keys)
        BY <1>7, <2>0, <3>1
      <3>3. QED
        BY <3>1, <3>2
    <2>2. keys[Len(keys)] <= perfRank
      BY <1>2, <2>1 DEF Bracketed, Key
    <2>3. PICK i \in 1..Len(keys) : keys[i] = top
      BY <1>2, <1>4
    <2>4. Len(keys) \in 1..Len(keys) /\ keys[Len(keys)] \in Int /\ top \in Int
      <3>1. Len(keys) \in 1..Len(keys)
        BY <1>2
      <3>2. keys[Len(keys)] \in Keys
        BY <1>2, <3>1
      <3>3. QED
        BY <1>4, <3>1, <3>2
    <2>5. top <= keys[Len(keys)]
      <3>1. CASE i = Len(keys)
        BY <2>3, <2>4, <3>1
      <3>2. CASE i # Len(keys)
        <4>1. i < Len(keys)
          BY <1>2, <3>2
        <4>2. keys[i] < keys[Len(keys)]
          BY <1>2, <2>4, <4>1
        <4>3. QED
          BY <2>3, <2>4, <4>2
      <3>3. QED
        BY <3>1, <3>2
    <2>6. top # perfRank
      BY <1>3, <1>4
    <2>7. QED
      BY <1>3, <2>2, <2>4, <2>5, <2>6
  <1>8. QED
    BY <1>6, <1>7 DEF top

-----------------------------------------------------------------------------
(* The steps.                                                              *)

\* The problem never changes once it is loaded, and all that is read from it with it.
LEMMA Frozen ==
    ASSUME [Next]_vars
    PROVE  /\ contest' = contest
           /\ Keys' = Keys
           /\ LastRank' = LastRank
           /\ Participants' = Participants
           /\ NumCases' = NumCases
           /\ Scoring' = Scoring
           /\ Consistent' <=> Consistent
  <1>1. contest' = contest
    BY DEF Next, vars, Submit, Recalculate, RecalculateRaises, RankRelative, RankLowest,
           RankAbsolute, Ranked, LookUp, BeginSearch, Narrow, Interpolate, Again
  <1>2. /\ Keys' = Keys /\ LastRank' = LastRank
        /\ Participants' = Participants /\ NumCases' = NumCases
    BY <1>1 DEF Keys, KeyRows, KeyOf, LastRank, Participants, NumCases
  <1>3. Scoring' = Scoring
    BY <1>1, <1>2 DEF Scoring
  <1>4. Consistent' <=> Consistent
    BY <1>1, <1>2, <1>3 DEF Consistent
  <1>5. QED
    BY <1>1, <1>2, <1>3, <1>4

\* The number of cases is a number, in a contest of either kind.
LEMMA NumCasesType ==
    ASSUME contest \in Contests
    PROVE  NumCases \in Nat
  <1>1. CASE contest.kind = "absolute"
    BY <1>1 DEF NumCases, AbsoluteCases
  <1>2. CASE contest.kind # "absolute"
    BY <1>2, CasesFacts
  <1>3. QED
    BY <1>1, <1>2

\* What a round of the recalculation adds.
LEMMA RecalculateType ==
    ASSUME StandingsInv, Recalculate
    PROVE  own' \in Nat /\ totals' \in [Participants -> Nat] /\ done' \in 0..Len(sub)
  <1> DEFINE k == done + 1
             s == CaseOf(k)
  <1>1. /\ contest \in Contests
        /\ contest.kind # "absolute"
        /\ sub \in [1..NumCases -> Verdicts]
        /\ NumCases \in Nat
        /\ done \in Nat
        /\ k \in 1..NumCases
    BY NumCasesType DEF StandingsInv, TypeOK, Submitted, Recalculate
  <1>2. Len(sub) = NumCases
    BY <1>1
  <1>3. PICK best \in BestScores(s) :
           /\ own' = own + RelativeScore(s, best, NewScore(k))
           /\ totals' = [p \in Participants |-> totals[p] + RelativeScore(s, best, s[p])]
    BY DEF Recalculate
  <1>4. /\ s \in Seq(CaseScores \cup {Rejected})
        /\ Len(s) = Self
        /\ s[Self] = NewScore(k)
    BY <1>1, CaseOfFacts
  <1>5. ~CaseRaises(s)
    BY DEF Recalculate
  <1>6. Self \in Nat /\ Self > 1 /\ Participants = 1..(Self - 1)
    BY <1>1, CasesFacts
  <1> HIDE DEF k, s
  <1>7. \A u \in 1..Len(s) : RelativeScore(s, best, s[u]) \in Nat
    BY <1>1, <1>3, <1>4, <1>5, RelativeScoreType
  <1>8. RelativeScore(s, best, NewScore(k)) \in Nat
    BY <1>4, <1>6, <1>7
  <1>9. \A p \in Participants : RelativeScore(s, best, s[p]) \in Nat
    BY <1>4, <1>6, <1>7
  <1>10. own \in Nat /\ totals \in [Participants -> Nat]
    BY DEF StandingsInv, TypeOK
  <1>11. done' = k
    BY DEF Recalculate, k
  <1>12. own' \in Nat
    BY <1>3, <1>8, <1>10
  <1>13. totals' \in [Participants -> Nat]
    BY <1>3, <1>9, <1>10
  <1>14. QED
    BY <1>1, <1>2, <1>11, <1>12, <1>13

\* The participants who have more than the sum o, beside the sums t, and those who have
\* as much.
Above(o, t) == {p \in Participants : t[p] > o}
Tied(o, t) == {p \in Participants : t[p] = o}

\* They are different participants, and all of them have a case accepted.
LEMMA RankCounts ==
    ASSUME contest \in Contests, contest.kind # "absolute",
           NEW o \in Nat \ {0}, NEW t \in [Participants -> Nat],
           \A p \in Participants : t[p] > 0 => p \in Scoring
    PROVE  /\ IsFiniteSet(Above(o, t)) /\ IsFiniteSet(Tied(o, t))
           /\ Cardinality(Above(o, t)) \in Nat /\ Cardinality(Tied(o, t)) \in Nat
           /\ Cardinality(Scoring) \in Nat
           /\ Cardinality(Above(o, t) \cup Tied(o, t))
                 = Cardinality(Above(o, t)) + Cardinality(Tied(o, t))
           /\ Cardinality(Above(o, t)) + Cardinality(Tied(o, t)) <= Cardinality(Scoring)
  <1> DEFINE A == Above(o, t)
             B == Tied(o, t)
  <1>1. IsFiniteSet(Participants)
    <2>1. Self - 1 \in Nat /\ Participants = 1..(Self - 1)
      BY CasesFacts
    <2>2. QED
      BY <2>1, FS_Interval
  <1>2. Scoring \subseteq Participants
    BY DEF Scoring
  <1>3. A \subseteq Participants /\ B \subseteq Participants /\ A \cup B \subseteq Scoring
    <2>1. \A p \in Participants : t[p] \in Nat
      OBVIOUS
    <2>2. QED
      BY <2>1 DEF Above, Tied
  <1>4. A \cap B = {}
    <2>1. \A p \in Participants : t[p] \in Nat
      OBVIOUS
    <2>2. QED
      BY <2>1 DEF Above, Tied
  <1>5. IsFiniteSet(A) /\ IsFiniteSet(B) /\ IsFiniteSet(Scoring)
    BY <1>1, <1>2, <1>3, FS_Subset
  <1>6. Cardinality(A) \in Nat /\ Cardinality(B) \in Nat /\ Cardinality(Scoring) \in Nat
    BY <1>5, FS_CardinalityType
  <1>7. Cardinality(A \cup B) = Cardinality(A) + Cardinality(B)
    <2>1. Cardinality(A \cup B) = Cardinality(A) + Cardinality(B) - Cardinality(A \cap B)
      BY <1>5, FS_Union
    <2>2. Cardinality(A \cap B) = 0
      BY <1>4, FS_EmptySet
    <2>3. QED
      BY <1>6, <2>1, <2>2
  <1>8. Cardinality(A \cup B) <= Cardinality(Scoring)
    BY <1>3, <1>5, FS_Subset
  <1>9. QED
    BY <1>5, <1>6, <1>7, <1>8

\* However get_new_rank ends, the ranks are numbers, and not below that of score 0.
LEMMA RankedType ==
    ASSUME StandingsInv, RankRelative \/ RankLowest \/ RankAbsolute
    PROVE  /\ rank' \in Int
           /\ perfRank' \in Int
           /\ Consistent => perfRank' <= 2 * LastRank
  <1>1. contest \in Contests /\ LastRank \in Int
    BY PlacesFacts DEF StandingsInv, TypeOK
  <1>2. CASE RankRelative
    <2> DEFINE better == Cardinality(Above(own, totals))
               tied == Cardinality(Tied(own, totals))
    <2>1. /\ contest.kind # "absolute" /\ own \in Nat \ {0} /\ totals \in [Participants -> Nat]
          /\ \A p \in Participants : totals[p] > 0 => p \in Scoring
      BY <1>2 DEF StandingsInv, TypeOK, Submitted, Earned, RankRelative
    <2>2. /\ rank' = better + 1
          /\ perfRank' = 2 * (better + 1) + (IF tied = 0 THEN 0 ELSE tied - 1)
      BY <1>2 DEF RankRelative, Ranked, Above, Tied
    <2>3. better \in Nat /\ tied \in Nat /\ better + tied <= Cardinality(Scoring)
          /\ Cardinality(Scoring) \in Nat
      BY <1>1, <2>1, RankCounts
    <2>4. Consistent => Cardinality(Scoring) < LastRank
      BY <2>1 DEF Consistent
    <2> HIDE DEF better, tied
    <2>5. QED
      BY <1>1, <2>2, <2>3, <2>4
  <1>3. CASE RankLowest
    BY <1>1, <1>3 DEF RankLowest, Ranked
  <1>4. CASE RankAbsolute
    <2>1. PICK e \in ScoreRankList :
             /\ rank' = e.start
             /\ \/ perfRank' = e.start + e.end
                \/ perfRank' = 2 * e.start
      BY <1>4 DEF RankAbsolute, Ranked, Found, Reached
    <2>2. e.start \in Int /\ e.end \in Int /\ e.start <= LastRank /\ e.end <= LastRank
      BY <1>1, GroupFacts
    <2>3. QED
      BY <1>1, <2>1, <2>2
  <1>5. QED
    BY <1>2, <1>3, <1>4

\* What is interpolated between two entries of the map is an integer.
LEMMA InterpolatedType ==
    ASSUME StandingsInv, pc = "search", Low \in 1..(Len(keys) - 1)
    PROVE  Interpolated \in Int
  <1>1. contest \in Contests /\ keys \in SortedOf(Keys) /\ perfRank \in Int
    BY DEF StandingsInv, TypeOK, Bracketed
  <1>2. /\ Len(keys) \in Nat
        /\ \A i \in 1..Len(keys) : keys[i] \in Keys
        /\ \A i, j \in 1..Len(keys) : i < j => keys[i] < keys[j]
    BY <1>1, SortedFacts
  <1> DEFINE high == keys[Low]
             low == keys[Low + 1]
             ph == PerformanceAt(high)
             pl == PerformanceAt(low)
  <1>3. Low \in 1..Len(keys) /\ Low + 1 \in 1..Len(keys) /\ Low < Low + 1
    BY <1>2
  <1>4. high \in Keys /\ low \in Keys /\ high < low
    BY <1>2, <1>3
  <1>5. high \in Int /\ low \in Int /\ ph \in Int /\ pl \in Int
    BY <1>1, <1>4, KeysFacts
  <1>6. Key(Low - 1) = high /\ Key(Low) = low
    BY <1>3 DEF Key
  <1>7. Interpolated = Round(ph * (low - high) - (ph - pl) * (perfRank - high), low - high)
    BY <1>6 DEF Interpolated
  <1> HIDE DEF high, low, ph, pl
  <1>8. ph * (low - high) - (ph - pl) * (perfRank - high) \in Int
    <2>1. ph * (low - high) \in Int
      BY <1>5
    <2>2. (ph - pl) * (perfRank - high) \in Int
      BY <1>1, <1>5
    <2>3. QED
      BY <2>1, <2>2
  <1>9. low - high \in Nat \ {0}
    BY <1>4, <1>5
  <1>10. \A n \in Int, d \in Nat \ {0} : Round(n, d) \in Int
    <2> TAKE n \in Int, d \in Nat \ {0}
    <2>1. n \div d \in Int
      OBVIOUS
    <2>2. QED
      BY <2>1 DEF Round
  <1>11. QED
    BY <1>7, <1>8, <1>9, <1>10

\* The middle is strictly between the bounds.
LEMMA MidBetween ==
    ASSUME StandingsInv, pc = "search", win - lose > 1
    PROVE  /\ Mid \in Int
           /\ lose < Mid
           /\ Mid < win
           /\ Mid >= 0
           /\ Mid + 1 \in 1..Len(keys)
           /\ Key(Mid) \in Int
  <1>1. /\ lose \in -1..Len(keys)
        /\ win \in 0..Len(keys)
        /\ keys \in Seq(Int)
        /\ Len(keys) \in Nat
    BY DEF StandingsInv, TypeOK
  <1>2. Mid \in Int /\ lose < Mid /\ Mid < win
    BY <1>1 DEF Mid
  <1>3. Mid >= 0 /\ Mid + 1 \in 1..Len(keys)
    BY <1>1, <1>2
  <1>4. QED
    BY <1>1, <1>2, <1>3, ElementOfSeq DEF Key

\* Every step keeps the types.
LEMMA TypeStep ==
    ASSUME StandingsInv, Next
    PROVE  TypeOK'
  <1>1. TypeOK /\ contest' = contest /\ Participants' = Participants
    BY Frozen DEF StandingsInv
  <1>2. ASSUME NEW s \in [1..NumCases -> Verdicts], Submit(s)
        PROVE  TypeOK'
    <2>1. s \in Seq(Verdicts) /\ Len(s) \in Nat
      <3>1. NumCases \in Nat
        BY <1>1, NumCasesType DEF TypeOK
      <3>2. QED
        BY <3>1
    <2>2. done = 0
      BY <1>2 DEF Submit, StandingsInv, Submitted
    <2>3. QED
      BY <1>1, <1>2, <2>1, <2>2 DEF TypeOK, Submit
  <1>3. CASE Recalculate
    <2>1. own' \in Nat /\ totals' \in [Participants -> Nat] /\ done' \in 0..Len(sub)
      BY <1>3, RecalculateType
    <2>2. QED
      BY <1>1, <1>3, <2>1 DEF TypeOK, Recalculate
  <1>4. CASE RecalculateRaises
    BY <1>1, <1>4 DEF TypeOK, RecalculateRaises
  <1>5. CASE RankRelative \/ RankLowest \/ RankAbsolute
    <2>1. rank' \in Int /\ perfRank' \in Int
      BY <1>5, RankedType
    <2>2. /\ pc' = "look"
          /\ UNCHANGED <<sub, done, own, totals, keys, lose, win, performance, before>>
      BY <1>5 DEF RankRelative, RankLowest, RankAbsolute, Ranked
    <2>3. QED
      BY <1>1, <2>1, <2>2 DEF TypeOK
  <1>6. CASE LookUp
    <2>1. performance' \in Int
      BY <1>1, <1>6, KeysFacts DEF LookUp, TypeOK
    <2>2. QED
      BY <1>1, <1>6, <2>1 DEF TypeOK, LookUp
  <1>7. CASE BeginSearch
    <2>1. keys' \in SortedOf(Keys) /\ lose' = -1 /\ win' = Cardinality(Keys)
      BY <1>7 DEF BeginSearch
    <2>2. keys' \in Seq(Int) /\ Len(keys') \in Nat /\ Len(keys') = Cardinality(Keys)
      BY <1>1, <2>1, SortedFacts DEF TypeOK
    <2>3. lose' \in -1..Len(keys') /\ win' \in 0..Len(keys')
      BY <2>1, <2>2
    <2>4. QED
      BY <1>1, <1>7, <2>2, <2>3 DEF TypeOK, BeginSearch
  <1>8. CASE Narrow
    <2>1. lose' \in -1..Len(keys) /\ win' \in 0..Len(keys)
      BY <1>1, <1>8, MidBetween DEF Narrow, TypeOK
    <2>2. QED
      BY <1>1, <1>8, <2>1 DEF TypeOK, Narrow
  <1>9. CASE Interpolate
    <2>1. Low < Len(keys) => Low \in 1..(Len(keys) - 1)
      BY <1>9, SearchEnds DEF Interpolate, StandingsInv, TypeOK
    <2>2. Low < Len(keys) => Interpolated \in Int
      BY <1>9, <2>1, InterpolatedType DEF Interpolate
    <2>3. QED
      BY <1>1, <1>9, <2>2 DEF TypeOK, Interpolate
  <1>10. CASE Again
    <2>1. before' \in Placed \cup {NotYet}
      BY <1>1, <1>10 DEF TypeOK, Again, Placed
    <2>2. totals' \in [Participants -> Nat]
      BY <1>10 DEF Again
    <2>3. <<>> \in Seq(Verdicts) /\ <<>> \in Seq(Int) /\ Len(<<>>) = 0
      OBVIOUS
    <2>4. /\ sub' = <<>>
          /\ keys' = <<>>
          /\ pc' = "idle"
          /\ done' = 0
          /\ own' = 0
          /\ rank' = 0
          /\ perfRank' = 0
          /\ lose' = 0
          /\ win' = 0
          /\ performance' = 0
      BY <1>10 DEF Again
    <2>5. QED
      BY <1>1, <2>1, <2>2, <2>3, <2>4 DEF TypeOK
  <1>11. QED
    BY <1>2, <1>3, <1>4, <1>5, <1>6, <1>7, <1>8, <1>9, <1>10 DEF Next

\* The result that is placed has a verdict of every case.
LEMMA SubmittedStep ==
    ASSUME StandingsInv, Next
    PROVE  Submitted'
  <1>1. Submitted /\ contest' = contest /\ NumCases' = NumCases /\ NumCases \in Nat
    BY Frozen, NumCasesType DEF StandingsInv, TypeOK
  <1>2. ASSUME NEW s \in [1..NumCases -> Verdicts], Submit(s)
        PROVE  Submitted'
    BY <1>1, <1>2 DEF Submit, Submitted
  <1>3. CASE Recalculate
    <2>1. done \in Int
      BY DEF StandingsInv, TypeOK
    <2>2. QED
      BY <1>1, <1>3, <2>1 DEF Recalculate, Submitted
  <1>4. CASE pc' \in {"look", "search", "placed", "raised"}
    BY <1>4 DEF Submitted
  <1>5. CASE Again
    BY <1>5 DEF Again, Submitted
  <1>6. Recalculate \/ pc' \in {"look", "search", "placed", "raised"} \/ Again
          \/ \E s \in [1..NumCases -> Verdicts] : Submit(s)
    BY DEF Next, RecalculateRaises, RankRelative, RankLowest, RankAbsolute, Ranked, LookUp,
           BeginSearch, Narrow, Interpolate
  <1>7. QED
    BY <1>2, <1>3, <1>4, <1>5, <1>6

\* A participant whose cases are all rejected is given nothing for any of them.
LEMMA EarnedStep ==
    ASSUME StandingsInv, Next
    PROVE  Earned'
  <1>1. /\ Earned /\ Participants' = Participants /\ Scoring' = Scoring
        /\ totals \in [Participants -> Nat] /\ contest \in Contests
    BY Frozen DEF StandingsInv, TypeOK
  <1>2. CASE Recalculate
    <2> DEFINE k == done + 1
               s == CaseOf(k)
    <2>1. /\ contest.kind # "absolute" /\ sub \in [1..NumCases -> Verdicts]
          /\ k \in 1..NumCases
      BY <1>1, <1>2, NumCasesType DEF StandingsInv, TypeOK, Submitted, Recalculate
    <2>2. PICK best \in BestScores(s) :
             totals' = [p \in Participants |-> totals[p] + RelativeScore(s, best, s[p])]
      BY <1>2 DEF Recalculate
    <2>3. ASSUME NEW p \in Participants, p \notin Scoring
          PROVE  ~(totals'[p] > 0)
      <3>1. s[p] = Rejected
        BY <1>1, <2>1, <2>3, CaseOfFacts DEF Scoring
      <3>2. RelativeScore(s, best, s[p]) = 0
        BY <3>1 DEF RelativeScore, Rejected
      <3>3. totals[p] \in Nat /\ ~(totals[p] > 0)
        BY <1>1, <2>3 DEF Earned
      <3> HIDE DEF s
      <3>4. QED
        BY <2>2, <3>2, <3>3
    <2>4. QED
      BY <1>1, <2>3 DEF Earned
  <1>3. CASE Again
    BY <1>1, <1>3 DEF Again, Earned
  <1>4. CASE totals' = totals
    BY <1>1, <1>4 DEF Earned
  <1>5. Recalculate \/ Again \/ totals' = totals
    BY DEF Next, Submit, RecalculateRaises, RankRelative, RankLowest, RankAbsolute, Ranked,
           LookUp, BeginSearch, Narrow, Interpolate
  <1>6. QED
    BY <1>2, <1>3, <1>4, <1>5

\* No step takes the rank below that of score 0.
LEMMA AboveStep ==
    ASSUME StandingsInv, Next
    PROVE  AboveTheLast'
  <1>1. LastRank' = LastRank /\ (Consistent' <=> Consistent) /\ AboveTheLast
    BY Frozen DEF StandingsInv
  <1>2. CASE RankRelative \/ RankLowest \/ RankAbsolute
    BY <1>1, <1>2, RankedType DEF AboveTheLast
  <1>3. CASE BeginSearch \/ Narrow \/ LookUp \/ Interpolate
    BY <1>1, <1>3 DEF BeginSearch, Narrow, LookUp, Interpolate, AboveTheLast
  <1>4. CASE pc' \notin {"look", "search", "placed"}
    BY <1>4 DEF AboveTheLast
  <1>5. \/ RankRelative \/ RankLowest \/ RankAbsolute \/ BeginSearch \/ Narrow \/ LookUp
        \/ Interpolate \/ pc' \notin {"look", "search", "placed"}
    BY DEF Next, Submit, Recalculate, RecalculateRaises, Again
  <1>6. QED
    BY <1>2, <1>3, <1>4, <1>5

\* Each step of the search keeps the rank between its bounds.
LEMMA BracketedStep ==
    ASSUME StandingsInv, Next
    PROVE  Bracketed'
  <1>1. Keys' = Keys /\ contest \in Contests /\ SortedOf(Keys)' = SortedOf(Keys)
    BY Frozen DEF StandingsInv, TypeOK, SortedOf
  <1>2. CASE BeginSearch
    <2>1. /\ keys' \in SortedOf(Keys)
          /\ perfRank' \notin Keys
          /\ lose' = -1
          /\ win' = Cardinality(Keys)
      BY <1>2 DEF BeginSearch
    <2>2. Len(keys') \in Nat /\ Len(keys') = Cardinality(Keys)
      BY <1>1, <2>1, SortedFacts
    <2>3. QED
      BY <1>1, <2>1, <2>2 DEF Bracketed
  <1>3. CASE Narrow
    <2>1. pc = "search" /\ win - lose > 1 /\ UNCHANGED <<keys, perfRank>>
      BY <1>3 DEF Narrow
    <2>2. /\ keys \in SortedOf(Keys)
          /\ perfRank \notin Keys
          /\ lose < win
          /\ lose >= 0 => Key(lose) <= perfRank
          /\ win < Len(keys) => perfRank < Key(win)
      BY <2>1 DEF StandingsInv, Bracketed
    <2>3. Mid \in Int /\ lose < Mid /\ Mid < win /\ Mid >= 0 /\ Key(Mid) \in Int
      BY <2>1, MidBetween
    <2>4. perfRank \in Int /\ lose \in Int /\ win \in Int
      BY DEF StandingsInv, TypeOK
    <2>5. CASE perfRank < Key(Mid) /\ win' = Mid /\ lose' = lose
      BY <1>1, <2>1, <2>2, <2>3, <2>4, <2>5 DEF Bracketed, Key
    <2>6. CASE perfRank >= Key(Mid) /\ lose' = Mid /\ win' = win
      BY <1>1, <2>1, <2>2, <2>3, <2>4, <2>6 DEF Bracketed, Key
    <2>7. QED
      BY <1>3, <2>5, <2>6 DEF Narrow
  <1>4. CASE pc' # "search"
    BY <1>4 DEF Bracketed
  <1>5. BeginSearch \/ Narrow \/ pc' # "search"
    BY DEF Next, Submit, Recalculate, RecalculateRaises, RankRelative, RankLowest,
           RankAbsolute, Ranked, LookUp, Interpolate, Again
  <1>6. QED
    BY <1>2, <1>3, <1>4, <1>5

\* A case that raises has a score of 0, and nothing above it where more is better.
LEMMA RaisingCase ==
    ASSUME StandingsInv, pc = "cases", NEW k \in 1..NumCases, CaseRaises(CaseOf(k))
    PROVE  \/ contest.kind = "min" /\ 0 \in Accepted(CaseOf(k))
           \/ contest.kind = "max" /\ \A u \in 1..Len(CaseOf(k)) : CaseOf(k)[u] <= 0
  <1> DEFINE s == CaseOf(k)
  <1>1. /\ contest \in Contests
        /\ contest.kind # "absolute"
        /\ sub \in [1..NumCases -> Verdicts]
    BY DEF StandingsInv, TypeOK, Submitted
  <1>2. s \in Seq(CaseScores \cup {Rejected})
    BY <1>1, CaseOfFacts
  <1>3. CaseScores \subseteq Nat
    BY StandingsAssumption
  <1>4. CASE contest.kind = "max" /\ Accepted(s) = {0}
    <2> SUFFICES ASSUME NEW u \in 1..Len(s)
                 PROVE  s[u] <= 0
      BY <1>4
    <2>1. s[u] \in CaseScores \cup {Rejected}
      BY <1>2, ElementOfSeq
    <2>2. s[u] >= 0 => s[u] \in Accepted(s)
      BY DEF Accepted
    <2> HIDE DEF s
    <2>3. CASE s[u] >= 0
      BY <1>4, <2>2, <2>3
    <2>4. CASE ~(s[u] >= 0)
      <3>1. CaseScores \cup {Rejected} \subseteq Int
        BY <1>3 DEF Rejected
      <3>2. s[u] \in Int
        BY <2>1, <3>1
      <3>3. QED
        BY <2>4, <3>2
    <2>5. QED
      BY <2>3, <2>4
  <1>5. CASE contest.kind = "min" /\ 0 \in Accepted(s)
    BY <1>5
  <1>6. QED
    BY <1>4, <1>5 DEF CaseRaises

\* No step raises for anything but a score of 0, or a rank that the table of performances
\* cannot answer.
LEMMA RaisesStep ==
    ASSUME StandingsInv, Next
    PROVE  RaisesOnlyWhereUndefined'
  <1>1. /\ contest' = contest /\ NumCases' = NumCases /\ Keys' = Keys /\ LastRank' = LastRank
        /\ (Consistent' <=> Consistent) /\ contest \in Contests
    BY Frozen DEF StandingsInv, TypeOK
  <1>2. CASE RecalculateRaises
    <2>1. /\ pc = "cases"
          /\ done < NumCases
          /\ sub' = sub
          /\ CaseRaises(CaseOf(done + 1))
      BY <1>2 DEF RecalculateRaises
    <2>2. done \in Nat /\ NumCases \in Nat
      BY NumCasesType DEF StandingsInv, TypeOK
    <2>3. done + 1 \in 1..NumCases
      BY <2>1, <2>2
    <2>4. \E k \in 1..NumCases :
             \/ contest.kind = "min" /\ 0 \in Accepted(CaseOf(k))
             \/ contest.kind = "max" /\ \A u \in 1..Len(CaseOf(k)) : CaseOf(k)[u] <= 0
      BY <2>1, <2>3, RaisingCase
    <2>5. \A k : CaseOf(k)' = CaseOf(k)
      BY <1>1, <2>1 DEF CaseOf, NewScore
    <2>6. \A k : Accepted(CaseOf(k))' = Accepted(CaseOf(k))
      BY <2>5 DEF Accepted
    <2>7. QED
      BY <1>1, <2>1, <2>4, <2>5, <2>6 DEF RaisesOnlyWhereUndefined
  <1>3. CASE Interpolate /\ pc' = "raised"
    <2>1. /\ pc = "search" /\ win - lose <= 1 /\ ~(Low < Len(keys)) /\ perfRank' = perfRank
      BY <1>3 DEF Interpolate
    <2>2. perfRank \notin Keys /\ perfRank \in Int
      BY <2>1 DEF StandingsInv, Bracketed, TypeOK
    <2>3. RowRank(1) = RowRank(LastRow) \/ perfRank > 2 * RowRank(LastRow)
      BY <1>1, <2>1, SearchEnds DEF StandingsInv
    <2>4. RowRank(LastRow) \in Int /\ LastRank \in Int
      BY <1>1, RowsFacts, PlacesFacts
    <2>5. Consistent => perfRank <= 2 * LastRank
      BY <2>1 DEF StandingsInv, AboveTheLast
    <2>6. \/ RowRank(1) = RowRank(LastRow)
          \/ perfRank > 2 * RowRank(LastRow) /\ (Consistent => LastRank > RowRank(LastRow))
      BY <2>2, <2>3, <2>4, <2>5
    <2>7. QED
      BY <1>1, <2>1, <2>2, <2>6 DEF RaisesOnlyWhereUndefined, RowRank, LastRow
  <1>4. CASE pc' # "raised"
    BY <1>4 DEF RaisesOnlyWhereUndefined
  <1>5. RecalculateRaises \/ (Interpolate /\ pc' = "raised") \/ pc' # "raised"
    BY DEF Next, Submit, Recalculate, RankRelative, RankLowest, RankAbsolute, Ranked, LookUp,
           BeginSearch, Narrow, Interpolate, Again
  <1>6. QED
    BY <1>2, <1>3, <1>4, <1>5

-----------------------------------------------------------------------------
(* The inductive invariant.                                                *)

\* The invariant holds, of whatever tables the validators let through: types, the ranks
\* not below that of score 0, the bounds of the search (get_new_rank, get_performance).
THEOREM StandingsInvariant == Spec => []StandingsInv
  <1>1. Init => StandingsInv
    <2> SUFFICES ASSUME Init
                 PROVE  StandingsInv
      OBVIOUS
    <2>1. <<>> \in Seq(Verdicts) /\ <<>> \in Seq(Int) /\ Len(<<>>) = 0
      OBVIOUS
    <2>2. TypeOK
      BY <2>1 DEF Init, TypeOK
    <2>3. Earned
      BY DEF Init, Earned
    <2>4. QED
      BY <2>2, <2>3
         DEF Init, StandingsInv, Submitted, AboveTheLast, Bracketed, RaisesOnlyWhereUndefined
  <1>2. StandingsInv /\ [Next]_vars => StandingsInv'
    <2>1. StandingsInv /\ Next => StandingsInv'
      BY TypeStep, SubmittedStep, EarnedStep, AboveStep, BracketedStep, RaisesStep
         DEF StandingsInv
    <2>2. ASSUME StandingsInv, UNCHANGED vars
          PROVE  StandingsInv'
      <3>1. /\ Keys' = Keys
            /\ LastRank' = LastRank
            /\ Participants' = Participants
            /\ NumCases' = NumCases
            /\ Scoring' = Scoring
            /\ Consistent' <=> Consistent
            /\ \A k : CaseOf(k)' = CaseOf(k)
        BY <2>2, Frozen DEF vars, CaseOf, NewScore
      <3>2. TypeOK' /\ Submitted' /\ Earned' /\ AboveTheLast'
        BY <2>2, <3>1 DEF vars, StandingsInv, TypeOK, Submitted, Earned, AboveTheLast
      <3>3. Bracketed'
        BY <2>2, <3>1 DEF vars, StandingsInv, Bracketed, Key, SortedOf
      <3>4. \A k : Accepted(CaseOf(k))' = Accepted(CaseOf(k))
        BY <3>1 DEF Accepted
      <3>5. RaisesOnlyWhereUndefined'
        BY <2>2, <3>1, <3>4 DEF vars, StandingsInv, RaisesOnlyWhereUndefined
      <3>6. QED
        BY <3>2, <3>3, <3>5 DEF StandingsInv
    <2>3. QED
      BY <2>1, <2>2
  <1>3. QED
    BY <1>1, <1>2, PTL DEF Spec

\* A placement raises for scores of 0, or where the table of performances has one rank
\* alone or ends above the rank asked for, whichever tables are paired
\* (recalculate_relative_score, get_performance).
THEOREM StandingsRaisesOnlyWhereUndefined == Spec => []RaisesOnlyWhereUndefined
  <1>1. StandingsInv => RaisesOnlyWhereUndefined
    BY DEF StandingsInv
  <1>2. QED
    BY <1>1, StandingsInvariant, PTL

-----------------------------------------------------------------------------
(* Rounding, and the order of the relative scores of one case.             *)

\* Division with remainder, by a positive number.
LEMMA Division ==
    ASSUME NEW n \in Int, NEW d \in Nat \ {0}
    PROVE  /\ n \div d \in Int /\ n % d \in 0..(d - 1)
           /\ n = d * (n \div d) + (n % d)
OBVIOUS

\* A product with a natural number keeps the order.
LEMMA TimesMonotone ==
    ASSUME NEW x \in Int, NEW y \in Int, NEW d \in Nat, x <= y
    PROVE  d * x <= d * y
OBVIOUS

\* Division keeps the order of the numerators.
LEMMA DivisionMonotone ==
    ASSUME NEW n \in Int, NEW m \in Int, NEW d \in Nat \ {0}, n <= m
    PROVE  n \div d <= m \div d
<1>. DEFINE q == n \div d
            p == m \div d
<1>1. /\ q \in Int /\ p \in Int
      /\ n = d * q + (n % d) /\ m = d * p + (m % d)
      /\ n % d \in 0..(d - 1) /\ m % d \in 0..(d - 1)
  BY Division
<1>. HIDE DEF q, p
<1>2. ASSUME p < q PROVE FALSE
  <2>1. d * (p + 1) <= d * q
    BY <1>1, <1>2, TimesMonotone
  <2>2. d * (p + 1) = d * p + d
    BY <1>1
  <2>. DEFINE dp == d * p
              dq == d * q
              dr == d * (p + 1)
  <2>3. dp \in Int /\ dq \in Int /\ dr \in Int
    BY <1>1
  <2>4. n = dq + (n % d) /\ m = dp + (m % d) /\ dr <= dq /\ dr = dp + d
    BY <1>1, <2>1, <2>2
  <2>. HIDE DEF dp, dq, dr
  <2>. QED
    BY <1>1, <2>3, <2>4
<1>. QED
  BY <1>1, <1>2 DEF p, q

\* Both ways of rounding keep the order of the numerators.
LEMMA RoundMonotone ==
    ASSUME NEW n \in Int, NEW m \in Int, NEW d \in Nat \ {0}, n <= m
    PROVE  Round(n, d) <= Round(m, d) /\ RoundUp(n, d) <= RoundUp(m, d)
<1>. DEFINE q == n \div d
            p == m \div d
            r == n % d
            s == m % d
<1>1. /\ q \in Int /\ p \in Int /\ r \in 0..(d - 1) /\ s \in 0..(d - 1)
      /\ n = d * q + r /\ m = d * p + s
      /\ q <= p
  BY Division, DivisionMonotone
<1>2. /\ Round(n, d) = IF 2 * r > d \/ (2 * r = d /\ q % 2 = 1) THEN q + 1 ELSE q
      /\ Round(m, d) = IF 2 * s > d \/ (2 * s = d /\ p % 2 = 1) THEN p + 1 ELSE p
      /\ RoundUp(n, d) = IF 2 * r >= d THEN q + 1 ELSE q
      /\ RoundUp(m, d) = IF 2 * s >= d THEN p + 1 ELSE p
  BY DEF Round, RoundUp
<1>. HIDE DEF q, p, r, s
<1>3. CASE q < p
  BY <1>1, <1>2, <1>3
<1>4. CASE q = p
  <2>1. r <= s
    <3>. DEFINE t == d * q
    <3>1. t \in Int /\ n = t + r /\ m = t + s
      BY <1>1, <1>4
    <3>. HIDE DEF t
    <3>. QED
      BY <1>1, <3>1
  <2>. QED
    BY <1>1, <1>2, <1>4, <2>1
<1>. QED
  BY <1>1, <1>3, <1>4

\* What is rounded is an integer, of a negative fraction too.
LEMMA RoundInt ==
    ASSUME NEW n \in Int, NEW d \in Nat \ {0}
    PROVE  Round(n, d) \in Int /\ RoundUp(n, d) \in Int
  BY Division DEF Round, RoundUp

\* A multiple of the denominator is not rounded.
LEMMA RoundExact ==
    ASSUME NEW x \in Int, NEW d \in Nat \ {0}
    PROVE  Round(d * x, d) = x /\ RoundUp(d * x, d) = x
<1>. DEFINE q == (d * x) \div d
            r == (d * x) % d
<1>1. d * x \in Int
  OBVIOUS
<1>2. q \in Int /\ r \in 0..(d - 1) /\ d * x = d * q + r
  BY <1>1, Division
<1>3. /\ Round(d * x, d) = IF 2 * r > d \/ (2 * r = d /\ q % 2 = 1) THEN q + 1 ELSE q
      /\ RoundUp(d * x, d) = IF 2 * r >= d THEN q + 1 ELSE q
  BY DEF Round, RoundUp
<1>. HIDE DEF q, r
<1>4. q = x
  <2>1. ASSUME q < x PROVE FALSE
    <3>1. d * (q + 1) <= d * x
      BY <1>2, <2>1, TimesMonotone
    <3>2. d * (q + 1) = d * q + d
      BY <1>2
    <3>. DEFINE a == d * q
                b == d * x
    <3>3. a \in Int /\ b \in Int /\ a + d <= b /\ b = a + r
      BY <1>2, <3>1, <3>2
    <3>. HIDE DEF a, b
    <3>. QED
      BY <1>2, <3>3
  <2>2. ASSUME x < q PROVE FALSE
    <3>1. d * (x + 1) <= d * q
      BY <1>2, <2>2, TimesMonotone
    <3>2. d * (x + 1) = d * x + d
      OBVIOUS
    <3>. DEFINE a == d * q
                b == d * x
    <3>3. a \in Int /\ b \in Int /\ b + d <= a /\ b = a + r
      BY <1>2, <3>1, <3>2
    <3>. HIDE DEF a, b
    <3>. QED
      BY <1>2, <3>3
  <2>. QED
    BY <1>2, <2>1, <2>2
<1>5. r = 0
  <2>. DEFINE a == d * x
  <2>1. a \in Int /\ a = a + r
    BY <1>2, <1>4
  <2>. HIDE DEF a
  <2>. QED
    BY <1>2, <2>1
<1>. QED
  BY <1>2, <1>3, <1>4, <1>5

\* A half rounded up reaches y as soon as twice the fraction reaches 2y - 1.
LEMMA RoundUpReaches ==
    ASSUME NEW n \in Int, NEW d \in Nat \ {0}, NEW y \in Int
    PROVE  y <= RoundUp(n, d) <=> d * (2 * y - 1) <= 2 * n
<1>. DEFINE q == n \div d
            r == n % d
            dq == d * q
            U == RoundUp(n, d)
<1>1. /\ q \in Int /\ r \in 0..(d - 1) /\ n = d * q + r
      /\ U = IF 2 * r >= d THEN q + 1 ELSE q
  BY Division DEF RoundUp
<1>. HIDE DEF q, r, U
<1>2. /\ dq \in Int /\ n = dq + r
      /\ d * (2 * q - 1) = 2 * dq - d
      /\ d * (2 * (q + 1) - 1) = 2 * dq + d
      /\ d * (2 * (q + 2) - 1) = 2 * dq + 3 * d
  BY <1>1
<1>. HIDE DEF dq
<1>3. ASSUME NEW x \in Int, NEW z \in Int, x <= z
      PROVE  d * (2 * x - 1) <= d * (2 * z - 1)
  BY <1>3, TimesMonotone
<1>. DEFINE D(x) == d * (2 * x - 1)
<1>4. /\ D(q) = 2 * dq - d /\ D(q + 1) = 2 * dq + d /\ D(q + 2) = 2 * dq + 3 * d
      /\ \A x \in Int : D(x) \in Int
      /\ \A x, z \in Int : x <= z => D(x) <= D(z)
  BY <1>2, <1>3
<1>. HIDE DEF D
<1>5. CASE 2 * r >= d
  <2>1. U = q + 1
    BY <1>1, <1>5
  <2>2. ASSUME y <= q + 1 PROVE D(y) <= 2 * n
    BY <1>1, <1>2, <1>4, <1>5, <2>2
  <2>3. ASSUME ~(y <= q + 1) PROVE ~(D(y) <= 2 * n)
    <3>1. D(q + 2) <= D(y)
      BY <1>1, <1>4, <2>3
    <3>. QED
      BY <1>1, <1>2, <1>4, <3>1
  <2>. QED
    BY <2>1, <2>2, <2>3 DEF D, U
<1>6. CASE ~(2 * r >= d)
  <2>1. U = q
    BY <1>1, <1>6
  <2>2. ASSUME y <= q PROVE D(y) <= 2 * n
    BY <1>1, <1>2, <1>4, <2>2
  <2>3. ASSUME ~(y <= q) PROVE ~(D(y) <= 2 * n)
    <3>1. D(q + 1) <= D(y)
      BY <1>1, <1>4, <2>3
    <3>. QED
      BY <1>1, <1>2, <1>4, <1>6, <3>1
  <2>. QED
    BY <2>1, <2>2, <2>3 DEF D, U
<1>. QED
  BY <1>5, <1>6

\* A larger denominator makes no larger number.
LEMMA RoundUpDenominator ==
    ASSUME NEW n \in Nat, NEW d \in Nat \ {0}, NEW e \in Nat \ {0}, d <= e
    PROVE  RoundUp(n, e) <= RoundUp(n, d)
<1>. DEFINE y == RoundUp(n, e)
<1>1. y \in Int /\ RoundUp(n, d) \in Nat
  BY RoundInt, RoundType
<1>2. e * (2 * y - 1) <= 2 * n
  BY <1>1, RoundUpReaches
<1>. HIDE DEF y
<1>3. CASE y <= 0
  BY <1>1, <1>3 DEF y
<1>4. CASE y >= 1
  <2>. DEFINE z == 2 * y - 1
  <2>1. z \in Nat
    BY <1>1, <1>4
  <2>. HIDE DEF z
  <2>2. z * d <= z * e
    BY <2>1, TimesMonotone
  <2>3. z * d = d * z /\ z * e = e * z
    BY <2>1
  <2>4. e * z <= 2 * n
    BY <1>2 DEF z
  <2>5. d * z <= 2 * n
    <3>. DEFINE a == d * z
                b == e * z
    <3>1. a \in Int /\ b \in Int /\ a <= b /\ b <= 2 * n
      BY <2>1, <2>2, <2>3, <2>4
    <3>. HIDE DEF a, b
    <3>2. a <= 2 * n
      BY <3>1
    <3>. QED
      BY <3>2 DEF a
  <2>6. y <= RoundUp(n, d)
    BY <1>1, <2>5, RoundUpReaches DEF z
  <2>. QED
    BY <2>6 DEF y
<1>. QED
  BY <1>1, <1>3, <1>4

\* Who is ahead of a score, and who is level with it.
Ahead(s, x) == {w \in 1..Len(s) : s[w] >= 0 /\ Better(s[w], x)}
Level(s, x) == {w \in 1..Len(s) : s[w] = x}

\* By rank, a score counts for at least as much as another, of the same case
\* or of another with as many participants, if none are ahead of it, or ahead of
\* it or level with it, who are not so of the other.
LEMMA RankScoreCompare ==
    ASSUME NEW s \in Seq(Int), NEW t \in Seq(Int), Len(s) = Len(t),
           NEW u \in 1..Len(s), NEW v \in 1..Len(t), s[u] >= 0, t[v] >= 0,
           Ahead(s, s[u]) \subseteq Ahead(t, t[v]),
           Ahead(s, s[u]) \cup Level(s, s[u]) \subseteq Ahead(t, t[v]) \cup Level(t, t[v])
    PROVE  RankScore(t, t[v]) <= RankScore(s, s[u])
<1>. DEFINE N == Len(s)
            A == Ahead(s, s[u])
            B == Ahead(t, t[v])
            T == Level(s, s[u])
            U == Level(t, t[v])
<1>1. N \in Nat /\ N > 0 /\ Len(t) = N
  OBVIOUS
<1>2. /\ A \in SUBSET (1..N) /\ B \in SUBSET (1..N) /\ T \in SUBSET (1..N) /\ U \in SUBSET (1..N)
      /\ A \cap T = {} /\ B \cap U = {}
  BY <1>1 DEF Ahead, Level, Better
<1>3. A \subseteq B /\ A \cup T \subseteq B \cup U
  OBVIOUS
<1>4. /\ RankScore(s, s[u]) = Round(MaxScore * (2 * (N - Cardinality(A)) - (Cardinality(T) - 1)), 2 * N)
      /\ RankScore(t, t[v]) = Round(MaxScore * (2 * (N - Cardinality(B)) - (Cardinality(U) - 1)), 2 * N)
  BY <1>1 DEF RankScore, Ahead, Level
<1>. HIDE DEF A, B, T, U, N
<1>5. IsFiniteSet(1..N)
  BY <1>1, FS_Interval
<1>6. IsFiniteSet(A) /\ IsFiniteSet(B) /\ IsFiniteSet(T) /\ IsFiniteSet(U)
  BY <1>2, <1>5, FS_Subset
<1>. DEFINE a == Cardinality(A)
            b == Cardinality(B)
            x == Cardinality(T)
            y == Cardinality(U)
<1>7. a \in Nat /\ b \in Nat /\ x \in Nat /\ y \in Nat
  BY <1>6, FS_CardinalityType
<1>8. Cardinality(A \cup T) = a + x
  <2>1. Cardinality(A \cup T) = a + x - Cardinality(A \cap T)
    BY <1>6, FS_Union
  <2>2. Cardinality(A \cap T) = 0
    BY <1>2, FS_EmptySet
  <2>. QED
    BY <1>7, <2>1, <2>2
<1>9. Cardinality(B \cup U) = b + y
  <2>1. Cardinality(B \cup U) = b + y - Cardinality(B \cap U)
    BY <1>6, FS_Union
  <2>2. Cardinality(B \cap U) = 0
    BY <1>2, FS_EmptySet
  <2>. QED
    BY <1>7, <2>1, <2>2
<1>10. a <= b
  BY <1>3, <1>6, FS_Subset
<1>11. a + x <= b + y
  <2>1. IsFiniteSet(B \cup U)
    BY <1>6, FS_Union
  <2>2. Cardinality(A \cup T) <= Cardinality(B \cup U)
    BY <1>3, <2>1, FS_Subset
  <2>. QED
    BY <1>8, <1>9, <2>2
<1>. DEFINE n == 2 * (N - b) - (y - 1)
            m == 2 * (N - a) - (x - 1)
<1>12. n \in Int /\ m \in Int /\ n <= m
  <2>. HIDE DEF a, b, x, y
  <2>. QED
    BY <1>1, <1>7, <1>10, <1>11
<1>13. RankScore(s, s[u]) = Round(MaxScore * m, 2 * N) /\ RankScore(t, t[v]) = Round(MaxScore * n, 2 * N)
  BY <1>4
<1>. HIDE DEF n, m
<1>14. MaxScore \in Nat /\ 2 * N \in Nat \ {0}
  BY <1>1, StandingsAssumption
<1>15. MaxScore * n <= MaxScore * m /\ MaxScore * n \in Int /\ MaxScore * m \in Int
  BY <1>12, <1>14, TimesMonotone
<1>. QED
  BY <1>13, <1>14, <1>15, RoundMonotone

\* Better is a strict order of the scores, and a total one.
LEMMA BetterOrder ==
    ASSUME NEW a \in Int, NEW b \in Int, NEW c \in Int, ~Better(a, b)
    PROVE  /\ Better(a, c) => Better(b, c)
           /\ Better(c, b) => Better(c, a)
           /\ ~Better(b, c) => ~Better(a, c)
           /\ ~Better(b, a) => a = b
  BY DEF Better

\* Within a case a better score counts for more, and none for more than the
\* maximum.
LEMMA RankScoreOrder ==
    ASSUME NEW s \in Seq(Int), NEW u \in 1..Len(s), NEW v \in 1..Len(s), s[u] >= 0, s[v] >= 0,
           ~Better(s[v], s[u])
    PROVE  RankScore(s, s[v]) <= RankScore(s, s[u])
<1>1. \A w \in 1..Len(s) : s[w] \in Int
  OBVIOUS
<1>2. Ahead(s, s[u]) \subseteq Ahead(s, s[v])
  BY <1>1, BetterOrder DEF Ahead
<1>3. Level(s, s[u]) \subseteq Ahead(s, s[v]) \cup Level(s, s[v])
  <2>. SUFFICES ASSUME NEW w \in 1..Len(s), s[w] = s[u]
                PROVE  w \in Ahead(s, s[v]) \cup Level(s, s[v])
    BY DEF Level
  <2>1. Better(s[w], s[v]) \/ s[w] = s[v]
    BY <1>1, BetterOrder
  <2>. QED
    BY <2>1 DEF Ahead, Level
<1>. QED
  BY <1>2, <1>3, RankScoreCompare

\* By rank, nobody has more than the full score.
LEMMA RankScoreBound ==
    ASSUME NEW s \in Seq(Int), NEW u \in 1..Len(s), s[u] >= 0
    PROVE  RankScore(s, s[u]) <= MaxScore
<1>. DEFINE L == {w \in 1..Len(s) : s[w] >= 0 /\ Better(s[w], s[u])}
            T == {w \in 1..Len(s) : s[w] = s[u]}
            N == Len(s)
            l == Cardinality(L)
            t == Cardinality(T)
            num == 2 * (N - l) - (t - 1)
<1>1. N \in Nat /\ N > 0 /\ L \in SUBSET (1..N) /\ T \in SUBSET (1..N) /\ u \in T
  OBVIOUS
<1>. HIDE DEF L, T
<1>2. IsFiniteSet(1..N)
  BY <1>1, FS_Interval
<1>3. IsFiniteSet(L) /\ IsFiniteSet(T)
  BY <1>1, <1>2, FS_Subset
<1>4. l \in Nat /\ t \in Nat /\ t # 0
  BY <1>1, <1>3, FS_CardinalityType, FS_EmptySet
<1>. HIDE DEF l, t
<1>5. num \in Int /\ num <= 2 * N /\ MaxScore \in Nat /\ 2 * N \in Nat \ {0}
  BY <1>1, <1>4, StandingsAssumption
<1>. HIDE DEF num
<1>6. MaxScore * num <= MaxScore * (2 * N)
  BY <1>5, TimesMonotone
<1>7. MaxScore * (2 * N) = (2 * N) * MaxScore /\ MaxScore * num \in Int /\ (2 * N) * MaxScore \in Int
  BY <1>5
<1>8. Round((2 * N) * MaxScore, 2 * N) = MaxScore
  BY <1>5, RoundExact
<1>9. Round(MaxScore * num, 2 * N) <= Round((2 * N) * MaxScore, 2 * N)
  <2>. DEFINE a == MaxScore * num
              b == (2 * N) * MaxScore
              d == 2 * N
  <2>1. a \in Int /\ b \in Int /\ a <= b /\ d \in Nat \ {0}
    BY <1>5, <1>6, <1>7
  <2>. HIDE DEF a, b, d
  <2>2. Round(a, d) <= Round(b, d)
    BY <2>1, RoundMonotone
  <2>. QED
    BY <2>2 DEF a, b, d
<1>10. RankScore(s, s[u]) = Round(MaxScore * num, 2 * N)
  BY DEF RankScore, num, l, t, L, T
<1>. QED
  BY <1>8, <1>9, <1>10

\* In a case that does not raise, a score at least as good counts for at
\* least as much, and none for more than the maximum.
LEMMA RelativeScoreOrder ==
    ASSUME NEW s \in Seq(CaseScores \cup {Rejected}),
           contest \in Contests, contest.kind # "absolute",
           ~CaseRaises(s), NEW best \in BestScores(s),
           NEW u \in 1..Len(s), NEW v \in 1..Len(s),
           s[v] >= 0 => s[u] >= 0 /\ ~Better(s[v], s[u])
    PROVE  RelativeScore(s, best, s[v]) <= RelativeScore(s, best, s[u])
<1>1. CaseScores \subseteq Nat /\ MaxScore \in Nat \ {0}
  BY StandingsAssumption
<1>2. s \in Seq(Int) /\ \A w \in 1..Len(s) : s[w] \in CaseScores \cup {Rejected}
  <2>1. CaseScores \cup {Rejected} \subseteq Int
    BY <1>1 DEF Rejected
  <2>. QED
    BY <2>1, SeqMonotonic, ElementOfSeq
<1>3. s[u] \in Int /\ s[v] \in Int
  BY <1>2, ElementOfSeq
<1>4. CASE s[v] < 0
  <2>1. RelativeScore(s, best, s[v]) = 0
    BY <1>4 DEF RelativeScore
  <2>2. RelativeScore(s, best, s[u]) \in Nat
    BY RelativeScoreType
  <2>. QED
    BY <2>1, <2>2
<1>5. CASE s[v] >= 0
  <2>. DEFINE a == s[u]
              b == s[v]
  <2>1. a \in Nat /\ b \in Nat /\ ~Better(b, a)
    BY <1>3, <1>5
  <2>2. a \in Accepted(s) /\ b \in Accepted(s)
    BY <1>3, <1>5 DEF Accepted
  <2>3. best \in Accepted(s) /\ \A c \in Accepted(s) : c \in Nat /\ ~Better(c, best)
    <3>1. \A c \in Accepted(s) : c \in Nat
      BY <1>1, <1>2 DEF Accepted, Rejected
    <3>. QED
      BY <2>2, <3>1 DEF BestScores
  <2>4. MaxScore * a \in Nat /\ MaxScore * b \in Nat /\ MaxScore * best \in Nat
    BY <1>1, <2>1, <2>3
  <2>5. CASE contest.kind = "max"
    <3>1. best \in Nat \ {0}
      <4>1. \E c \in Accepted(s) : c # 0
        BY <2>2, <2>5 DEF CaseRaises
      <4>. QED
        BY <2>3, <2>5, <4>1 DEF Better, LessIsBetter
    <3>2. MaxScore * b <= MaxScore * a
      <4>1. b <= a
        BY <2>1, <2>5 DEF Better, LessIsBetter
      <4>. HIDE DEF a, b
      <4>. QED
        BY <1>1, <2>1, <4>1, TimesMonotone
    <3>. HIDE DEF a, b
    <3>3. RoundUp(MaxScore * b, best) <= RoundUp(MaxScore * a, best)
      BY <2>4, <3>1, <3>2, RoundMonotone
    <3>4. /\ RelativeScore(s, best, a) = RoundUp(MaxScore * a, best)
          /\ RelativeScore(s, best, b) = RoundUp(MaxScore * b, best)
      BY <2>1, <2>5 DEF RelativeScore
    <3>. QED
      BY <3>3, <3>4 DEF a, b
  <2>6. CASE contest.kind = "min"
    <3>1. a \in Nat \ {0} /\ b \in Nat \ {0} /\ a <= b
      <4>1. a # 0 /\ b # 0
        BY <2>2, <2>6 DEF CaseRaises
      <4>2. a <= b
        BY <2>1, <2>6 DEF Better, LessIsBetter
      <4>. QED
        BY <2>1, <4>1, <4>2
    <3>. HIDE DEF a, b
    <3>2. RoundUp(MaxScore * best, b) <= RoundUp(MaxScore * best, a)
      BY <2>4, <3>1, RoundUpDenominator
    <3>3. /\ RelativeScore(s, best, a) = RoundUp(MaxScore * best, a)
          /\ RelativeScore(s, best, b) = RoundUp(MaxScore * best, b)
      BY <2>1, <2>6 DEF RelativeScore
    <3>. QED
      BY <3>2, <3>3 DEF a, b
  <2>7. CASE contest.kind \notin {"max", "min"}
    <3>1. RankScore(s, b) <= RankScore(s, a)
      BY <1>2, <2>1, RankScoreOrder
    <3>2. /\ RelativeScore(s, best, a) = RankScore(s, a)
          /\ RelativeScore(s, best, b) = RankScore(s, b)
      BY <2>1, <2>7 DEF RelativeScore
    <3>. QED
      BY <3>1, <3>2
  <2>. QED
    BY <2>5, <2>6, <2>7
<1>. QED
  BY <1>3, <1>4, <1>5

\* Nobody has more than the full score of a case, by whichever kind.
LEMMA RelativeScoreBound ==
    ASSUME NEW s \in Seq(CaseScores \cup {Rejected}),
           contest \in Contests, contest.kind # "absolute",
           ~CaseRaises(s), NEW best \in BestScores(s),
           NEW u \in 1..Len(s)
    PROVE  RelativeScore(s, best, s[u]) <= MaxScore
<1>1. CaseScores \subseteq Nat /\ MaxScore \in Nat \ {0}
  BY StandingsAssumption
<1>2. s \in Seq(Int) /\ \A w \in 1..Len(s) : s[w] \in CaseScores \cup {Rejected}
  <2>1. CaseScores \cup {Rejected} \subseteq Int
    BY <1>1 DEF Rejected
  <2>. QED
    BY <2>1, SeqMonotonic, ElementOfSeq
<1>. DEFINE a == s[u]
<1>3. a \in Int
  BY <1>2, ElementOfSeq
<1>4. CASE a < 0
  BY <1>1, <1>4 DEF RelativeScore
<1>5. CASE a >= 0
  <2>1. a \in Nat /\ a \in Accepted(s)
    BY <1>3, <1>5 DEF Accepted
  <2>2. best \in Accepted(s) /\ \A c \in Accepted(s) : c \in Nat /\ ~Better(c, best)
    <3>1. \A c \in Accepted(s) : c \in Nat
      BY <1>1, <1>2 DEF Accepted, Rejected
    <3>. QED
      BY <2>1, <3>1 DEF BestScores
  <2>3. /\ MaxScore * a \in Nat /\ MaxScore * best \in Nat /\ a \in Nat /\ best \in Nat
        /\ MaxScore * a = a * MaxScore /\ MaxScore * best = best * MaxScore
    BY <1>1, <2>1, <2>2
  <2>4. CASE contest.kind = "max"
    <3>1. best \in Nat \ {0}
      <4>1. \E c \in Accepted(s) : c # 0
        BY <2>1, <2>4 DEF CaseRaises
      <4>. QED
        BY <2>2, <2>4, <4>1 DEF Better, LessIsBetter
    <3>2. a <= best
      BY <2>1, <2>2, <2>4 DEF Better, LessIsBetter
    <3>. HIDE DEF a
    <3>3. MaxScore * a <= MaxScore * best
      BY <1>1, <2>3, <3>2, TimesMonotone
    <3>4. RoundUp(MaxScore * a, best) <= RoundUp(MaxScore * best, best)
      BY <2>3, <3>1, <3>3, RoundMonotone
    <3>5. RoundUp(MaxScore * best, best) = MaxScore
      BY <1>1, <2>3, <3>1, RoundExact
    <3>6. RelativeScore(s, best, a) = RoundUp(MaxScore * a, best)
      BY <2>1, <2>4 DEF RelativeScore
    <3>. QED
      BY <3>4, <3>5, <3>6 DEF a
  <2>5. CASE contest.kind = "min"
    <3>1. a \in Nat \ {0}
      BY <2>1, <2>5 DEF CaseRaises
    <3>2. best <= a
      BY <2>1, <2>2, <2>5 DEF Better, LessIsBetter
    <3>. HIDE DEF a
    <3>3. MaxScore * best <= MaxScore * a
      BY <1>1, <2>3, <3>2, TimesMonotone
    <3>4. RoundUp(MaxScore * best, a) <= RoundUp(MaxScore * a, a)
      BY <2>3, <3>1, <3>3, RoundMonotone
    <3>5. RoundUp(MaxScore * a, a) = MaxScore
      BY <1>1, <2>3, <3>1, RoundExact
    <3>6. RelativeScore(s, best, a) = RoundUp(MaxScore * best, a)
      BY <2>1, <2>5 DEF RelativeScore
    <3>. QED
      BY <3>4, <3>5, <3>6 DEF a
  <2>6. CASE contest.kind \notin {"max", "min"}
    <3>1. RankScore(s, a) <= MaxScore
      BY <1>2, <1>5, RankScoreBound
    <3>2. RelativeScore(s, best, a) = RankScore(s, a)
      BY <2>1, <2>6 DEF RelativeScore
    <3>. QED
      BY <3>1, <3>2
  <2>. QED
    BY <2>4, <2>5, <2>6
<1>. QED
  BY <1>3, <1>4, <1>5

-----------------------------------------------------------------------------
(* A case that two new participants could have joined.                     *)

\* Case s is case t but for the last participant, whose score there is at
\* least as good.
Improved(s, t) ==
    LET N == Len(s)
    IN  /\ s \in Seq(CaseScores \cup {Rejected}) /\ t \in Seq(CaseScores \cup {Rejected})
        /\ N \in Nat \ {0} /\ Len(t) = N
        /\ \A w \in 1..(N - 1) : s[w] = t[w]
        /\ t[N] >= 0 => s[N] >= 0 /\ ~Better(t[N], s[N])

\* The scores of a case, and those accepted among them.
LEMMA ScoresFacts ==
    ASSUME NEW s \in Seq(CaseScores \cup {Rejected})
    PROVE  /\ s \in Seq(Int)
           /\ \A w \in 1..Len(s) : s[w] \in CaseScores \cup {Rejected} /\ s[w] \in Int
           /\ \A a \in Accepted(s) : a \in Nat /\ \E w \in 1..Len(s) : s[w] = a
           /\ \A w \in 1..Len(s) : s[w] >= 0 => s[w] \in Accepted(s)
<1>1. CaseScores \subseteq Nat
  BY StandingsAssumption
<1>2. CaseScores \cup {Rejected} \subseteq Int
  BY <1>1 DEF Rejected
<1>3. s \in Seq(Int) /\ \A w \in 1..Len(s) : s[w] \in CaseScores \cup {Rejected} /\ s[w] \in Int
  BY <1>2, SeqMonotonic, ElementOfSeq
<1>4. \A w \in 1..Len(s) : s[w] >= 0 => s[w] \in Nat
  BY <1>3
<1>5. \A w \in 1..Len(s) : s[w] >= 0 => s[w] \in Accepted(s)
  BY DEF Accepted
<1>6. \A a \in Accepted(s) : a \in Nat /\ \E w \in 1..Len(s) : s[w] = a
  BY <1>4 DEF Accepted
<1>. QED
  BY <1>3, <1>5, <1>6

\* The best score is at least as good, and better only if it is that of the
\* last participant.
LEMMA BestImproves ==
    ASSUME NEW s, NEW t, Improved(s, t), NEW best \in BestScores(s), NEW worst \in BestScores(t),
           Accepted(t) # {}
    PROVE  /\ best \in Accepted(s) /\ worst \in Accepted(t)
           /\ ~Better(worst, best)
           /\ best # worst => best = s[Len(s)]
<1>. DEFINE N == Len(s)
<1>1. /\ s \in Seq(CaseScores \cup {Rejected}) /\ t \in Seq(CaseScores \cup {Rejected})
      /\ N \in Nat \ {0} /\ Len(t) = N
      /\ \A w \in 1..(N - 1) : s[w] = t[w]
      /\ t[N] >= 0 => s[N] >= 0 /\ ~Better(t[N], s[N])
  BY DEF Improved
<1>. HIDE DEF N
<1>2. worst \in Accepted(t) /\ \A a \in Accepted(t) : ~Better(a, worst)
  BY DEF BestScores
<1>3. PICK v \in 1..N : t[v] = worst /\ worst \in Nat
  BY <1>1, <1>2, ScoresFacts
<1>4. \E w \in 1..N : s[w] >= 0 /\ ~Better(worst, s[w])
  <2>1. CASE v = N
    BY <1>1, <1>3, <2>1
  <2>2. CASE v # N
    <3>1. v \in 1..(N - 1)
      BY <1>1, <2>2
    <3>2. s[v] = worst
      BY <1>1, <1>3, <3>1
    <3>. QED
      BY <1>3, <3>2 DEF Better
  <2>. QED
    BY <2>1, <2>2
<1>5. PICK w \in 1..N : s[w] >= 0 /\ ~Better(worst, s[w])
  BY <1>4
<1>6. s[w] \in Accepted(s) /\ s[w] \in Int
  BY <1>1, <1>5, ScoresFacts DEF N
<1>7. best \in Accepted(s) /\ \A a \in Accepted(s) : ~Better(a, best)
  BY <1>6 DEF BestScores
<1>8. best \in Nat /\ ~Better(s[w], best)
  BY <1>1, <1>6, <1>7, ScoresFacts
<1>9. ~Better(worst, best)
  BY <1>3, <1>5, <1>6, <1>8 DEF Better
<1>10. ASSUME best # worst PROVE best = s[N]
  <2>1. PICK x \in 1..N : s[x] = best
    BY <1>1, <1>7, ScoresFacts DEF N
  <2>2. ASSUME x # N PROVE FALSE
    <3>1. x \in 1..(N - 1)
      BY <1>1, <2>2
    <3>2. t[x] = best
      BY <1>1, <2>1, <3>1
    <3>3. best \in Accepted(t)
      BY <1>1, <1>8, <3>2, ScoresFacts
    <3>4. ~Better(best, worst)
      BY <1>2, <3>3
    <3>. QED
      BY <1>3, <1>8, <1>9, <1>10, <3>4, BetterOrder
  <2>. QED
    BY <2>1, <2>2
<1>. QED
  BY <1>2, <1>7, <1>9, <1>10 DEF N

\* The best score of a case that does not raise can be divided by.
LEMMA BestPositive ==
    ASSUME NEW s \in Seq(CaseScores \cup {Rejected}), ~CaseRaises(s), Accepted(s) # {},
           NEW best \in BestScores(s)
    PROVE  /\ best \in Nat
           /\ contest.kind = "max" => best # 0
           /\ contest.kind = "min" => \A a \in Accepted(s) : a # 0
<1>1. best \in Accepted(s) /\ \A a \in Accepted(s) : ~Better(a, best) /\ a \in Nat
  BY ScoresFacts DEF BestScores
<1>2. ASSUME contest.kind = "max" PROVE best # 0
  <2>1. PICK a \in Accepted(s) : a # 0
    BY <1>1, <1>2 DEF CaseRaises
  <2>. QED
    BY <1>1, <1>2, <2>1 DEF Better, LessIsBetter
<1>3. ASSUME contest.kind = "min" PROVE \A a \in Accepted(s) : a # 0
  BY <1>3 DEF CaseRaises
<1>. QED
  BY <1>1, <1>2, <1>3

\* The better score counts for at least as much.
LEMMA OwnImproves ==
    ASSUME contest \in Contests, contest.kind # "absolute",
           NEW s, NEW t, Improved(s, t), ~CaseRaises(s), ~CaseRaises(t),
           NEW best \in BestScores(s), NEW worst \in BestScores(t)
    PROVE  RelativeScore(t, worst, t[Len(s)]) <= RelativeScore(s, best, s[Len(s)])
<1>. DEFINE N == Len(s)
            a == s[N]
            b == t[N]
<1>1. /\ s \in Seq(CaseScores \cup {Rejected}) /\ t \in Seq(CaseScores \cup {Rejected})
      /\ N \in Nat \ {0} /\ Len(t) = N
      /\ \A w \in 1..(N - 1) : s[w] = t[w]
      /\ b >= 0 => a >= 0 /\ ~Better(b, a)
  BY DEF Improved
<1>2. N \in 1..Len(s) /\ N \in 1..Len(t) /\ a \in Int /\ b \in Int
      /\ s \in Seq(Int) /\ t \in Seq(Int)
  BY <1>1, ScoresFacts
<1>3. RelativeScore(s, best, a) \in Nat
  BY <1>1, <1>2, RelativeScoreType
<1>4. CASE b < 0
  <2>1. RelativeScore(t, worst, b) = 0
    BY <1>4 DEF RelativeScore
  <2>. QED
    BY <1>3, <2>1
<1>5. CASE b >= 0
  <2>1. a >= 0 /\ ~Better(b, a) /\ a \in Nat /\ b \in Nat
    BY <1>1, <1>2, <1>5
  <2>2. a \in Accepted(s) /\ b \in Accepted(t)
    BY <1>1, <1>2, <2>1, ScoresFacts
  <2>3. ~Better(worst, best) /\ (best # worst => best = a)
    BY <2>2, BestImproves
  <2>4. /\ best \in Nat /\ (contest.kind = "max" => best # 0)
        /\ contest.kind = "min" => a # 0
    BY <1>1, <2>2, BestPositive
  <2>5. /\ worst \in Nat /\ (contest.kind = "max" => worst # 0)
        /\ contest.kind = "min" => b # 0
    BY <1>1, <2>2, BestPositive
  <2>6. RelativeScore(t, worst, b) <= MaxScore
    BY <1>1, <1>2, RelativeScoreBound
  <2>7. MaxScore \in Nat
    BY StandingsAssumption
  <2>. HIDE DEF a, b, N
  <2>8. ASSUME contest.kind = "max"
        PROVE RelativeScore(t, worst, b) <= RelativeScore(s, best, a)
    <3>1. /\ RelativeScore(s, best, a) = RoundUp(MaxScore * a, best)
          /\ RelativeScore(t, worst, b) = RoundUp(MaxScore * b, worst)
      BY <2>1, <2>8 DEF RelativeScore
    <3>2. ASSUME best = a
          PROVE RelativeScore(t, worst, b) <= RelativeScore(s, best, a)
      <4>1. RoundUp(MaxScore * a, a) = MaxScore
        <5>1. a \in Nat \ {0} /\ MaxScore * a = a * MaxScore
          BY <2>4, <2>7, <2>8, <3>2
        <5>. QED
          BY <2>7, <5>1, RoundExact
      <4>. QED
        BY <2>6, <3>1, <3>2, <4>1
    <3>3. ASSUME best # a
          PROVE RelativeScore(t, worst, b) <= RelativeScore(s, best, a)
      <4>1. best = worst /\ b <= a
        BY <2>1, <2>3, <2>8, <3>3 DEF Better, LessIsBetter
      <4>2. MaxScore * b <= MaxScore * a /\ MaxScore * b \in Int /\ MaxScore * a \in Int
        BY <2>1, <2>7, <4>1, TimesMonotone
      <4>3. best \in Nat \ {0}
        BY <2>4, <2>8
      <4>. QED
        BY <3>1, <4>1, <4>2, <4>3, RoundMonotone
    <3>. QED
      BY <3>2, <3>3
  <2>9. ASSUME contest.kind = "min"
        PROVE RelativeScore(t, worst, b) <= RelativeScore(s, best, a)
    <3>1. /\ RelativeScore(s, best, a) = RoundUp(MaxScore * best, a)
          /\ RelativeScore(t, worst, b) = RoundUp(MaxScore * worst, b)
      BY <2>1, <2>9 DEF RelativeScore
    <3>2. a \in Nat \ {0} /\ b \in Nat \ {0} /\ a <= b
      BY <2>1, <2>4, <2>5, <2>9 DEF Better, LessIsBetter
    <3>3. ASSUME best = a
          PROVE RelativeScore(t, worst, b) <= RelativeScore(s, best, a)
      <4>1. RoundUp(MaxScore * a, a) = MaxScore
        <5>1. MaxScore * a = a * MaxScore
          BY <2>7, <3>2
        <5>. QED
          BY <2>7, <3>2, <5>1, RoundExact
      <4>. QED
        BY <2>6, <3>1, <3>3, <4>1
    <3>4. ASSUME best # a
          PROVE RelativeScore(t, worst, b) <= RelativeScore(s, best, a)
      <4>1. best = worst
        BY <2>3, <3>4
      <4>2. MaxScore * best \in Nat
        BY <2>4, <2>7
      <4>. QED
        BY <3>1, <3>2, <4>1, <4>2, RoundUpDenominator
    <3>. QED
      BY <3>3, <3>4
  <2>10. ASSUME contest.kind \notin {"max", "min"}
        PROVE RelativeScore(t, worst, b) <= RelativeScore(s, best, a)
    <3>1. /\ RelativeScore(s, best, a) = RankScore(s, a)
          /\ RelativeScore(t, worst, b) = RankScore(t, b)
      BY <2>1, <2>10 DEF RelativeScore
    <3>2. \A w \in 1..N : s[w] \in Int /\ t[w] \in Int
      BY <1>1, ScoresFacts DEF N
    <3>3. ASSUME NEW w \in 1..N, s[w] >= 0, ~Better(a, s[w])
          PROVE  /\ Better(t[w], b) \/ t[w] = b
                 /\ t[w] >= 0
                 /\ Better(s[w], a) => Better(t[w], b)
      <4>1. CASE w = N
        BY <1>5, <3>2, <4>1 DEF a, b, Better
      <4>2. CASE w # N
        <5>1. t[w] = s[w]
          BY <1>1, <4>2
        <5>2. ~Better(b, t[w])
          BY <2>1, <3>2, <3>3, <5>1 DEF Better
        <5>3. Better(s[w], a) => Better(t[w], b)
          BY <2>1, <3>2, <5>1 DEF Better
        <5>. QED
          BY <2>1, <3>2, <3>3, <5>1, <5>2, <5>3, BetterOrder
      <4>. QED
        BY <4>1, <4>2
    <3>4. \A w \in 1..N : Better(s[w], a) \/ s[w] = a => ~Better(a, s[w])
      BY <2>1, <3>2 DEF Better
    <3>5. Ahead(s, a) \subseteq Ahead(t, b)
      BY <1>1, <3>3, <3>4 DEF Ahead, N
    <3>6. Level(s, a) \subseteq Ahead(t, b) \cup Level(t, b)
      BY <1>1, <2>1, <3>3, <3>4 DEF Ahead, Level, N
    <3>7. RankScore(t, t[N]) <= RankScore(s, s[N])
      BY <1>1, <1>2, <1>5, <2>1, <3>5, <3>6, RankScoreCompare DEF a, b, N
    <3>. QED
      BY <3>1, <3>7 DEF a, b
  <2>. QED
    BY <2>8, <2>9, <2>10 DEF a, b, N
<1>. QED
  BY <1>2, <1>4, <1>5

\* The others count for no more beside it.
LEMMA OthersLose ==
    ASSUME contest \in Contests, contest.kind # "absolute",
           NEW s, NEW t, Improved(s, t), ~CaseRaises(s), ~CaseRaises(t),
           NEW best \in BestScores(s), NEW worst \in BestScores(t),
           NEW p \in 1..(Len(s) - 1)
    PROVE  RelativeScore(s, best, s[p]) <= RelativeScore(t, worst, t[p])
<1>. DEFINE N == Len(s)
            a == s[p]
<1>1. /\ s \in Seq(CaseScores \cup {Rejected}) /\ t \in Seq(CaseScores \cup {Rejected})
      /\ N \in Nat \ {0} /\ Len(t) = N
      /\ \A w \in 1..(N - 1) : s[w] = t[w]
      /\ t[N] >= 0 => s[N] >= 0 /\ ~Better(t[N], s[N])
  BY DEF Improved
<1>2. p \in 1..N /\ p # N /\ t[p] = a /\ p \in 1..Len(s) /\ p \in 1..Len(t)
  BY <1>1
<1>3. a \in Int /\ s \in Seq(Int) /\ t \in Seq(Int) /\ \A w \in 1..N : s[w] \in Int /\ t[w] \in Int
  BY <1>1, <1>2, ScoresFacts
<1>4. CASE a < 0
  BY <1>2, <1>4 DEF RelativeScore
<1>5. CASE a >= 0
  <2>1. a \in Nat /\ a \in Accepted(s) /\ a \in Accepted(t)
    BY <1>1, <1>2, <1>3, <1>5, ScoresFacts
  <2>2. ~Better(worst, best)
    BY <2>1, BestImproves
  <2>3. /\ best \in Nat /\ (contest.kind = "max" => best # 0)
        /\ contest.kind = "min" => a # 0
    BY <1>1, <2>1, BestPositive
  <2>4. worst \in Nat /\ (contest.kind = "max" => worst # 0)
    BY <1>1, <2>1, BestPositive
  <2>5. MaxScore \in Nat
    BY StandingsAssumption
  <2>. HIDE DEF a, N
  <2>6. ASSUME contest.kind = "max"
        PROVE RelativeScore(s, best, a) <= RelativeScore(t, worst, a)
    <3>1. /\ RelativeScore(s, best, a) = RoundUp(MaxScore * a, best)
          /\ RelativeScore(t, worst, a) = RoundUp(MaxScore * a, worst)
      BY <2>1, <2>6 DEF RelativeScore
    <3>2. best \in Nat \ {0} /\ worst \in Nat \ {0} /\ worst <= best
      BY <2>2, <2>3, <2>4, <2>6 DEF Better, LessIsBetter
    <3>3. MaxScore * a \in Nat
      BY <2>1, <2>5
    <3>. QED
      BY <3>1, <3>2, <3>3, RoundUpDenominator
  <2>7. ASSUME contest.kind = "min"
        PROVE RelativeScore(s, best, a) <= RelativeScore(t, worst, a)
    <3>1. /\ RelativeScore(s, best, a) = RoundUp(MaxScore * best, a)
          /\ RelativeScore(t, worst, a) = RoundUp(MaxScore * worst, a)
      BY <2>1, <2>7 DEF RelativeScore
    <3>2. a \in Nat \ {0} /\ best <= worst
      BY <2>1, <2>2, <2>3, <2>4, <2>7 DEF Better, LessIsBetter
    <3>3. MaxScore * best <= MaxScore * worst /\ MaxScore * best \in Int /\ MaxScore * worst \in Int
      BY <2>3, <2>4, <2>5, <3>2, TimesMonotone
    <3>. QED
      BY <3>1, <3>2, <3>3, RoundMonotone
  <2>8. ASSUME contest.kind \notin {"max", "min"}
        PROVE RelativeScore(s, best, a) <= RelativeScore(t, worst, a)
    <3>1. /\ RelativeScore(s, best, a) = RankScore(s, a)
          /\ RelativeScore(t, worst, a) = RankScore(t, a)
      BY <2>1, <2>8 DEF RelativeScore
    <3>2. ASSUME NEW w \in 1..N, t[w] >= 0
          PROVE  /\ s[w] >= 0
                 /\ Better(t[w], a) => Better(s[w], a)
                 /\ t[w] = a => Better(s[w], a) \/ s[w] = a
      <4>1. CASE w = N
        <5>1. s[w] >= 0 /\ ~Better(t[w], s[w])
          BY <1>1, <3>2, <4>1
        <5>. QED
          BY <1>3, <2>1, <5>1 DEF Better
      <4>2. CASE w # N
        <5>1. t[w] = s[w]
          BY <1>1, <4>2
        <5>. QED
          BY <3>2, <5>1
      <4>. QED
        BY <4>1, <4>2
    <3>3. Ahead(t, a) \subseteq Ahead(s, a)
      BY <1>1, <3>2 DEF Ahead, N
    <3>4. Level(t, a) \subseteq Ahead(s, a) \cup Level(s, a)
      BY <1>1, <2>1, <3>2 DEF Ahead, Level, N
    <3>5. RankScore(s, s[p]) <= RankScore(t, t[p])
      BY <1>1, <1>2, <1>3, <1>5, <3>3, <3>4, RankScoreCompare DEF a, N
    <3>. QED
      BY <1>2, <3>1, <3>5 DEF a
  <2>. QED
    BY <1>2, <2>6, <2>7, <2>8 DEF a
<1>. QED
  BY <1>3, <1>4, <1>5

-----------------------------------------------------------------------------
(* The sums of the recalculation.                                          *)

\* A verdict, as the score it is passed on as.
LEMMA NoWorseMeans ==
    ASSUME NEW v \in Verdicts, NEW a \in CaseScores \cup {Rejected},
           NEW n, n = IF v < 0 THEN Rejected ELSE v
    PROVE  /\ NoWorse(a, v) => (n >= 0 => a >= 0 /\ ~Better(n, a))
           /\ NoWorse(v, a) => (a >= 0 => n >= 0 /\ ~Better(a, n))
<1>1. CaseScores \subseteq Nat
  BY StandingsAssumption
<1>2. v \in Int /\ (v >= 0 \/ v = -1 \/ v = -2)
  BY <1>1 DEF Verdicts, Rejected, Uncounted
<1>3. a \in Int /\ (a >= 0 \/ a = -1)
  BY <1>1 DEF Rejected
<1>. QED
  BY <1>2, <1>3 DEF NoWorse, Better, Rejected, Uncounted

\* A round that is at least as good for a participant as for the new one adds
\* at least as much to its sum.
LEMMA RecalculateOrder ==
    ASSUME StandingsInv, Recalculate
    PROVE  /\ contest.kind # "absolute" /\ done \in Nat /\ done' = done + 1
           /\ \E x \in Nat, y \in [Participants -> Nat] :
                 /\ own' = own + x /\ x <= MaxScore
                 /\ \A p \in Participants :
                       /\ totals'[p] = totals[p] + y[p] /\ y[p] <= MaxScore
                       /\ NoWorse(contest.cases[done + 1][p], sub[done + 1]) => y[p] >= x
                       /\ NoWorse(sub[done + 1], contest.cases[done + 1][p]) => y[p] <= x
<1>. DEFINE k == done + 1
            s == CaseOf(k)
            N == Self
<1>1. /\ contest \in Contests
      /\ contest.kind # "absolute"
      /\ sub \in [1..NumCases -> Verdicts]
      /\ NumCases \in Nat
      /\ done \in Nat
      /\ k \in 1..NumCases
  BY NumCasesType DEF StandingsInv, TypeOK, Submitted, Recalculate
<1>2. PICK best \in BestScores(s) :
         /\ own' = own + RelativeScore(s, best, NewScore(k))
         /\ totals' = [p \in Participants |-> totals[p] + RelativeScore(s, best, s[p])]
  BY DEF Recalculate
<1>3. /\ s \in Seq(CaseScores \cup {Rejected})
      /\ Len(s) = N
      /\ s[N] = NewScore(k) /\ NewScore(k) \in CaseScores \cup {Rejected}
      /\ \A p \in Participants : s[p] = contest.cases[k][p]
  BY <1>1, CaseOfFacts
<1>4. ~CaseRaises(s) /\ done' = k
  BY DEF Recalculate
<1>5. N \in Nat /\ N > 1 /\ Participants = 1..(N - 1)
  BY <1>1, CasesFacts
<1>6. sub[k] \in Verdicts
  BY <1>1
<1>7. NewScore(k) = IF sub[k] < 0 THEN Rejected ELSE sub[k]
  BY DEF NewScore
<1>. DEFINE x == RelativeScore(s, best, s[N])
            y == [p \in Participants |-> RelativeScore(s, best, s[p])]
<1>. HIDE DEF k, s, N
<1>9. \A u \in 1..Len(s) : RelativeScore(s, best, s[u]) \in Nat
                           /\ RelativeScore(s, best, s[u]) <= MaxScore
  BY <1>1, <1>3, <1>4, RelativeScoreType, RelativeScoreBound
<1>10. N \in 1..Len(s) /\ \A p \in Participants : p \in 1..Len(s)
  BY <1>3, <1>5
<1>11. x \in Nat /\ x <= MaxScore /\ own' = own + x
  BY <1>2, <1>3, <1>9, <1>10
<1>12. y \in [Participants -> Nat] /\ \A p \in Participants : y[p] <= MaxScore
  BY <1>9, <1>10
<1>13. \A p \in Participants : totals'[p] = totals[p] + y[p]
  BY <1>2
<1>14. ASSUME NEW p \in Participants
       PROVE  /\ NoWorse(contest.cases[k][p], sub[k]) => y[p] >= x
              /\ NoWorse(sub[k], contest.cases[k][p]) => y[p] <= x
  <2>1. /\ s[p] \in CaseScores \cup {Rejected} /\ s[p] = contest.cases[k][p]
        /\ p \in 1..Len(s)
    BY <1>3, <1>10, ScoresFacts
  <2>2. ASSUME NoWorse(s[p], sub[k])
        PROVE  s[N] >= 0 => s[p] >= 0 /\ ~Better(s[N], s[p])
    BY <1>3, <1>6, <1>7, <2>1, <2>2, NoWorseMeans
  <2>3. ASSUME NoWorse(sub[k], s[p])
        PROVE  s[p] >= 0 => s[N] >= 0 /\ ~Better(s[p], s[N])
    BY <1>3, <1>6, <1>7, <2>1, <2>3, NoWorseMeans
  <2>4. ASSUME NoWorse(s[p], sub[k])
        PROVE  RelativeScore(s, best, s[N]) <= RelativeScore(s, best, s[p])
    BY <1>1, <1>3, <1>4, <1>10, <2>1, <2>2, <2>4, RelativeScoreOrder
  <2>5. ASSUME NoWorse(sub[k], s[p])
        PROVE  RelativeScore(s, best, s[p]) <= RelativeScore(s, best, s[N])
    BY <1>1, <1>3, <1>4, <1>10, <2>1, <2>3, <2>5, RelativeScoreOrder
  <2>6. y[p] = RelativeScore(s, best, s[p])
    OBVIOUS
  <2>7. y[p] \in Nat
    BY <1>12
  <2>. QED
    BY <1>11, <2>1, <2>4, <2>5, <2>6, <2>7
<1>. HIDE DEF x, y
<1>. QED
  BY <1>1, <1>4, <1>11, <1>12, <1>13, <1>14 DEF k

\* No step puts the sums out of order with the results.
LEMMA KeepsOrderStep ==
    ASSUME StandingsInv, RecalculationKeepsOrder, [Next]_vars
    PROVE  RecalculationKeepsOrder'
<1>1. /\ own \in Nat /\ totals \in [Participants -> Nat] /\ done \in Nat
      /\ contest' = contest /\ Participants' = Participants
  BY Frozen DEF StandingsInv, TypeOK
<1>2. MaxScore \in Nat
  BY StandingsAssumption
<1>3. CASE Recalculate
  <2>1. /\ contest.kind # "absolute" /\ done' = done + 1
    BY <1>3, RecalculateOrder
  <2>2. PICK x \in Nat, y \in [Participants -> Nat] :
           /\ own' = own + x /\ x <= MaxScore
           /\ \A p \in Participants :
                 /\ totals'[p] = totals[p] + y[p] /\ y[p] <= MaxScore
                 /\ NoWorse(contest.cases[done + 1][p], sub[done + 1]) => y[p] >= x
                 /\ NoWorse(sub[done + 1], contest.cases[done + 1][p]) => y[p] <= x
    BY <1>3, RecalculateOrder
  <2>3. sub' = sub
    BY <1>3 DEF Recalculate
  <2>. DEFINE full == done * MaxScore
              more == (done + 1) * MaxScore
  <2>4. more = full + MaxScore /\ full \in Nat /\ more \in Nat
    BY <1>1, <1>2
  <2>5. 1..done \subseteq 1..(done + 1) /\ done + 1 \in 1..(done + 1)
    BY <1>1
  <2>6. /\ own <= full
        /\ \A p \in Participants : totals[p] <= full
    BY <2>1 DEF RecalculationKeepsOrder
  <2>. HIDE DEF full, more
  <2>7. own' <= more
    BY <1>1, <1>2, <2>2, <2>4, <2>6
  <2>8. ASSUME NEW p \in Participants
        PROVE  totals'[p] <= more
    <3>1. totals[p] \in Nat /\ y[p] \in Nat
      BY <1>1
    <3>. QED
      BY <1>2, <2>2, <2>4, <2>6, <3>1
  <2>9. ASSUME NEW p \in Participants,
               \A k \in 1..(done + 1) : NoWorse(contest.cases[k][p], sub[k])
        PROVE  totals'[p] >= own'
    <3>1. totals[p] \in Nat /\ y[p] \in Nat
      BY <1>1
    <3>2. totals[p] >= own
      BY <2>1, <2>5, <2>9 DEF RecalculationKeepsOrder
    <3>3. y[p] >= x
      BY <2>2, <2>5, <2>9
    <3>. QED
      BY <1>1, <2>2, <3>1, <3>2, <3>3
  <2>10. ASSUME NEW p \in Participants,
                \A k \in 1..(done + 1) : NoWorse(sub[k], contest.cases[k][p])
         PROVE  totals'[p] <= own'
    <3>1. totals[p] \in Nat /\ y[p] \in Nat
      BY <1>1
    <3>2. totals[p] <= own
      BY <2>1, <2>5, <2>10 DEF RecalculationKeepsOrder
    <3>3. y[p] <= x
      BY <2>2, <2>5, <2>10
    <3>. QED
      BY <1>1, <2>2, <3>1, <3>2, <3>3
  <2>. QED
    BY <1>1, <2>1, <2>3, <2>7, <2>8, <2>9, <2>10
       DEF RecalculationKeepsOrder, more, NoWorse, LessIsBetter
<1>4. CASE UNCHANGED vars \/ UNCHANGED <<sub, done, own, totals>>
  BY <1>1, <1>4 DEF RecalculationKeepsOrder, NoWorse, LessIsBetter, vars
<1>5. CASE \E s \in [1..NumCases -> Verdicts] : Submit(s)
  <2>1. done = 0 /\ UNCHANGED <<done, own, totals>>
    BY <1>5 DEF Submit, StandingsInv, Submitted
  <2>2. 1..done = {}
    BY <2>1
  <2>. QED
    BY <1>1, <2>1, <2>2 DEF RecalculationKeepsOrder, NoWorse, LessIsBetter
<1>6. CASE Again
  <2>1. done' = 0 /\ own' = 0 /\ \A p \in Participants : totals'[p] = 0
    BY <1>6 DEF Again
  <2>. QED
    BY <1>1, <1>2, <2>1 DEF RecalculationKeepsOrder
<1>7. \/ Recalculate \/ Again \/ \E s \in [1..NumCases -> Verdicts] : Submit(s)
      \/ UNCHANGED vars \/ UNCHANGED <<sub, done, own, totals>>
  BY DEF Next, RecalculateRaises, RankRelative, RankLowest, RankAbsolute, Ranked, LookUp,
         BeginSearch, Narrow, Interpolate
<1>. QED
  BY <1>3, <1>4, <1>5, <1>6, <1>7

\* The recalculated scores keep the order of the results, whoever takes part and
\* however many cases there are (recalculate_relative_score).
THEOREM StandingsRecalculationKeepsOrder == Spec => []RecalculationKeepsOrder
<1>1. Init => RecalculationKeepsOrder
  <2>1. MaxScore \in Nat
    BY StandingsAssumption
  <2>. QED
    BY <2>1 DEF Init, RecalculationKeepsOrder
<1>2. StandingsInv /\ RecalculationKeepsOrder /\ [Next]_vars => RecalculationKeepsOrder'
  BY KeepsOrderStep
<1>. QED
  BY <1>1, <1>2, StandingsInvariant, PTL DEF Spec

-----------------------------------------------------------------------------
(* The map of ranks to performances, by its rows.                          *)

\* Each row has the entry of its rank, made by the last row that has the rank.
LEMMA RowHasKey ==
    ASSUME contest \in Contests, NEW i \in Rows
    PROVE  \E h \in KeyRows : i <= h /\ RowRank(h) = RowRank(i) /\ RowPerf(h) = RowPerf(i)
<1>. DEFINE peers == {j \in Rows : RowRank(j) = RowRank(i)}
<1>1. /\ LastRow \in Nat
      /\ \A j \in Rows : j \in Nat /\ j <= LastRow /\ j >= 1 /\ RowRank(j) \in Int
      /\ \A j \in Nat : j \in Rows <=> 1 <= j /\ j <= LastRow
      /\ \A j, k \in Rows : RowRank(j) = RowRank(k) => RowPerf(j) = RowPerf(k)
  BY RowsFacts
<1>2. peers \in SUBSET (1..LastRow) /\ peers # {}
  BY DEF Rows
<1>3. PICK h \in peers : \A j \in peers : j <= h
  <2>. HIDE DEF peers
  <2>. QED
    BY <1>1, <1>2, LastOf
<1>4. h \in Rows /\ RowRank(h) = RowRank(i) /\ i <= h
  BY <1>3
<1>5. ASSUME h < LastRow
      PROVE  RowRank(h) # RowRank(h + 1)
  <2>1. h \in Nat /\ h + 1 \in Rows
    BY <1>1, <1>4, <1>5
  <2>2. ASSUME RowRank(h) = RowRank(h + 1)
        PROVE  FALSE
    <3>1. h + 1 \in peers
      BY <1>4, <2>1, <2>2
    <3>2. h + 1 <= h
      BY <1>3, <3>1
    <3>. QED
      BY <2>1, <3>2
  <2>. QED
    BY <2>2
<1>6. h \in KeyRows
  BY <1>4, <1>5 DEF KeyRows, Rows, RowRank, LastRow
<1>. QED
  BY <1>1, <1>4, <1>6

\* The entries are in the order of the rows that make them, and the performances with
\* them.
LEMMA KeyOrder ==
    ASSUME contest \in Contests, NEW h \in KeyRows, NEW j \in KeyRows
    PROVE  /\ h < j <=> KeyOf(h) < KeyOf(j)
           /\ h = j <=> KeyOf(h) = KeyOf(j)
           /\ KeyOf(h) <= KeyOf(j) => RowPerf(h) >= RowPerf(j)
<1>1. \A k \in KeyRows : /\ k \in Rows /\ k \in Nat /\ KeyOf(k) \in Int
                         /\ RowRank(k) \in Int /\ 2 * RowRank(k) <= KeyOf(k)
  BY RowsFacts, KeyRowFacts
<1>2. \A k, l \in KeyRows : k < l => KeyOf(k) < KeyOf(l)
  <2>. SUFFICES ASSUME NEW k \in KeyRows, NEW l \in KeyRows, k < l
                PROVE  KeyOf(k) < KeyOf(l)
    OBVIOUS
  <2>1. KeyOf(k) <= 2 * RowRank(l) - 2
    BY <1>1, KeyRowFacts
  <2>2. /\ KeyOf(k) \in Int /\ KeyOf(l) \in Int /\ RowRank(l) \in Int
        /\ 2 * RowRank(l) <= KeyOf(l)
    BY <1>1
  <2>. QED
    BY <2>1, <2>2
<1>3. h < j \/ j < h \/ h = j
  BY <1>1
<1>4. h < j <=> KeyOf(h) < KeyOf(j)
  BY <1>1, <1>2, <1>3
<1>5. h = j <=> KeyOf(h) = KeyOf(j)
  BY <1>1, <1>2, <1>3
<1>6. ASSUME KeyOf(h) <= KeyOf(j)
      PROVE  RowPerf(h) >= RowPerf(j)
  <2>1. h <= j
    BY <1>1, <1>2, <1>3, <1>6
  <2>. QED
    BY <1>1, <2>1, RowsFacts
<1>. QED
  BY <1>4, <1>5, <1>6

\* What the map holds at the key of a row is the performance of the row.
LEMMA PerformanceAtKey ==
    ASSUME contest \in Contests, NEW h \in KeyRows
    PROVE  PerformanceAt(KeyOf(h)) = RowPerf(h)
<1>. DEFINE k == CHOOSE i \in KeyRows : KeyOf(i) = KeyOf(h)
<1>1. k \in KeyRows /\ KeyOf(k) = KeyOf(h)
  OBVIOUS
<1>2. k = h
  <2>. HIDE DEF k
  <2>. QED
    BY <1>1, KeyOrder
<1>. QED
  BY <1>2 DEF PerformanceAt, RowPerf

-----------------------------------------------------------------------------
(* The performance that the map gives a rank.                              *)

\* On the line from p, at 0, down to q, at d: rounding keeps it inside, and in order.
LEMMA LineOrder ==
    ASSUME NEW p \in Int, NEW q \in Int, q <= p, NEW d \in Nat \ {0},
           NEW x \in Int, NEW y \in Int, x <= y
    PROVE  /\ Round(p * d - (p - q) * x, d) \in Int
           /\ Round(p * d - (p - q) * y, d) <= Round(p * d - (p - q) * x, d)
           /\ x <= 0 => p <= Round(p * d - (p - q) * x, d)
           /\ 0 <= x => Round(p * d - (p - q) * x, d) <= p
           /\ x <= d => q <= Round(p * d - (p - q) * x, d)
<1>. DEFINE e == p - q
            a == e * x
            b == e * y
            c == e * d
            f == p * d
            g == q * d
<1>1. e \in Nat /\ a \in Int /\ b \in Int /\ c \in Int /\ f \in Int /\ g \in Int
  OBVIOUS
<1>2. a <= b
  <2>. HIDE DEF e
  <2>. QED
    BY <1>1, TimesMonotone
<1>3. x <= 0 => a <= 0
  <2>. HIDE DEF e
  <2>1. x <= 0 => e * x <= e * 0
    BY <1>1, TimesMonotone
  <2>2. e * 0 = 0
    BY <1>1
  <2>. QED
    BY <2>1, <2>2
<1>4. 0 <= x => 0 <= a
  <2>. HIDE DEF e
  <2>1. 0 <= x => e * 0 <= e * x
    BY <1>1, TimesMonotone
  <2>2. e * 0 = 0
    BY <1>1
  <2>. QED
    BY <2>1, <2>2
<1>5. x <= d => a <= c
  <2>. HIDE DEF e
  <2>. QED
    BY <1>1, TimesMonotone
<1>6. c = f - g /\ f = d * p /\ g = d * q
  OBVIOUS
<1>7. Round(f, d) = p /\ Round(g, d) = q
  BY <1>6, RoundExact
<1>. HIDE DEF a, b, c, f, g
<1>8. Round(f - a, d) \in Int
  BY <1>1, RoundInt
<1>9. Round(f - b, d) <= Round(f - a, d)
  BY <1>1, <1>2, RoundMonotone
<1>10. x <= 0 => p <= Round(f - a, d)
  BY <1>1, <1>3, <1>7, RoundMonotone
<1>11. 0 <= x => Round(f - a, d) <= p
  BY <1>1, <1>4, <1>7, RoundMonotone
<1>12. x <= d => q <= Round(f - a, d)
  BY <1>1, <1>5, <1>6, <1>7, RoundMonotone
<1>. QED
  BY <1>8, <1>9, <1>10, <1>11, <1>12 DEF a, b, f

\* Consecutive entries, of which the lower is below the rank r, and the higher above it
\* or the first of all.
Bracket(h, l, r) ==
    /\ h \in KeyRows /\ l \in KeyRows /\ h < l
    /\ \A j \in KeyRows : j <= h \/ l <= j
    /\ r < KeyOf(l)
    /\ KeyOf(h) < r \/ \A j \in KeyRows : h <= j

Line(h, l, r) ==
    Round(RowPerf(h) * (KeyOf(l) - KeyOf(h)) - (RowPerf(h) - RowPerf(l)) * (r - KeyOf(h)),
          KeyOf(l) - KeyOf(h))

\* The performance v that the map gives rank r.
Given(r, v) ==
    \/ \E h \in KeyRows : r = KeyOf(h) /\ v = RowPerf(h)
    \/ /\ \A j \in KeyRows : r # KeyOf(j)
       /\ \E h, l \in KeyRows : Bracket(h, l, r) /\ v = Line(h, l, r)

\* What is interpolated, or extrapolated above the first entry, is on its side of both
\* entries, and no better for a lower rank.
LEMMA LineFacts ==
    ASSUME contest \in Contests, NEW r \in Int, NEW h, NEW l, Bracket(h, l, r)
    PROVE  /\ Line(h, l, r) \in Int
           /\ RowPerf(l) <= Line(h, l, r)
           /\ KeyOf(h) <= r => Line(h, l, r) <= RowPerf(h)
           /\ r <= KeyOf(h) => RowPerf(h) <= Line(h, l, r)
           /\ \A u \in Int : r <= u => Line(h, l, u) <= Line(h, l, r)
<1>. DEFINE p == RowPerf(h)
            q == RowPerf(l)
            kh == KeyOf(h)
            kl == KeyOf(l)
            d == kl - kh
            x == r - kh
<1>1. h \in KeyRows /\ l \in KeyRows /\ h < l /\ r < kl
  BY DEF Bracket
<1>2. kh \in Int /\ kl \in Int /\ kh < kl /\ p \in Int /\ q \in Int /\ q <= p
  BY <1>1, KeyRowFacts, RowsFacts, KeyOrder
<1>3. Line(h, l, r) = Round(p * d - (p - q) * x, d)
  BY DEF Line
<1>4. \A u \in Int : Line(h, l, u) = Round(p * d - (p - q) * (u - kh), d)
  BY DEF Line
<1>. HIDE DEF p, q, kh, kl
<1>5. d \in Nat \ {0} /\ x \in Int /\ x <= d /\ (kh <= r => 0 <= x) /\ (r <= kh => x <= 0)
  BY <1>1, <1>2
<1>. HIDE DEF d
<1>6. ASSUME NEW u \in Int, r <= u
      PROVE  Round(p * d - (p - q) * (u - kh), d) <= Round(p * d - (p - q) * x, d)
  <2>1. u - kh \in Int /\ x <= u - kh
    BY <1>2, <1>6
  <2>. HIDE DEF x
  <2>. QED
    BY <1>2, <1>5, <2>1, LineOrder
<1>. HIDE DEF x
<1>7. /\ Round(p * d - (p - q) * x, d) \in Int
      /\ x <= 0 => p <= Round(p * d - (p - q) * x, d)
      /\ 0 <= x => Round(p * d - (p - q) * x, d) <= p
      /\ x <= d => q <= Round(p * d - (p - q) * x, d)
  <2>1. x <= x
    BY <1>5
  <2>. QED
    BY <1>2, <1>5, <2>1, LineOrder
<1>. QED
  BY <1>3, <1>4, <1>5, <1>6, <1>7 DEF p, q, kh

\* Nobody above the rank has less than it is given, nobody below has more.
LEMMA GivenBetween ==
    ASSUME contest \in Contests, NEW r \in Int, NEW v, Given(r, v), NEW j \in KeyRows
    PROVE  /\ v \in Int
           /\ r <= KeyOf(j) => v >= RowPerf(j)
           /\ KeyOf(j) <= r => v <= RowPerf(j)
<1>1. \A k \in KeyRows : /\ KeyOf(k) \in Int /\ RowPerf(k) \in Int /\ k \in Nat
  BY KeyRowFacts, RowsFacts
<1>2. CASE \E h \in KeyRows : r = KeyOf(h) /\ v = RowPerf(h)
  BY <1>1, <1>2, KeyOrder
<1>3. ASSUME NEW h \in KeyRows, NEW l \in KeyRows, Bracket(h, l, r), v = Line(h, l, r),
             r # KeyOf(j)
      PROVE  /\ v \in Int
             /\ r <= KeyOf(j) => v >= RowPerf(j)
             /\ KeyOf(j) <= r => v <= RowPerf(j)
  <2>1. /\ v \in Int /\ RowPerf(l) <= v
        /\ KeyOf(h) <= r => v <= RowPerf(h)
        /\ r <= KeyOf(h) => RowPerf(h) <= v
    BY <1>3, LineFacts
  <2>2. /\ j <= h \/ l <= j
        /\ r < KeyOf(l) /\ (KeyOf(h) < r \/ h <= j)
    BY <1>3 DEF Bracket
  <2>3. /\ j <= h => KeyOf(j) <= KeyOf(h) /\ RowPerf(h) <= RowPerf(j)
        /\ h <= j => KeyOf(h) <= KeyOf(j) /\ RowPerf(j) <= RowPerf(h)
        /\ l <= j => KeyOf(l) <= KeyOf(j) /\ RowPerf(j) <= RowPerf(l)
    BY <1>1, KeyOrder
  <2>4. ASSUME r <= KeyOf(j)
        PROVE  v >= RowPerf(j)
    <3>1. CASE l <= j
      BY <1>1, <2>1, <2>3, <3>1
    <3>2. CASE j <= h
      <4>1. r <= KeyOf(h)
        BY <1>1, <2>3, <2>4, <3>2
      <4>2. h <= j
        BY <1>1, <2>2, <4>1
      <4>. QED
        BY <1>1, <2>1, <2>3, <4>1, <4>2
    <3>. QED
      BY <2>2, <3>1, <3>2
  <2>5. ASSUME KeyOf(j) <= r
        PROVE  v <= RowPerf(j)
    <3>1. ~(l <= j)
      BY <1>1, <2>2, <2>3, <2>5
    <3>2. j <= h
      BY <2>2, <3>1
    <3>3. KeyOf(h) <= r
      <4>1. CASE h <= j
        BY <1>1, <2>5, <3>2, <4>1
      <4>2. CASE KeyOf(h) < r
        BY <1>1, <4>2
      <4>. QED
        BY <2>2, <4>1, <4>2
    <3>. QED
      BY <1>1, <2>1, <2>3, <3>2, <3>3
  <2>. QED
    BY <2>1, <2>4, <2>5
<1>. QED
  BY <1>2, <1>3 DEF Given

\* A higher rank is given at least the performance of a lower one.
LEMMA GivenOrder ==
    ASSUME contest \in Contests, NEW r \in Int, NEW u \in Int, r <= u,
           NEW v, NEW w, Given(r, v), Given(u, w)
    PROVE  v \in Int /\ w \in Int /\ w <= v
<1>1. \A k \in KeyRows : /\ KeyOf(k) \in Int /\ RowPerf(k) \in Int /\ k \in Nat
  BY KeyRowFacts, RowsFacts
<1>2. v \in Int /\ w \in Int
  BY KeyRowFacts, GivenBetween
<1>3. ASSUME NEW j \in KeyRows, r <= KeyOf(j), KeyOf(j) <= u
      PROVE  w <= v
  <2>1. v >= RowPerf(j) /\ w <= RowPerf(j)
    BY <1>3, GivenBetween
  <2>. QED
    BY <1>1, <1>2, <2>1
<1>4. ASSUME \A j \in KeyRows : KeyOf(j) < r \/ u < KeyOf(j)
      PROVE  w <= v
  <2>1. PICK h \in KeyRows, l \in KeyRows : Bracket(h, l, r) /\ v = Line(h, l, r)
    <3>1. \A j \in KeyRows : r # KeyOf(j)
      BY <1>1, <1>4
    <3>. QED
      BY <3>1 DEF Given
  <2>2. PICK g \in KeyRows, k \in KeyRows : Bracket(g, k, u) /\ w = Line(g, k, u)
    <3>1. \A j \in KeyRows : u # KeyOf(j)
      BY <1>1, <1>4
    <3>. QED
      BY <3>1 DEF Given
  <2>3. /\ h < l /\ (\A j \in KeyRows : j <= h \/ l <= j) /\ r < KeyOf(l)
        /\ KeyOf(h) < r \/ \A j \in KeyRows : h <= j
        /\ g < k /\ (\A j \in KeyRows : j <= g \/ k <= j) /\ u < KeyOf(k)
        /\ KeyOf(g) < u \/ \A j \in KeyRows : g <= j
    BY <2>1, <2>2 DEF Bracket
  <2>4. u < KeyOf(l) /\ (KeyOf(h) < r \/ u < KeyOf(h)) /\ (KeyOf(g) < r \/ u < KeyOf(g))
    BY <1>1, <1>4, <2>3
  <2>5. h <= g
    <3>1. CASE \A j \in KeyRows : h <= j
      BY <3>1
    <3>2. CASE KeyOf(h) < r
      <4>1. KeyOf(h) < KeyOf(k)
        BY <1>1, <2>3, <3>2
      <4>2. h < k
        BY <4>1, KeyOrder
      <4>. QED
        BY <1>1, <2>3, <4>2
    <3>. QED
      BY <2>3, <3>1, <3>2
  <2>6. g <= h
    <3>1. CASE \A j \in KeyRows : g <= j
      BY <3>1
    <3>2. CASE KeyOf(g) < u
      <4>1. KeyOf(g) < KeyOf(l)
        BY <1>1, <2>4, <3>2
      <4>2. g < l
        BY <4>1, KeyOrder
      <4>. QED
        BY <1>1, <2>3, <4>2
    <3>. QED
      BY <2>3, <3>1, <3>2
  <2>7. g = h /\ k = l
    BY <1>1, <2>3, <2>5, <2>6
  <2>8. Line(h, l, u) <= Line(h, l, r)
    BY <2>1, LineFacts
  <2>. QED
    BY <2>1, <2>2, <2>7, <2>8
<1>. QED
  BY <1>1, <1>2, <1>3, <1>4

\* A rank of the map is given its entry (get_performance, its first return).
LEMMA LookUpGives ==
    ASSUME StandingsInv, LookUp
    PROVE  Given(perfRank, performance')
<1>1. contest \in Contests
  BY DEF StandingsInv, TypeOK
<1>2. PICK h \in KeyRows : KeyOf(h) = perfRank
  BY DEF LookUp, Keys
<1>3. performance' = RowPerf(h)
  BY <1>1, <1>2, PerformanceAtKey DEF LookUp
<1>. QED
  BY <1>2, <1>3 DEF Given

\* The search ends at the two entries around the rank, or at the first two
\* (get_performance, after the loop).
LEMMA InterpolateGives ==
    ASSUME StandingsInv, Interpolate, pc' = "placed"
    PROVE  Given(perfRank, performance')
<1>1. /\ contest \in Contests /\ perfRank \in Int /\ keys \in SortedOf(Keys)
      /\ pc = "search" /\ win - lose <= 1
      /\ lose \in -1..Len(keys) /\ win \in 0..Len(keys) /\ lose < win
      /\ perfRank \notin Keys
      /\ lose >= 0 => Key(lose) <= perfRank
      /\ win < Len(keys) => perfRank < Key(win)
  BY DEF StandingsInv, TypeOK, Bracketed, Interpolate
<1>2. Low < Len(keys) /\ Low \in 1..(Len(keys) - 1)
  BY <1>1, SearchEnds DEF StandingsInv, Interpolate
<1>3. /\ Len(keys) \in Nat
      /\ \A i \in 1..Len(keys) : keys[i] \in Keys
      /\ \A i, j \in 1..Len(keys) : i < j => keys[i] < keys[j]
      /\ \A a \in Keys : \E i \in 1..Len(keys) : keys[i] = a
  BY <1>1, SortedFacts
<1>4. Low \in 1..Len(keys) /\ Low + 1 \in 1..Len(keys) /\ Low \in Nat
  BY <1>2, <1>3
<1>5. PICK h \in KeyRows : KeyOf(h) = keys[Low]
  BY <1>3, <1>4 DEF Keys
<1>6. PICK l \in KeyRows : KeyOf(l) = keys[Low + 1]
  BY <1>3, <1>4 DEF Keys
<1>7. \A k \in KeyRows : KeyOf(k) \in Int /\ k \in Nat
  BY <1>1, KeyRowFacts, RowsFacts
<1>8. h < l
  <2>1. KeyOf(h) < KeyOf(l)
    BY <1>3, <1>4, <1>5, <1>6
  <2>. QED
    BY <1>1, <2>1, KeyOrder
<1>9. ASSUME NEW j \in KeyRows
      PROVE  /\ j <= h \/ l <= j
             /\ Low = 1 => h <= j
  <2>1. PICK i \in 1..Len(keys) : keys[i] = KeyOf(j)
    BY <1>3 DEF Keys
  <2>2. CASE i = Low
    <3>1. j = h
      BY <1>1, <1>5, <2>1, <2>2, KeyOrder
    <3>. QED
      BY <1>7, <3>1
  <2>3. CASE i = Low + 1
    <3>1. j = l
      BY <1>1, <1>6, <2>1, <2>3, KeyOrder
    <3>. QED
      BY <1>7, <1>8, <3>1
  <2>4. CASE i < Low
    <3>1. KeyOf(j) < KeyOf(h)
      BY <1>3, <1>4, <1>5, <2>1, <2>4
    <3>2. j < h
      BY <1>1, <3>1, KeyOrder
    <3>3. Low # 1
      BY <2>4
    <3>. QED
      BY <1>7, <3>2, <3>3
  <2>5. CASE i > Low + 1
    <3>1. KeyOf(l) < KeyOf(j)
      BY <1>3, <1>4, <1>6, <2>1, <2>5
    <3>2. l < j
      BY <1>1, <3>1, KeyOrder
    <3>. QED
      BY <1>7, <1>8, <3>2
  <2>6. i = Low \/ i = Low + 1 \/ i < Low \/ i > Low + 1
    BY <1>3, <1>4
  <2>. QED
    BY <2>2, <2>3, <2>4, <2>5, <2>6
<1>10. perfRank < KeyOf(l) /\ (KeyOf(h) < perfRank \/ \A j \in KeyRows : h <= j)
  <2>1. CASE win = 0
    <3>1. Low = 1 /\ perfRank < Key(0) /\ Key(0) = keys[1]
      BY <1>1, <1>2, <1>3, <2>1 DEF Low, Key
    <3>2. perfRank < KeyOf(h) /\ KeyOf(h) < KeyOf(l)
      BY <1>1, <1>5, <1>8, <3>1, KeyOrder
    <3>. QED
      BY <1>1, <1>7, <1>9, <3>1, <3>2
  <2>2. CASE win # 0
    <3>1. Low = win /\ lose = win - 1 /\ lose >= 0 /\ win < Len(keys)
      BY <1>1, <1>2, <1>3, <2>2 DEF Low
    <3>2. Key(lose) = KeyOf(h) /\ Key(win) = KeyOf(l)
      BY <1>1, <1>5, <1>6, <3>1 DEF Key
    <3>3. KeyOf(h) <= perfRank /\ perfRank < KeyOf(l)
      BY <1>1, <3>1, <3>2
    <3>4. KeyOf(h) # perfRank
      BY <1>1 DEF Keys
    <3>. QED
      BY <1>1, <1>7, <3>3, <3>4
  <2>. QED
    BY <2>1, <2>2
<1>11. Bracket(h, l, perfRank)
  BY <1>8, <1>9, <1>10 DEF Bracket
<1>12. performance' = Line(h, l, perfRank)
  <2>1. performance' = Interpolated
    BY <1>2, <1>3 DEF Interpolate
  <2>2. Key(Low - 1) = KeyOf(h) /\ Key(Low) = KeyOf(l)
    BY <1>4, <1>5, <1>6 DEF Key
  <2>3. PerformanceAt(KeyOf(h)) = RowPerf(h) /\ PerformanceAt(KeyOf(l)) = RowPerf(l)
    BY <1>1, PerformanceAtKey
  <2>. QED
    BY <2>1, <2>2, <2>3 DEF Interpolated, Line
<1>. QED
  BY <1>1, <1>11, <1>12 DEF Given, Keys

-----------------------------------------------------------------------------
(* The rank of an absolute score.                                          *)

\* overall_absolute_score, of any result s
AbsoluteOf(s) ==
    LET accepted == {k \in 1..AbsoluteCases : s[k] >= 0}
        counted(k) == IF k \in accepted THEN s[k] ELSE 0
    IN  IF \/ \E k \in 1..AbsoluteCases : s[k] = Uncounted
           \/ ~contest.partial /\ accepted # 1..AbsoluteCases
        THEN 0 ELSE counted(1) + counted(2)

\* The verdicts as numbers.
LEMMA VerdictFacts ==
    ASSUME NEW v \in Verdicts
    PROVE  v \in Int /\ (v >= 0 \/ v = -1 \/ v = -2)
<1>1. CaseScores \subseteq Nat
  BY StandingsAssumption
<1>2. v \in CaseScores \/ v = -1 \/ v = -2
  BY DEF Verdicts, Rejected, Uncounted
<1>3. v \in Nat \/ v = -1 \/ v = -2
  BY <1>1, <1>2
<1>4. CASE v \in Nat
  BY <1>4
<1>5. CASE v = -1 \/ v = -2
  BY <1>5
<1>. QED
  BY <1>3, <1>4, <1>5

\* The score of a result of two cases: 0 when one of them spoils it, and otherwise the
\* sum of what is accepted.
LEMMA AbsoluteOfFacts ==
    ASSUME NEW s \in [1..AbsoluteCases -> Verdicts]
    PROVE  /\ AbsoluteOf(s) \in Nat
           /\ LET none == \/ s[1] = Uncounted \/ s[2] = Uncounted
                          \/ ~contest.partial /\ (s[1] < 0 \/ s[2] < 0)
              IN  /\ none => AbsoluteOf(s) = 0
                  /\ ~none => AbsoluteOf(s) = (IF s[1] >= 0 THEN s[1] ELSE 0)
                                              + (IF s[2] >= 0 THEN s[2] ELSE 0)
<1>2. \A k : k \in 1..AbsoluteCases <=> k = 1 \/ k = 2
  BY DEF AbsoluteCases
<1>3. \A k \in {1, 2} : s[k] \in Int /\ (s[k] >= 0 \/ s[k] = -1 \/ s[k] = -2)
  <2>. TAKE k \in {1, 2}
  <2>1. s[k] \in Verdicts
    BY <1>2
  <2>. QED
    BY <2>1, VerdictFacts
<1>. DEFINE accepted == {k \in 1..AbsoluteCases : s[k] >= 0}
<1>4. /\ 1 \in accepted <=> s[1] >= 0
      /\ 2 \in accepted <=> s[2] >= 0
      /\ accepted # 1..AbsoluteCases <=> s[1] < 0 \/ s[2] < 0
  <2>1. /\ 1 \in accepted <=> s[1] >= 0
        /\ 2 \in accepted <=> s[2] >= 0
    BY <1>2
  <2>2. accepted # 1..AbsoluteCases <=> ~(1 \in accepted /\ 2 \in accepted)
    BY <1>2
  <2>. QED
    BY <1>3, <2>1, <2>2
<1>5. (\E k \in 1..AbsoluteCases : s[k] = Uncounted) <=> s[1] = Uncounted \/ s[2] = Uncounted
  BY <1>2
<1>6. AbsoluteOf(s) =
         IF \/ \E k \in 1..AbsoluteCases : s[k] = Uncounted
            \/ ~contest.partial /\ accepted # 1..AbsoluteCases
         THEN 0 ELSE (IF 1 \in accepted THEN s[1] ELSE 0) + (IF 2 \in accepted THEN s[2] ELSE 0)
  BY DEF AbsoluteOf
<1>. HIDE DEF accepted
<1>7. s[1] \in Int /\ s[2] \in Int
  BY <1>3
<1>. QED
  BY <1>4, <1>5, <1>6, <1>7

\* A result at least as good in every case has at least the score.
LEMMA AbsoluteOrder ==
    ASSUME contest.kind = "absolute",
           NEW s \in [1..AbsoluteCases -> Verdicts], NEW t \in [1..AbsoluteCases -> Verdicts],
           \A k \in 1..AbsoluteCases : NoWorse(s[k], t[k])
    PROVE  AbsoluteOf(t) <= AbsoluteOf(s)
<1>2. 1 \in 1..AbsoluteCases /\ 2 \in 1..AbsoluteCases
  BY DEF AbsoluteCases
<1>3. \A k \in {1, 2} :
         /\ s[k] \in Int /\ (s[k] >= 0 \/ s[k] = -1 \/ s[k] = -2)
         /\ t[k] \in Int /\ (t[k] >= 0 \/ t[k] = -1 \/ t[k] = -2)
  <2>. TAKE k \in {1, 2}
  <2>1. s[k] \in Verdicts /\ t[k] \in Verdicts
    BY <1>2
  <2>. QED
    BY <2>1, VerdictFacts
<1>4. \A k \in {1, 2} : \/ t[k] = -2
                        \/ t[k] = -1 /\ s[k] # -2
                        \/ s[k] >= 0 /\ t[k] >= 0 /\ s[k] >= t[k]
  <2>1. \A k \in {1, 2} : NoWorse(s[k], t[k])
    BY <1>2
  <2>. QED
    BY <2>1 DEF NoWorse, LessIsBetter, Rejected, Uncounted
<1>5. AbsoluteOf(s) \in Nat
  BY AbsoluteOfFacts
<1>6. CASE \/ t[1] = Uncounted \/ t[2] = Uncounted
           \/ ~contest.partial /\ (t[1] < 0 \/ t[2] < 0)
  <2>1. AbsoluteOf(t) = 0
    BY <1>6, AbsoluteOfFacts
  <2>. QED
    BY <1>5, <2>1
<1>7. CASE ~ (\/ t[1] = Uncounted \/ t[2] = Uncounted
              \/ ~contest.partial /\ (t[1] < 0 \/ t[2] < 0))
  <2>1. AbsoluteOf(t) = (IF t[1] >= 0 THEN t[1] ELSE 0) + (IF t[2] >= 0 THEN t[2] ELSE 0)
    BY <1>7, AbsoluteOfFacts
  <2>2. ~ (\/ s[1] = Uncounted \/ s[2] = Uncounted
           \/ ~contest.partial /\ (s[1] < 0 \/ s[2] < 0))
    BY <1>3, <1>4, <1>7 DEF Uncounted
  <2>3. AbsoluteOf(s) = (IF s[1] >= 0 THEN s[1] ELSE 0) + (IF s[2] >= 0 THEN s[2] ELSE 0)
    BY <2>2, AbsoluteOfFacts
  <2>4. \A k \in {1, 2} : (IF t[k] >= 0 THEN t[k] ELSE 0) <= (IF s[k] >= 0 THEN s[k] ELSE 0)
    BY <1>3, <1>4, <1>7 DEF Uncounted
  <2>. DEFINE t1 == IF t[1] >= 0 THEN t[1] ELSE 0
              t2 == IF t[2] >= 0 THEN t[2] ELSE 0
              s1 == IF s[1] >= 0 THEN s[1] ELSE 0
              s2 == IF s[2] >= 0 THEN s[2] ELSE 0
  <2>5. t1 \in Int /\ t2 \in Int /\ s1 \in Int /\ s2 \in Int
    BY <1>3
  <2>6. t1 <= s1 /\ t2 <= s2
    BY <2>4
  <2>7. AbsoluteOf(t) = t1 + t2 /\ AbsoluteOf(s) = s1 + s2
    BY <2>1, <2>3
  <2>. HIDE DEF t1, t2, s1, s2
  <2>. QED
    BY <2>5, <2>6, <2>7
<1>. QED
  BY <1>6, <1>7

\* The places from i to j are those of one score, the highest that a reaches.
Highest(a, i, j) ==
    /\ i \in Places /\ j \in Places /\ PlaceScore(i) = PlaceScore(j)
    /\ \A h \in Places : PlaceScore(h) = PlaceScore(i) => i <= h /\ h <= j
    /\ PlaceScore(i) <= a
    /\ \A h \in Places : PlaceScore(h) <= a => PlaceScore(h) <= PlaceScore(i)

EndOf(j) == IF j = LastPlace THEN PlaceRank(j) ELSE PlaceRank(j + 1) - 1

\* The rank r, and twice the one for the performance, d, of the absolute score a.
RankedAbsolute(a, r, d) ==
    \/ a = 0 /\ r = LastRank /\ d = 2 * LastRank
    \/ /\ a # 0
       /\ \E i, j \in Places :
             /\ Highest(a, i, j)
             /\ r = PlaceRank(i)
             /\ d = IF PlaceScore(i) = a THEN PlaceRank(i) + EndOf(j) ELSE 2 * PlaceRank(i)

\* Every place has its score's entry in the list.
LEMMA PlaceHasGroup ==
    ASSUME contest \in Contests, NEW h \in Places
    PROVE  \E g \in Groups(contest.standings) : PlaceScore(g[1]) = PlaceScore(h)
<1>. DEFINE peers == {k \in Places : PlaceScore(k) = PlaceScore(h)}
<1>1. LastPlace \in Nat /\ \A k \in Places : k \in Nat
  BY PlacesFacts
<1>2. peers \in SUBSET (1..LastPlace) /\ peers # {} /\ peers \in SUBSET Nat
  BY <1>1 DEF Places
<1>3. \E i \in peers : \A k \in peers : i <= k
  <2>. HIDE DEF peers
  <2>. QED
    BY <1>2, LeastNumber
<1>4. \E j \in peers : \A k \in peers : k <= j
  <2>. HIDE DEF peers
  <2>. QED
    BY <1>1, <1>2, LastOf
<1>5. PICK i \in peers : \A k \in peers : i <= k
  BY <1>3
<1>6. PICK j \in peers : \A k \in peers : k <= j
  BY <1>4
<1>7. i \in Places /\ j \in Places /\ PlaceScore(i) = PlaceScore(h) /\ PlaceScore(j) = PlaceScore(h)
  OBVIOUS
<1>8. \A k \in Places : PlaceScore(k) = PlaceScore(i) => i <= k /\ k <= j
  BY <1>5, <1>6, <1>7
<1>9. <<i, j>> \in Groups(contest.standings)
  BY <1>7, <1>8 DEF Groups, Places, LastPlace, PlaceScore
<1>. QED
  BY <1>7, <1>9

\* The loop over score_rank_list ends at the highest score that the result reaches.
LEMMA RankAbsoluteGives ==
    ASSUME contest \in Contests, RankAbsolute
    PROVE  RankedAbsolute(AbsoluteScore, rank', perfRank')
<1>. DEFINE a == AbsoluteScore
            st == contest.standings
<1>2. PICK e \in Found : Ranked(e.start, IF e.score = a THEN e.start + e.end ELSE 2 * e.start)
  BY DEF RankAbsolute
<1>3. /\ a # 0 /\ rank' = e.start
      /\ perfRank' = IF e.score = a THEN e.start + e.end ELSE 2 * e.start
  BY <1>2 DEF RankAbsolute, Ranked
<1>4. /\ e \in ScoreRankList /\ e.score <= a
      /\ \A f \in ScoreRankList : f.score <= a => f.score <= e.score
  BY DEF Found, Reached
<1>5. PICK g \in Groups(st) :
         e = [score |-> Score(st[g[1]]),
              start |-> Rank(st[g[1]]),
              end |-> IF g[2] = Len(st) THEN Rank(st[g[2]]) ELSE Rank(st[g[2] + 1]) - 1]
  BY <1>4 DEF ScoreRankList
<1>. DEFINE i == g[1]
            j == g[2]
<1>6. /\ i \in Places /\ j \in Places /\ PlaceScore(i) = PlaceScore(j)
      /\ \A h \in Places : PlaceScore(h) = PlaceScore(i) => i <= h /\ h <= j
  BY DEF Groups, Places, LastPlace, PlaceScore
<1>. HIDE DEF i, j
<1>7. /\ e.score = PlaceScore(i) /\ e.start = PlaceRank(i) /\ e.end = EndOf(j)
  BY <1>5 DEF i, j, PlaceScore, PlaceRank, EndOf, LastPlace
<1>8. ASSUME NEW h \in Places, PlaceScore(h) <= a
      PROVE  PlaceScore(h) <= PlaceScore(i)
  <2>1. PICK k \in Groups(st) : PlaceScore(k[1]) = PlaceScore(h)
    BY PlaceHasGroup
  <2>. DEFINE entry == [score |-> Score(st[k[1]]),
                        start |-> Rank(st[k[1]]),
                        end |-> IF k[2] = Len(st) THEN Rank(st[k[2]]) ELSE Rank(st[k[2] + 1]) - 1]
  <2>2. PICK f \in ScoreRankList : f.score = Score(st[k[1]])
    <3>1. entry \in ScoreRankList
      BY DEF ScoreRankList
    <3>2. entry.score = Score(st[k[1]])
      OBVIOUS
    <3>. HIDE DEF entry
    <3>. QED
      BY <3>1, <3>2
  <2>3. f.score = PlaceScore(h)
    BY <2>1, <2>2 DEF PlaceScore
  <2>. QED
    BY <1>4, <1>7, <1>8, <2>3
<1>9. Highest(a, i, j)
  BY <1>4, <1>6, <1>7, <1>8 DEF Highest
<1>. HIDE DEF a
<1>10. RankedAbsolute(a, rank', perfRank')
  BY <1>3, <1>6, <1>7, <1>9 DEF RankedAbsolute
<1>. QED
  BY <1>10 DEF a

\* The places of one score: those above have more and a higher rank, those below less,
\* and the ranks of the score end before theirs, where no rank has two scores.
LEMMA HighestFacts ==
    ASSUME contest \in Contests, contest.kind = "absolute", Consistent,
           NEW a \in Nat, NEW i, NEW j, Highest(a, i, j)
    PROVE  /\ i \in Places /\ j \in Places /\ i <= j
           /\ EndOf(j) \in Int /\ PlaceRank(i) <= EndOf(j) /\ EndOf(j) <= LastRank
           /\ \A h \in Places : /\ h < i <=> PlaceScore(i) < PlaceScore(h)
                                /\ j < h <=> PlaceScore(h) < PlaceScore(i)
                                /\ h < i => PlaceRank(h) < PlaceRank(i)
                                /\ j < h => EndOf(j) < PlaceRank(h)
<1>1. /\ i \in Places /\ j \in Places /\ PlaceScore(i) = PlaceScore(j)
      /\ \A h \in Places : PlaceScore(h) = PlaceScore(i) => i <= h /\ h <= j
  BY DEF Highest
<1>2. /\ LastPlace \in Nat /\ LastRank \in Int
      /\ \A h \in Places : /\ h \in Nat /\ h >= 1 /\ h <= LastPlace
                           /\ PlaceRank(h) \in Int /\ PlaceRank(h) <= LastRank
                           /\ PlaceScore(h) \in Nat
      /\ \A h, k \in Places : h <= k => PlaceRank(h) <= PlaceRank(k) /\ PlaceScore(h) >= PlaceScore(k)
      /\ \A h \in Nat : h \in Places <=> 1 <= h /\ h <= LastPlace
  BY PlacesFacts
<1>0. \A h, k \in Places : PlaceRank(h) = PlaceRank(k) => PlaceScore(h) = PlaceScore(k)
  BY DEF Consistent, Places, LastPlace, PlaceRank, PlaceScore
<1>3. i \in Nat /\ j \in Nat /\ i <= j /\ PlaceRank(i) <= PlaceRank(j) /\ i <= LastPlace /\ j <= LastPlace
  BY <1>1, <1>2
<1>4. ASSUME NEW h \in Places
      PROVE  /\ h < i <=> PlaceScore(i) < PlaceScore(h)
             /\ j < h <=> PlaceScore(h) < PlaceScore(i)
  <2>1. h \in Nat /\ PlaceScore(h) \in Nat /\ PlaceScore(i) \in Nat
    BY <1>1, <1>2
  <2>2. /\ h <= i => PlaceScore(h) >= PlaceScore(i)
        /\ i <= h => PlaceScore(i) >= PlaceScore(h)
        /\ j <= h => PlaceScore(i) >= PlaceScore(h)
        /\ h <= j => PlaceScore(h) >= PlaceScore(i)
    BY <1>1, <1>2
  <2>. QED
    BY <1>1, <1>3, <2>1, <2>2
<1>5. ASSUME NEW h \in Places, NEW k \in Places, h < k, PlaceScore(h) # PlaceScore(k)
      PROVE  PlaceRank(h) < PlaceRank(k)
  <2>1. h <= k /\ PlaceRank(h) \in Int /\ PlaceRank(k) \in Int
    BY <1>2, <1>5
  <2>2. PlaceRank(h) <= PlaceRank(k) /\ PlaceRank(h) # PlaceRank(k)
    BY <1>0, <1>2, <1>5, <2>1
  <2>. QED
    BY <2>1, <2>2
<1>6. \A h \in Places : h < i => PlaceRank(h) < PlaceRank(i)
  <2>. TAKE h \in Places
  <2>. HAVE h < i
  <2>1. PlaceScore(h) # PlaceScore(i)
    BY <1>1, <1>2, <1>4
  <2>. QED
    BY <1>1, <1>5, <2>1
<1>7. CASE j = LastPlace
  <2>1. EndOf(j) = PlaceRank(j)
    BY <1>7 DEF EndOf
  <2>2. \A h \in Places : ~(j < h)
    BY <1>2, <1>7
  <2>3. PlaceRank(j) \in Int /\ PlaceRank(j) <= LastRank
    BY <1>1, <1>2, <1>3
  <2>. QED
    BY <1>1, <1>3, <1>4, <1>6, <2>1, <2>2, <2>3
<1>8. CASE j # LastPlace
  <2>1. j + 1 \in Places /\ j < j + 1
    BY <1>2, <1>3, <1>8
  <2>2. EndOf(j) = PlaceRank(j + 1) - 1
    BY <1>8 DEF EndOf
  <2>3. PlaceScore(j) # PlaceScore(j + 1)
    BY <1>1, <1>2, <1>4, <2>1
  <2>4. PlaceRank(j) < PlaceRank(j + 1)
    BY <1>1, <1>5, <2>1, <2>3
  <2>5. /\ PlaceRank(j) \in Int /\ PlaceRank(j + 1) \in Int /\ PlaceRank(i) \in Int
        /\ PlaceRank(j + 1) <= LastRank
    BY <1>1, <1>2, <2>1
  <2>6. \A h \in Places : j < h => EndOf(j) < PlaceRank(h)
    <3>. TAKE h \in Places
    <3>. HAVE j < h
    <3>1. h \in Nat /\ PlaceRank(h) \in Int /\ j + 1 <= h
      BY <1>2, <1>3
    <3>2. PlaceRank(j + 1) <= PlaceRank(h)
      BY <1>2, <2>1, <3>1
    <3>. QED
      BY <2>2, <2>5, <3>1, <3>2
  <2>7. EndOf(j) \in Int /\ PlaceRank(i) <= EndOf(j) /\ EndOf(j) <= LastRank
    BY <1>2, <1>3, <2>2, <2>4, <2>5
  <2>. QED
    BY <1>1, <1>3, <1>4, <1>6, <2>6, <2>7
<1>. QED
  BY <1>7, <1>8

\* A higher score has at least as high a rank, and as high a one for its performance.
LEMMA AbsoluteRankOrder ==
    ASSUME contest \in Contests, contest.kind = "absolute", Consistent,
           NEW a \in Nat, NEW b \in Nat, a <= b,
           NEW r, NEW d, RankedAbsolute(a, r, d), NEW q, NEW e, RankedAbsolute(b, q, e)
    PROVE  r \in Int /\ d \in Int /\ q \in Int /\ e \in Int /\ q <= r /\ e <= d
<1>1. /\ LastRank \in Int
      /\ \A h \in Places : h \in Nat /\ PlaceRank(h) \in Int /\ PlaceRank(h) <= LastRank
                           /\ PlaceScore(h) \in Nat
  BY PlacesFacts
<1>2. ASSUME NEW c \in Nat, NEW p, NEW m, RankedAbsolute(c, p, m)
      PROVE  p \in Int /\ m \in Int /\ p <= LastRank /\ m <= 2 * LastRank
  <2>1. CASE c = 0
    BY <1>1, <1>2, <2>1 DEF RankedAbsolute
  <2>2. CASE c # 0
    <3>1. PICK i \in Places, j \in Places :
             /\ Highest(c, i, j) /\ p = PlaceRank(i)
             /\ m = IF PlaceScore(i) = c THEN PlaceRank(i) + EndOf(j) ELSE 2 * PlaceRank(i)
      BY <1>2, <2>2 DEF RankedAbsolute
    <3>2. EndOf(j) \in Int /\ EndOf(j) <= LastRank
      BY <3>1, HighestFacts
    <3>3. PlaceRank(i) \in Int /\ PlaceRank(i) <= LastRank
      BY <1>1
    <3>. QED
      BY <1>1, <3>1, <3>2, <3>3
  <2>. QED
    BY <2>1, <2>2
<1>3. r \in Int /\ d \in Int /\ q \in Int /\ e \in Int
  BY <1>2
<1>4. CASE a = 0
  <2>1. r = LastRank /\ d = 2 * LastRank
    BY <1>4 DEF RankedAbsolute
  <2>2. q <= LastRank /\ e <= 2 * LastRank
    BY <1>2
  <2>. QED
    BY <1>3, <2>1, <2>2
<1>5. CASE a # 0
  <2>1. PICK i \in Places, j \in Places :
           /\ Highest(a, i, j) /\ r = PlaceRank(i)
           /\ d = IF PlaceScore(i) = a THEN PlaceRank(i) + EndOf(j) ELSE 2 * PlaceRank(i)
    BY <1>5 DEF RankedAbsolute
  <2>2. PICK k \in Places, l \in Places :
           /\ Highest(b, k, l) /\ q = PlaceRank(k)
           /\ e = IF PlaceScore(k) = b THEN PlaceRank(k) + EndOf(l) ELSE 2 * PlaceRank(k)
    <3>1. b # 0
      BY <1>5
    <3>. QED
      BY <3>1 DEF RankedAbsolute
  <2>3. /\ PlaceRank(i) <= EndOf(j) /\ EndOf(j) \in Int
        /\ PlaceRank(k) <= EndOf(l) /\ EndOf(l) \in Int
        /\ l < i <=> PlaceScore(i) < PlaceScore(k)
        /\ l < i => EndOf(l) < PlaceRank(i)
    BY <2>1, <2>2, HighestFacts
  <2>4. /\ PlaceRank(i) \in Int /\ PlaceRank(k) \in Int
        /\ PlaceScore(i) \in Nat /\ PlaceScore(k) \in Nat
    BY <1>1
  <2>5. 2 * PlaceRank(i) <= d /\ e <= PlaceRank(k) + EndOf(l)
    BY <2>1, <2>2, <2>3, <2>4
  <2>6. PlaceScore(i) <= a /\ PlaceScore(i) <= PlaceScore(k)
    BY <2>1, <2>2, <2>4 DEF Highest
  <2>7. CASE PlaceScore(i) < PlaceScore(k)
    <3>1. EndOf(l) < PlaceRank(i)
      BY <2>3, <2>7
    <3>. QED
      BY <1>3, <2>1, <2>2, <2>3, <2>4, <2>5, <3>1
  <2>8. CASE PlaceScore(i) = PlaceScore(k)
    <3>1. i = k /\ j = l
      <4>1. /\ i <= k /\ k <= i /\ PlaceScore(j) = PlaceScore(i) /\ PlaceScore(l) = PlaceScore(k)
        BY <2>1, <2>2, <2>8 DEF Highest
      <4>2. j <= l /\ l <= j
        BY <2>1, <2>2, <2>8, <4>1 DEF Highest
      <4>. QED
        BY <1>1, <4>1, <4>2
    <3>2. PlaceScore(i) = b => a = b
      BY <2>4, <2>6
    <3>3. e <= d
      <4>1. CASE PlaceScore(i) = b
        BY <1>3, <2>1, <2>2, <3>1, <3>2, <4>1
      <4>2. CASE PlaceScore(i) # b
        <5>1. e = 2 * PlaceRank(i)
          BY <2>2, <3>1, <4>2
        <5>. QED
          BY <2>5, <5>1
      <4>. QED
        BY <4>1, <4>2
    <3>. QED
      BY <1>3, <2>1, <2>2, <3>1, <3>3
  <2>. QED
    BY <2>4, <2>6, <2>7, <2>8
<1>. QED
  BY <1>4, <1>5

\* Both ranks are behind those of every higher score, and not behind those of a lower
\* one, whatever table the performance is then looked up in.
LEMMA AbsolutePlace ==
    ASSUME contest \in Contests, contest.kind = "absolute", Consistent,
           NEW a \in Nat, NEW r, NEW d, RankedAbsolute(a, r, d), NEW i \in Places
    PROVE  /\ PlaceScore(i) > a => PlaceRank(i) < r /\ 2 * PlaceRank(i) < d
           /\ PlaceScore(i) = a => r <= PlaceRank(i)
           /\ PlaceScore(i) < a => r <= PlaceRank(i) /\ d <= 2 * PlaceRank(i)
<1>1. /\ LastPlace \in Places /\ LastRank \in Int /\ LastRank = PlaceRank(LastPlace)
      /\ PlaceScore(LastPlace) = 0
      /\ \A h \in Places : /\ h \in Nat /\ h <= LastPlace
                           /\ PlaceRank(h) \in Int /\ PlaceRank(h) <= LastRank
                           /\ PlaceScore(h) \in Nat
                           /\ h # LastPlace => PlaceScore(h) > 0
      /\ \A h, k \in Places : h <= k => PlaceRank(h) <= PlaceRank(k)
  BY PlacesFacts
<1>2. \A h, k \in Places : PlaceRank(h) = PlaceRank(k) => PlaceScore(h) = PlaceScore(k)
  BY DEF Consistent, Places, LastPlace, PlaceRank, PlaceScore
<1>3. i \in Nat /\ PlaceRank(i) \in Int /\ PlaceScore(i) \in Nat
  BY <1>1
<1>4. CASE a = 0
  <2>1. r = LastRank /\ d = 2 * LastRank
    BY <1>4 DEF RankedAbsolute
  <2>2. ASSUME PlaceScore(i) > a
        PROVE  PlaceRank(i) < LastRank
    <3>1. PlaceRank(i) # LastRank
      BY <1>1, <1>2, <1>3, <1>4, <2>2
    <3>. QED
      BY <1>1, <1>3, <3>1
  <2>3. PlaceScore(i) = a => PlaceRank(i) = LastRank
    BY <1>1, <1>4
  <2>4. ~(PlaceScore(i) < a)
    BY <1>3, <1>4
  <2>. QED
    BY <1>1, <1>3, <2>1, <2>2, <2>3, <2>4
<1>5. CASE a # 0
  <2>1. PICK m \in Places, n \in Places :
           /\ Highest(a, m, n) /\ r = PlaceRank(m)
           /\ d = IF PlaceScore(m) = a THEN PlaceRank(m) + EndOf(n) ELSE 2 * PlaceRank(m)
    BY <1>5 DEF RankedAbsolute
  <2>2. /\ m <= n /\ EndOf(n) \in Int /\ PlaceRank(m) <= EndOf(n)
        /\ i < m <=> PlaceScore(m) < PlaceScore(i)
        /\ n < i <=> PlaceScore(i) < PlaceScore(m)
        /\ i < m => PlaceRank(i) < PlaceRank(m)
        /\ n < i => EndOf(n) < PlaceRank(i)
    BY <2>1, HighestFacts
  <2>3. PlaceScore(m) <= a /\ (PlaceScore(i) <= a => PlaceScore(i) <= PlaceScore(m))
    BY <2>1 DEF Highest
  <2>4. PlaceRank(m) \in Int /\ PlaceScore(m) \in Nat /\ m \in Nat
    BY <1>1, <2>1
  <2>5. 2 * PlaceRank(m) <= d /\ d \in Int
    BY <2>1, <2>2, <2>4
  <2>6. ASSUME PlaceScore(i) > a
        PROVE  PlaceRank(i) < r /\ 2 * PlaceRank(i) < d
    <3>1. PlaceRank(i) < PlaceRank(m)
      BY <1>3, <2>2, <2>3, <2>4, <2>6
    <3>. QED
      BY <1>3, <2>1, <2>4, <2>5, <3>1
  <2>7. ASSUME PlaceScore(i) <= a
        PROVE  r <= PlaceRank(i)
    <3>1. m <= i
      BY <1>3, <2>2, <2>3, <2>4, <2>7
    <3>. QED
      BY <1>1, <2>1, <3>1
  <2>8. ASSUME PlaceScore(i) < a
        PROVE  d <= 2 * PlaceRank(i)
    <3>1. PlaceRank(m) <= PlaceRank(i)
      BY <1>3, <2>1, <2>7, <2>8
    <3>2. CASE PlaceScore(m) = a
      <4>1. EndOf(n) < PlaceRank(i)
        BY <2>2, <2>8, <3>2
      <4>. QED
        BY <1>3, <2>1, <2>2, <2>4, <3>1, <3>2, <4>1
    <3>3. CASE PlaceScore(m) # a
      BY <1>3, <2>1, <2>4, <3>1, <3>3
    <3>. QED
      BY <3>2, <3>3
  <2>. QED
    BY <1>3, <2>6, <2>7, <2>8
<1>. QED
  BY <1>4, <1>5

\* Where both tables have the same ranks, the entries of those who have more than a, less,
\* or the same are on their sides of the rank for the performance.
LEMMA AbsolutePeers ==
    ASSUME contest \in Contests, contest.kind = "absolute", Consistent, SameRanks,
           NEW a \in Nat, NEW r, NEW d, RankedAbsolute(a, r, d), NEW i \in Rows
    PROVE  /\ PlaceScore(i) > a =>
                 \E h \in KeyRows : RowPerf(h) = RowPerf(i) /\ KeyOf(h) <= d
           /\ PlaceScore(i) < a =>
                 \E h \in KeyRows : RowPerf(h) = RowPerf(i) /\ d <= KeyOf(h)
           /\ PlaceScore(i) = a =>
                 \E h, k \in KeyRows : /\ PlaceScore(h) = a /\ KeyOf(h) <= d
                                       /\ PlaceScore(k) = a /\ d <= KeyOf(k)
<1>0. Rows = Places /\ LastRow = LastPlace /\ \A h \in Rows : PlaceRank(h) = RowRank(h)
  BY DEF SameRanks, Rows, Places, LastRow, LastPlace, PlaceRank, RowRank
<1>1. /\ LastRow \in Nat /\ LastRank \in Int /\ LastRank = RowRank(LastRow)
      /\ PlaceScore(LastRow) = 0 /\ LastRow \in Rows
      /\ \A h \in Rows : /\ h \in Nat /\ h <= LastRow /\ h >= 1
                         /\ RowRank(h) \in Int /\ PlaceScore(h) \in Nat
                         /\ h # LastRow => PlaceScore(h) > 0
      /\ \A h, k \in Rows : h <= k => RowRank(h) <= RowRank(k)
      /\ \A h \in Nat : h \in Rows <=> 1 <= h /\ h <= LastRow
  BY <1>0, PlacesFacts, RowsFacts
<1>2. \A h, k \in Rows : RowRank(h) = RowRank(k) => PlaceScore(h) = PlaceScore(k)
  <2>1. \A h, k \in Places : PlaceRank(h) = PlaceRank(k) => PlaceScore(h) = PlaceScore(k)
    BY DEF Consistent, Places, LastPlace, PlaceRank, PlaceScore
  <2>. QED
    BY <1>0, <2>1
<1>3. PICK h \in KeyRows : i <= h /\ RowRank(h) = RowRank(i) /\ RowPerf(h) = RowPerf(i)
  BY RowHasKey
<1>4. /\ \A k \in KeyRows : /\ k \in Rows /\ KeyOf(k) \in Int
                            /\ 2 * RowRank(k) <= KeyOf(k) /\ KeyOf(k) <= 2 * LastRank
      /\ \A k \in KeyRows : \A j \in Rows : k < j => KeyOf(k) <= 2 * RowRank(j) - 2
      /\ LastRow \in KeyRows /\ KeyOf(LastRow) = 2 * LastRank
  BY <1>1, KeyRowFacts
<1>5. h \in Rows /\ PlaceScore(h) = PlaceScore(i)
  BY <1>2, <1>3, <1>4
<1>6. CASE a = 0
  <2>1. d = 2 * LastRank
    BY <1>6 DEF RankedAbsolute
  <2>2. ~(PlaceScore(i) < a)
    BY <1>1, <1>6
  <2>3. KeyOf(h) <= d /\ KeyOf(LastRow) <= d /\ d <= KeyOf(LastRow)
    BY <1>1, <1>4, <2>1
  <2>. QED
    BY <1>1, <1>3, <1>4, <1>6, <2>2, <2>3
<1>7. CASE a # 0
  <2>1. PICK m \in Places, n \in Places :
           /\ Highest(a, m, n) /\ r = PlaceRank(m)
           /\ d = IF PlaceScore(m) = a THEN PlaceRank(m) + EndOf(n) ELSE 2 * PlaceRank(m)
    BY <1>7 DEF RankedAbsolute
  <2>2. /\ m \in Rows /\ n \in Rows /\ m <= n /\ EndOf(n) \in Int /\ RowRank(m) <= EndOf(n)
        /\ \A k \in Rows : /\ k < m <=> PlaceScore(m) < PlaceScore(k)
                           /\ n < k <=> PlaceScore(k) < PlaceScore(m)
    BY <1>0, <2>1, HighestFacts
  <2>3. /\ PlaceScore(m) <= a
        /\ \A k \in Rows : PlaceScore(k) <= a => PlaceScore(k) <= PlaceScore(m)
    BY <1>0, <2>1 DEF Highest
  <2>4. /\ RowRank(m) \in Int /\ PlaceScore(m) \in Nat /\ PlaceScore(i) \in Nat
        /\ RowRank(i) \in Int /\ m \in Nat /\ n \in Nat /\ i \in Nat /\ h \in Nat
        /\ KeyOf(h) \in Int /\ RowRank(h) \in Int
    BY <1>1, <1>4, <1>5, <2>2
  <2>5. d = IF PlaceScore(m) = a THEN RowRank(m) + EndOf(n) ELSE 2 * RowRank(m)
    BY <1>0, <2>1, <2>2
  <2>6. 2 * RowRank(m) <= d /\ d \in Int
    BY <2>2, <2>4, <2>5
  <2>7. ASSUME PlaceScore(i) > a
        PROVE  KeyOf(h) <= d
    <3>1. h < m
      BY <1>5, <2>2, <2>3, <2>4, <2>7
    <3>2. KeyOf(h) <= 2 * RowRank(m) - 2
      BY <1>4, <2>2, <3>1
    <3>. QED
      BY <2>4, <2>6, <3>2
  <2>8. ASSUME PlaceScore(i) < a
        PROVE  d <= KeyOf(h)
    <3>1. d <= 2 * PlaceRank(i)
      BY <1>0, <2>8, AbsolutePlace
    <3>2. 2 * RowRank(i) <= KeyOf(h)
      BY <1>3, <1>4
    <3>3. PlaceRank(i) = RowRank(i)
      BY <1>0
    <3>. QED
      BY <2>4, <2>6, <3>1, <3>2, <3>3
  <2>9. ASSUME PlaceScore(i) = a
        PROVE  \E f, k \in KeyRows : /\ PlaceScore(f) = a /\ KeyOf(f) <= d
                                     /\ PlaceScore(k) = a /\ d <= KeyOf(k)
    <3>1. PlaceScore(m) = a /\ PlaceScore(n) = a
      <4>1. a <= PlaceScore(m)
        BY <2>3, <2>4, <2>9
      <4>2. PlaceScore(n) = PlaceScore(m)
        BY <2>1 DEF Highest
      <4>. QED
        BY <2>3, <2>4, <4>1, <4>2
    <3>2. d = RowRank(m) + EndOf(n)
      BY <2>5, <3>1
    <3>3. n # LastRow
      BY <1>1, <1>7, <3>1
    <3>4. n + 1 \in Rows /\ EndOf(n) = RowRank(n + 1) - 1
      <4>1. n + 1 \in Rows
        BY <1>1, <2>2, <2>4, <3>3
      <4>. QED
        BY <1>0, <3>3, <4>1 DEF EndOf
    <3>5. ASSUME NEW f \in KeyRows, PlaceScore(f) = a
          PROVE  KeyOf(f) = RowRank(f) + RowRank(f + 1) - 1 /\ f \in Nat /\ f <= n /\ f + 1 \in Rows
      <4>1. f \in Rows
        BY <1>4
      <4>2. f \in Nat /\ f # LastRow /\ f <= LastRow
        BY <1>1, <1>7, <3>5, <4>1
      <4>3. f <= n
        BY <2>2, <2>4, <3>1, <3>5, <4>1, <4>2
      <4>4. f + 1 \in Rows
        BY <1>1, <4>1, <4>2
      <4>. QED
        BY <4>2, <4>3, <4>4 DEF KeyOf, RowRank, LastRow
    <3>6. PICK f \in KeyRows : RowRank(f) = RowRank(m)
      BY <2>2, RowHasKey
    <3>7. PlaceScore(f) = a
      BY <1>2, <1>4, <2>2, <3>1, <3>6
    <3>8. KeyOf(f) <= d
      <4>1. /\ KeyOf(f) = RowRank(f) + RowRank(f + 1) - 1
            /\ f \in Nat /\ f <= n /\ f + 1 \in Rows
        BY <3>5, <3>7
      <4>2. f + 1 <= n + 1
        BY <2>4, <4>1
      <4>3. RowRank(f + 1) <= RowRank(n + 1) /\ RowRank(f + 1) \in Int /\ RowRank(n + 1) \in Int
        BY <1>1, <3>4, <4>1, <4>2
      <4>. QED
        BY <2>4, <3>2, <3>4, <3>6, <4>1, <4>3
    <3>9. PICK k \in KeyRows : n <= k /\ RowRank(k) = RowRank(n)
      BY <2>2, RowHasKey
    <3>10. PlaceScore(k) = a
      BY <1>2, <1>4, <2>2, <3>1, <3>9
    <3>11. d <= KeyOf(k)
      <4>1. k = n
        BY <2>4, <3>5, <3>9, <3>10
      <4>2. KeyOf(k) = RowRank(n) + RowRank(n + 1) - 1
        BY <3>5, <3>10, <4>1
      <4>3. RowRank(m) <= RowRank(n) /\ RowRank(n) \in Int /\ RowRank(n + 1) \in Int
        BY <1>1, <2>2, <3>4
      <4>. QED
        BY <2>4, <3>2, <3>4, <4>2, <4>3
    <3>. QED
      BY <3>7, <3>8, <3>10, <3>11
  <2>. QED
    BY <1>3, <2>7, <2>8, <2>9
<1>. QED
  BY <1>6, <1>7

-----------------------------------------------------------------------------
(* The sums of any result, and of two results.                             *)

\* The score of a verdict, as it is passed on, and the case that it joins.
Passed(v) == IF v < 0 THEN Rejected ELSE v
CaseWith(s, k) == Append(contest.cases[k], Passed(s[k]))

\* What case k of result s adds to its own sum, and to those of the others.
Adds(s, k, x, y) ==
    /\ ~CaseRaises(CaseWith(s, k))
    /\ \E best \in BestScores(CaseWith(s, k)) :
          /\ x = RelativeScore(CaseWith(s, k), best, CaseWith(s, k)[Self])
          /\ \A p \in Participants :
                y[p] = RelativeScore(CaseWith(s, k), best, CaseWith(s, k)[p])

\* The sums of the first d cases: o its own, t those of the others.
Grows(s, k, f, g) ==
    \E x \in Nat, y \in [Participants -> Nat] :
        /\ Adds(s, k, x, y)
        /\ f[k] = f[k - 1] + x
        /\ \A p \in Participants : g[k][p] = g[k - 1][p] + y[p]

Sums(s, d, o, t) ==
    \E f \in [0..d -> Nat], g \in [0..d -> [Participants -> Nat]] :
        /\ f[0] = 0 /\ \A p \in Participants : g[0][p] = 0
        /\ f[d] = o /\ g[d] = t
        /\ \A k \in 1..d : Grows(s, k, f, g)

\* A case that a result joins, whichever result it is.
LEMMA CaseWithFacts ==
    ASSUME contest \in Contests, contest.kind # "absolute",
           NEW s \in [1..NumCases -> Verdicts], NEW k \in 1..NumCases
    PROVE  /\ Passed(s[k]) \in CaseScores \cup {Rejected}
           /\ CaseWith(s, k) \in Seq(CaseScores \cup {Rejected})
           /\ Len(CaseWith(s, k)) = Self
           /\ CaseWith(s, k)[Self] = Passed(s[k])
           /\ \A p \in Participants : /\ CaseWith(s, k)[p] = contest.cases[k][p]
                                      /\ p \in 1..(Self - 1)
           /\ Self \in Nat /\ Self > 1 /\ Participants = 1..(Self - 1)
<1>. DEFINE S == CaseScores \cup {Rejected}
<1>1. CaseScores \subseteq Nat
  BY StandingsAssumption
<1>2. Passed(s[k]) \in S
  <2>1. s[k] \in Verdicts
    OBVIOUS
  <2>. QED
    BY <1>1, <2>1 DEF Passed, Verdicts, Rejected, Uncounted
<1>3. contest.cases[k] \in Seq(S) /\ Len(contest.cases[k]) = Self - 1
  BY CasesFacts
<1>4. Self \in Nat /\ Self > 1 /\ Participants = 1..(Self - 1)
  BY CasesFacts
<1>. HIDE DEF S
<1>5. /\ CaseWith(s, k) \in Seq(S)
      /\ Len(CaseWith(s, k)) = Len(contest.cases[k]) + 1
      /\ CaseWith(s, k)[Len(contest.cases[k]) + 1] = Passed(s[k])
      /\ \A p \in 1..Len(contest.cases[k]) : CaseWith(s, k)[p] = contest.cases[k][p]
  BY <1>2, <1>3 DEF CaseWith
<1>6. Len(contest.cases[k]) + 1 = Self /\ Len(contest.cases[k]) = Self - 1
  BY <1>3, <1>4
<1>. QED
  BY <1>2, <1>4, <1>5, <1>6 DEF S

\* A verdict at least as good is passed on as a score at least as good.
LEMMA PassedOrder ==
    ASSUME NEW v \in Verdicts, NEW w \in Verdicts, NoWorse(v, w)
    PROVE  Passed(w) >= 0 => Passed(v) >= 0 /\ ~Better(Passed(w), Passed(v))
<1>1. v \in Int /\ (v >= 0 \/ v = -1 \/ v = -2) /\ w \in Int /\ (w >= 0 \/ w = -1 \/ w = -2)
  BY VerdictFacts
<1>. QED
  BY <1>1 DEF NoWorse, Passed, Better, Rejected, Uncounted

\* A case in which one result is at least as good as another adds at least as much to
\* its sum, and at most as much to those of the others.
LEMMA AddsOrder ==
    ASSUME contest \in Contests, contest.kind # "absolute",
           NEW s \in [1..NumCases -> Verdicts], NEW t \in [1..NumCases -> Verdicts],
           NEW k \in 1..NumCases, NoWorse(s[k], t[k]),
           NEW x, NEW y, Adds(s, k, x, y), NEW u, NEW v, Adds(t, k, u, v)
    PROVE  u <= x /\ \A p \in Participants : y[p] <= v[p]
<1>. DEFINE c == CaseWith(s, k)
            d == CaseWith(t, k)
<1>1. /\ c \in Seq(CaseScores \cup {Rejected}) /\ d \in Seq(CaseScores \cup {Rejected})
      /\ Len(c) = Self /\ Len(d) = Self /\ Self \in Nat /\ Self > 1
      /\ c[Self] = Passed(s[k]) /\ d[Self] = Passed(t[k])
      /\ \A p \in Participants : c[p] = contest.cases[k][p] /\ d[p] = contest.cases[k][p]
      /\ Participants = 1..(Self - 1)
  BY CaseWithFacts
<1>2. ~CaseRaises(c) /\ ~CaseRaises(d)
  BY DEF Adds
<1>3. PICK best \in BestScores(c) :
         /\ x = RelativeScore(c, best, c[Self])
         /\ \A p \in Participants : y[p] = RelativeScore(c, best, c[p])
  BY DEF Adds
<1>4. PICK worst \in BestScores(d) :
         /\ u = RelativeScore(d, worst, d[Self])
         /\ \A p \in Participants : v[p] = RelativeScore(d, worst, d[p])
  BY DEF Adds
<1>5. s[k] \in Verdicts /\ t[k] \in Verdicts
  OBVIOUS
<1>6. d[Self] >= 0 => c[Self] >= 0 /\ ~Better(d[Self], c[Self])
  BY <1>1, <1>5, PassedOrder
<1>. HIDE DEF c, d
<1>7. Improved(c, d)
  BY <1>1, <1>6 DEF Improved
<1>8. u <= x
  <2>1. RelativeScore(d, worst, d[Len(c)]) <= RelativeScore(c, best, c[Len(c)])
    BY <1>2, <1>7, OwnImproves
  <2>. QED
    BY <1>1, <1>3, <1>4, <2>1
<1>9. ASSUME NEW p \in Participants
      PROVE  y[p] <= v[p]
  <2>1. p \in 1..(Len(c) - 1)
    BY <1>1
  <2>2. RelativeScore(c, best, c[p]) <= RelativeScore(d, worst, d[p])
    BY <1>2, <1>7, <2>1, OthersLose
  <2>. QED
    BY <1>3, <1>4, <2>2
<1>. QED
  BY <1>8, <1>9

\* Induction up to N, over the set of the numbers that a fact holds of.
LEMMA UpTo ==
    ASSUME NEW N \in Nat, NEW T, 0 \in T,
           \A n \in 1..N : n - 1 \in T => n \in T
    PROVE  \A n \in 0..N : n \in T
<1>. SUFFICES ASSUME NEW n \in 0..N, n \notin T PROVE FALSE
  OBVIOUS
<1>. DEFINE S == {m \in 0..N : m \notin T}
<1>1. S \in SUBSET Nat /\ S # {}
  OBVIOUS
<1>2. PICK x \in S : \A y \in S : x <= y
  <2>. HIDE DEF S
  <2>. QED
    BY <1>1, LeastNumber
<1>3. x # 0 /\ x \in 1..N
  OBVIOUS
<1>4. x - 1 \in 0..N /\ x - 1 \notin S
  BY <1>2, <1>3
<1>. QED
  BY <1>3, <1>4

\* A result at least as good in every case has at least the sum, and leaves the others at
\* most theirs.
LEMMA SumsOrder ==
    ASSUME contest \in Contests, contest.kind # "absolute",
           NEW s \in [1..NumCases -> Verdicts], NEW t \in [1..NumCases -> Verdicts],
           \A k \in 1..NumCases : NoWorse(s[k], t[k]),
           NEW x, NEW y, Sums(s, NumCases, x, y), NEW u, NEW v, Sums(t, NumCases, u, v)
    PROVE  u <= x /\ \A p \in Participants : y[p] <= v[p]
<1>. DEFINE D == NumCases
<1>1. D \in Nat
  BY NumCasesType
<1>2. PICK f \in [0..D -> Nat], g \in [0..D -> [Participants -> Nat]] :
         /\ f[0] = 0 /\ \A p \in Participants : g[0][p] = 0
         /\ f[D] = x /\ g[D] = y
         /\ \A k \in 1..D : \E a \in Nat, b \in [Participants -> Nat] :
               /\ Adds(s, k, a, b)
               /\ f[k] = f[k - 1] + a
               /\ \A p \in Participants : g[k][p] = g[k - 1][p] + b[p]
  BY DEF Sums, Grows
<1>3. PICK h \in [0..D -> Nat], j \in [0..D -> [Participants -> Nat]] :
         /\ h[0] = 0 /\ \A p \in Participants : j[0][p] = 0
         /\ h[D] = u /\ j[D] = v
         /\ \A k \in 1..D : \E a \in Nat, b \in [Participants -> Nat] :
               /\ Adds(t, k, a, b)
               /\ h[k] = h[k - 1] + a
               /\ \A p \in Participants : j[k][p] = j[k - 1][p] + b[p]
  BY DEF Sums, Grows
<1>. DEFINE T == {k \in 0..D : h[k] <= f[k] /\ \A p \in Participants : g[k][p] <= j[k][p]}
<1>4. 0 \in T
  BY <1>1, <1>2, <1>3
<1>5. ASSUME NEW k \in 1..D, k - 1 \in T
      PROVE  k \in T
  <2>1. PICK a \in Nat, b \in [Participants -> Nat] :
           /\ Adds(s, k, a, b)
           /\ f[k] = f[k - 1] + a
           /\ \A p \in Participants : g[k][p] = g[k - 1][p] + b[p]
    BY <1>2
  <2>2. PICK c \in Nat, e \in [Participants -> Nat] :
           /\ Adds(t, k, c, e)
           /\ h[k] = h[k - 1] + c
           /\ \A p \in Participants : j[k][p] = j[k - 1][p] + e[p]
    BY <1>3
  <2>3. c <= a /\ \A p \in Participants : b[p] <= e[p]
    BY <2>1, <2>2, AddsOrder
  <2>4. k - 1 \in 0..D /\ k \in 0..D
    BY <1>1
  <2>5. h[k - 1] <= f[k - 1] /\ \A p \in Participants : g[k - 1][p] <= j[k - 1][p]
    BY <1>5
  <2>6. h[k] <= f[k]
    <3>1. h[k - 1] \in Nat /\ f[k - 1] \in Nat
      BY <2>4
    <3>. QED
      BY <2>1, <2>2, <2>3, <2>5, <3>1
  <2>7. ASSUME NEW p \in Participants
        PROVE  g[k][p] <= j[k][p]
    <3>1. g[k - 1][p] \in Nat /\ j[k - 1][p] \in Nat /\ b[p] \in Nat /\ e[p] \in Nat
      BY <2>4
    <3>. QED
      BY <2>1, <2>2, <2>3, <2>5, <3>1
  <2>. QED
    BY <2>4, <2>6, <2>7
<1>6. \A k \in 0..D : k \in T
  <2>. HIDE DEF T, D
  <2>. QED
    BY <1>1, <1>4, <1>5, UpTo
<1>7. D \in T
  BY <1>1, <1>6
<1>. QED
  BY <1>2, <1>3, <1>7

-----------------------------------------------------------------------------
(* The rank by relative scores.                                            *)

\* The rank r, and twice the one for the performance, d, of sum o beside the sums t.
RankedRelative(o, t, r, d) ==
    \/ o = 0 /\ r = LastRank /\ d = 2 * LastRank
    \/ /\ o # 0
       /\ LET better == Cardinality({p \in Participants : t[p] > o})
              tied == Cardinality({p \in Participants : t[p] = o})
          IN  /\ r = better + 1
              /\ d = 2 * (better + 1) + (IF tied = 0 THEN 0 ELSE tied - 1)

\* A higher sum, beside lower ones, has at least as high a rank; ties move it by half
\* ranks, and never past that.
LEMMA RelativeRankOrder ==
    ASSUME contest \in Contests, contest.kind # "absolute", Consistent,
           NEW o \in Nat, NEW q \in Nat, q <= o,
           NEW t \in [Participants -> Nat], NEW w \in [Participants -> Nat],
           \A p \in Participants : t[p] <= w[p],
           \A p \in Participants : t[p] > 0 => p \in Scoring,
           \A p \in Participants : w[p] > 0 => p \in Scoring,
           NEW r, NEW d, RankedRelative(o, t, r, d), NEW m, NEW e, RankedRelative(q, w, m, e)
    PROVE  r \in Int /\ d \in Int /\ m \in Int /\ e \in Int /\ r <= m /\ d <= e
<1>1. LastRank \in Int
  BY PlacesFacts
<1>2. ASSUME NEW x \in Nat, NEW y \in [Participants -> Nat],
             \A p \in Participants : y[p] > 0 => p \in Scoring,
             NEW k, NEW l, RankedRelative(x, y, k, l)
      PROVE  /\ k \in Int /\ l \in Int /\ k <= LastRank /\ l <= 2 * LastRank
             /\ x # 0 =>
                  /\ Cardinality(Above(x, y)) \in Nat /\ Cardinality(Tied(x, y)) \in Nat
                  /\ IsFiniteSet(Above(x, y)) /\ IsFiniteSet(Tied(x, y))
                  /\ Cardinality(Above(x, y) \cup Tied(x, y)) = Cardinality(Above(x, y)) + Cardinality(Tied(x, y))
  <2>. DEFINE A == Above(x, y)
              E == Tied(x, y)
              a == Cardinality(A)
              b == Cardinality(E)
  <2>1. CASE x = 0
    BY <1>1, <1>2, <2>1 DEF RankedRelative
  <2>2. CASE x # 0
    <3>1. k = a + 1 /\ l = 2 * (a + 1) + (IF b = 0 THEN 0 ELSE b - 1)
      BY <1>2, <2>2 DEF RankedRelative, Above, Tied
    <3>2. /\ a \in Nat /\ b \in Nat /\ a + b <= Cardinality(Scoring)
          /\ Cardinality(Scoring) \in Nat
          /\ IsFiniteSet(A) /\ IsFiniteSet(E)
          /\ Cardinality(A \cup E) = a + b
      <4>1. x \in Nat \ {0}
        BY <1>2, <2>2
      <4>. QED
        BY <1>2, <4>1, RankCounts
    <3>3. Cardinality(Scoring) < LastRank
      BY DEF Consistent
    <3>. HIDE DEF a, b
    <3>4. k \in Int /\ l \in Int /\ k <= LastRank /\ l <= 2 * LastRank
      BY <1>1, <3>1, <3>2, <3>3
    <3>. QED
      BY <3>2, <3>4 DEF a, b
  <2>. QED
    BY <2>1, <2>2
<1>3. /\ r \in Int /\ d \in Int /\ r <= LastRank /\ d <= 2 * LastRank
      /\ m \in Int /\ e \in Int
  BY <1>2
<1>4. CASE q = 0
  <2>1. m = LastRank /\ e = 2 * LastRank
    BY <1>4 DEF RankedRelative
  <2>. QED
    BY <1>3, <2>1
<1>5. CASE q # 0
  <2>. DEFINE A == Above(o, t)
              C == Tied(o, t)
              F == Above(q, w)
              G == Tied(q, w)
              a == Cardinality(A)
              c == Cardinality(C)
              f == Cardinality(F)
              g == Cardinality(G)
  <2>1. o # 0
    BY <1>5
  <2>2. /\ r = a + 1 /\ d = 2 * (a + 1) + (IF c = 0 THEN 0 ELSE c - 1)
        /\ m = f + 1 /\ e = 2 * (f + 1) + (IF g = 0 THEN 0 ELSE g - 1)
    BY <1>5, <2>1 DEF RankedRelative, Above, Tied
  <2>3. A \subseteq F /\ A \cup C \subseteq F \cup G
    <3>. SUFFICES ASSUME NEW p \in Participants
                  PROVE  /\ t[p] > o => w[p] > q
                         /\ t[p] = o => w[p] > q \/ w[p] = q
      BY DEF Above, Tied
    <3>1. t[p] \in Nat /\ w[p] \in Nat /\ t[p] <= w[p]
      OBVIOUS
    <3>. QED
      BY <3>1
  <2>4. /\ a \in Nat /\ c \in Nat /\ f \in Nat /\ g \in Nat
        /\ IsFiniteSet(F) /\ IsFiniteSet(G)
        /\ Cardinality(A \cup C) = a + c /\ Cardinality(F \cup G) = f + g
    BY <1>2, <1>5, <2>1
  <2>. HIDE DEF A, C, F, G
  <2>5. a <= f
    BY <2>3, <2>4, FS_Subset
  <2>6. a + c <= f + g
    <3>1. IsFiniteSet(F \cup G)
      BY <2>4, FS_Union
    <3>2. Cardinality(A \cup C) <= Cardinality(F \cup G)
      BY <2>3, <3>1, FS_Subset
    <3>. QED
      BY <2>4, <3>2
  <2>. HIDE DEF a, c, f, g
  <2>. QED
    BY <1>3, <2>2, <2>4, <2>5, <2>6
<1>. QED
  BY <1>4, <1>5

\* The rank r, and twice the one for the performance, d, of the result s.
RankedFor(s, r, d) ==
    IF contest.kind = "absolute" THEN RankedAbsolute(AbsoluteOf(s), r, d)
    ELSE \E o \in Nat, t \in [Participants -> Nat] :
            /\ Sums(s, NumCases, o, t)
            /\ \A p \in Participants : t[p] > 0 => p \in Scoring
            /\ RankedRelative(o, t, r, d)

\* A result at least as good in every case is ranked at least as high, in the standings
\* and in the map.
LEMMA RankedOrder ==
    ASSUME contest \in Contests, Consistent,
           NEW s \in [1..NumCases -> Verdicts], NEW t \in [1..NumCases -> Verdicts],
           \A k \in 1..NumCases : NoWorse(s[k], t[k]),
           NEW r, NEW d, RankedFor(s, r, d), NEW m, NEW e, RankedFor(t, m, e)
    PROVE  r \in Int /\ d \in Int /\ m \in Int /\ e \in Int /\ r <= m /\ d <= e
<1>1. CASE contest.kind = "absolute"
  <2>1. NumCases = AbsoluteCases
    BY <1>1 DEF NumCases
  <2>2. AbsoluteOf(t) <= AbsoluteOf(s) /\ AbsoluteOf(t) \in Nat /\ AbsoluteOf(s) \in Nat
    BY <1>1, <2>1, AbsoluteOrder, AbsoluteOfFacts
  <2>3. RankedAbsolute(AbsoluteOf(s), r, d) /\ RankedAbsolute(AbsoluteOf(t), m, e)
    BY <1>1 DEF RankedFor
  <2>. QED
    BY <1>1, <2>2, <2>3, AbsoluteRankOrder
<1>2. CASE contest.kind # "absolute"
  <2>1. PICK o \in Nat, y \in [Participants -> Nat] :
           /\ Sums(s, NumCases, o, y) /\ RankedRelative(o, y, r, d)
           /\ \A p \in Participants : y[p] > 0 => p \in Scoring
    BY <1>2 DEF RankedFor
  <2>2. PICK q \in Nat, w \in [Participants -> Nat] :
           /\ Sums(t, NumCases, q, w) /\ RankedRelative(q, w, m, e)
           /\ \A p \in Participants : w[p] > 0 => p \in Scoring
    BY <1>2 DEF RankedFor
  <2>3. q <= o /\ \A p \in Participants : y[p] <= w[p]
    BY <1>2, <2>1, <2>2, SumsOrder
  <2>. QED
    BY <1>2, <2>1, <2>2, <2>3, RelativeRankOrder
<1>. QED
  BY <1>1, <1>2

-----------------------------------------------------------------------------
(* Where every placement comes from.                                       *)

SumsKnown == pc = "cases" => Sums(sub, done, own, totals)

RankKnown ==
    pc \in {"look", "search", "placed"} =>
        sub \in [1..NumCases -> Verdicts] /\ RankedFor(sub, rank, perfRank)

PerformanceKnown == pc = "placed" => Given(perfRank, performance)

BeforeKnown ==
    before # NotYet =>
        /\ before.sub \in [1..NumCases -> Verdicts]
        /\ \E d \in Int : RankedFor(before.sub, before.rank, d) /\ Given(d, before.performance)

\* Each placement, the one before it too, is that of its own verdicts: nothing of
\* another is left in the sums, the ranks or the search.
PlacedInv == SumsKnown /\ RankKnown /\ PerformanceKnown /\ BeforeKnown

\* The tables are those of the contest, and stay as they are with it.
LEMMA FrozenRows ==
    ASSUME contest' = contest
    PROVE  /\ Rows' = Rows /\ LastRow' = LastRow /\ KeyRows' = KeyRows
           /\ Places' = Places /\ LastPlace' = LastPlace /\ Self' = Self
           /\ Participants' = Participants /\ LastRank' = LastRank /\ NumCases' = NumCases
           /\ Scoring' = Scoring
           /\ \A i : /\ KeyOf(i)' = KeyOf(i) /\ RowRank(i)' = RowRank(i)
                     /\ RowPerf(i)' = RowPerf(i)
                     /\ PlaceRank(i)' = PlaceRank(i) /\ PlaceScore(i)' = PlaceScore(i)
<1>1. Participants' = Participants /\ NumCases' = NumCases
  BY DEF Participants, NumCases
<1>2. Scoring' = Scoring
  BY <1>1 DEF Scoring
<1>. QED
  BY <1>1, <1>2 DEF Rows, LastRow, KeyRows, Places, LastPlace, Self, LastRank, KeyOf, RowRank,
                    RowPerf, PlaceRank, PlaceScore

\* So does what the map gives a rank,
LEMMA FrozenGiven ==
    ASSUME contest' = contest, NEW r, NEW v
    PROVE  Given(r, v)' <=> Given(r, v)
  BY FrozenRows DEF Given, Bracket, Line, Round

\* what a case adds,
LEMMA FrozenAdds ==
    ASSUME contest' = contest, NEW s, NEW k, NEW x, NEW y
    PROVE  Adds(s, k, x, y)' <=> Adds(s, k, x, y)
<1>1. \A c : Accepted(c)' = Accepted(c)
  BY DEF Accepted
<1>2. \A a, b : Better(a, b)' <=> Better(a, b)
  BY DEF Better, LessIsBetter
<1>3. \A c : BestScores(c)' = BestScores(c)
  BY <1>1, <1>2 DEF BestScores
<1>4. \A c : CaseRaises(c)' = CaseRaises(c)
  BY <1>1 DEF CaseRaises
<1>5. ASSUME NEW c, NEW a
      PROVE  RankScore(c, a)' = RankScore(c, a)
  <2>1. {v \in 1..Len(c) : c[v] >= 0 /\ Better(c[v], a)}'
           = {v \in 1..Len(c) : c[v] >= 0 /\ Better(c[v], a)}
    BY <1>2
  <2>. QED
    BY <2>1 DEF RankScore, Round
<1>6. \A c, b, a : RelativeScore(c, b, a)' = RelativeScore(c, b, a)
  BY <1>5 DEF RelativeScore, RoundUp
<1>. QED
  BY <1>1, <1>2, <1>3, <1>4, <1>5, <1>6, FrozenRows DEF Adds, CaseWith

\* the sums of a result
LEMMA FrozenSums ==
    ASSUME contest' = contest, NEW s, NEW d, NEW o, NEW t
    PROVE  Sums(s, d, o, t)' <=> Sums(s, d, o, t)
<1>1. \A k, x, y : Adds(s, k, x, y)' <=> Adds(s, k, x, y)
  BY FrozenAdds
<1>2. Participants' = Participants
  BY FrozenRows
<1>3. \A k, f, g : Grows(s, k, f, g)' <=> Grows(s, k, f, g)
  BY <1>1, <1>2 DEF Grows
<1>. QED
  BY <1>2, <1>3 DEF Sums

\* and its ranks.
LEMMA FrozenRanked ==
    ASSUME contest' = contest, NEW s, NEW r, NEW d
    PROVE  RankedFor(s, r, d)' <=> RankedFor(s, r, d)
<1>1. ASSUME NEW a
      PROVE  RankedAbsolute(a, r, d)' <=> RankedAbsolute(a, r, d)
  BY FrozenRows DEF RankedAbsolute, Highest, EndOf
<1>2. ASSUME NEW o, NEW t
      PROVE  RankedRelative(o, t, r, d)' <=> RankedRelative(o, t, r, d)
  BY FrozenRows DEF RankedRelative
<1>3. AbsoluteOf(s)' = AbsoluteOf(s)
  BY DEF AbsoluteOf
<1>4. NumCases' = NumCases /\ Participants' = Participants /\ Scoring' = Scoring
  BY FrozenRows
<1>. QED
  BY <1>1, <1>2, <1>3, <1>4, FrozenSums DEF RankedFor

\* A round of the recalculation adds what its case adds.
LEMMA SumsGrow ==
    ASSUME StandingsInv, SumsKnown, Recalculate
    PROVE  Sums(sub, done + 1, own', totals')
<1>. DEFINE k == done + 1
            c == CaseOf(k)
<1>1. /\ contest \in Contests /\ contest.kind # "absolute"
      /\ sub \in [1..NumCases -> Verdicts] /\ NumCases \in Nat
      /\ done \in Nat /\ k \in 1..NumCases
      /\ own \in Nat /\ totals \in [Participants -> Nat]
  BY NumCasesType DEF StandingsInv, TypeOK, Submitted, Recalculate
<1>2. c = CaseWith(sub, k)
  BY DEF CaseOf, CaseWith, NewScore, Passed
<1>3. PICK best \in BestScores(c) :
         /\ own' = own + RelativeScore(c, best, NewScore(k))
         /\ totals' = [p \in Participants |-> totals[p] + RelativeScore(c, best, c[p])]
  BY DEF Recalculate
<1>4. ~CaseRaises(c)
  BY DEF Recalculate
<1>5. /\ c \in Seq(CaseScores \cup {Rejected}) /\ Len(c) = Self
      /\ Self \in Nat /\ Self > 1 /\ Participants = 1..(Self - 1)
      /\ c[Self] = Passed(sub[k])
  BY <1>1, <1>2, CaseWithFacts
<1>6. NewScore(k) = c[Self]
  BY <1>5 DEF NewScore, Passed
<1>. DEFINE x == RelativeScore(c, best, c[Self])
            y == [p \in Participants |-> RelativeScore(c, best, c[p])]
<1>. HIDE DEF c
<1>7. Self \in 1..Len(c) /\ \A p \in Participants : p \in 1..Len(c)
  BY <1>5
<1>8. x \in Nat /\ y \in [Participants -> Nat]
  BY <1>1, <1>3, <1>4, <1>5, <1>7, RelativeScoreType
<1>9. Adds(sub, k, x, y)
  BY <1>2, <1>3, <1>4 DEF Adds
<1>10. own' = own + x /\ totals' \in [Participants -> Nat]
       /\ \A p \in Participants : totals'[p] = totals[p] + y[p]
  BY <1>1, <1>3, <1>6, <1>8
<1>11. Sums(sub, done, own, totals)
  BY DEF SumsKnown, Recalculate
<1>12. PICK f \in [0..done -> Nat], g \in [0..done -> [Participants -> Nat]] :
          /\ f[0] = 0 /\ \A p \in Participants : g[0][p] = 0
          /\ f[done] = own /\ g[done] = totals
          /\ \A i \in 1..done : \E a \in Nat, b \in [Participants -> Nat] :
                /\ Adds(sub, i, a, b)
                /\ f[i] = f[i - 1] + a
                /\ \A p \in Participants : g[i][p] = g[i - 1][p] + b[p]
  BY <1>11 DEF Sums, Grows
<1>. HIDE DEF x, y
<1>. DEFINE h == [i \in 0..k |-> IF i = k THEN own' ELSE f[i]]
            j == [i \in 0..k |-> IF i = k THEN totals' ELSE g[i]]
<1>13. /\ h \in [0..k -> Nat] /\ j \in [0..k -> [Participants -> Nat]]
       /\ h[k] = own' /\ j[k] = totals'
       /\ \A i \in 0..done : i \in 0..k /\ h[i] = f[i] /\ j[i] = g[i]
  <2>1. own' \in Nat
    BY <1>1, <1>8, <1>10
  <2>2. \A i \in 0..k : i = k \/ i \in 0..done
    BY <1>1
  <2>3. k \in 0..k /\ \A i \in 0..done : i \in 0..k /\ i # k
    BY <1>1
  <2>. QED
    BY <1>10, <2>1, <2>2, <2>3
<1>14. h[0] = 0 /\ \A p \in Participants : j[0][p] = 0
  <2>1. 0 \in 0..done
    BY <1>1
  <2>. QED
    BY <1>12, <1>13, <2>1
<1>15. ASSUME NEW i \in 1..k
       PROVE  \E a \in Nat, b \in [Participants -> Nat] :
                 /\ Adds(sub, i, a, b)
                 /\ h[i] = h[i - 1] + a
                 /\ \A p \in Participants : j[i][p] = j[i - 1][p] + b[p]
  <2>1. CASE i = k
    <3>1. i - 1 = done /\ done \in 0..done
      BY <1>1, <2>1
    <3>2. h[i - 1] = own /\ j[i - 1] = totals /\ h[i] = own' /\ j[i] = totals'
      BY <1>12, <1>13, <2>1, <3>1
    <3>. HIDE DEF h, j, k
    <3>. QED
      BY <1>8, <1>9, <1>10, <2>1, <3>2
  <2>2. CASE i # k
    <3>1. i \in 1..done /\ i \in 0..done /\ i - 1 \in 0..done
      BY <1>1, <2>2
    <3>2. h[i] = f[i] /\ h[i - 1] = f[i - 1] /\ j[i] = g[i] /\ j[i - 1] = g[i - 1]
      BY <1>13, <3>1
    <3>. HIDE DEF h, j, k
    <3>. QED
      BY <1>12, <3>1, <3>2
  <2>. QED
    BY <2>1, <2>2
<1>. HIDE DEF h, j
<1>16. Sums(sub, k, own', totals')
  BY <1>13, <1>14, <1>15 DEF Sums, Grows
<1>. QED
  BY <1>16

\* No step puts another result into the sums.
LEMMA SumsStep ==
    ASSUME StandingsInv, RecalculationKeepsOrder, SumsKnown, [Next]_vars
    PROVE  SumsKnown'
<1>. SUFFICES ASSUME pc' = "cases" PROVE Sums(sub, done, own, totals)'
  BY DEF SumsKnown
<1>1. contest' = contest
  BY Frozen
<1>2. ASSUME Sums(sub', done', own', totals')
      PROVE  Sums(sub, done, own, totals)'
  <2>1. PICK s, d, o, t : s = sub' /\ d = done' /\ o = own' /\ t = totals'
    OBVIOUS
  <2>2. Sums(s, d, o, t)
    BY <1>2, <2>1
  <2>3. Sums(s, d, o, t)'
    BY <1>1, <2>2, FrozenSums
  <2>. QED
    BY <2>1, <2>3
<1>3. CASE Recalculate
  <2>1. Sums(sub, done + 1, own', totals')
    BY <1>3, SumsGrow
  <2>2. sub' = sub /\ done' = done + 1
    BY <1>3 DEF Recalculate
  <2>. QED
    BY <1>2, <2>1, <2>2
<1>4. CASE \E s \in [1..NumCases -> Verdicts] : Submit(s)
  <2>1. /\ done = 0 /\ UNCHANGED <<done, own, totals>> /\ contest.kind # "absolute"
    BY <1>4 DEF Submit, StandingsInv, Submitted
  <2>2. own \in Nat /\ totals \in [Participants -> Nat] /\ MaxScore \in Nat
    BY StandingsAssumption DEF StandingsInv, TypeOK
  <2>3. own <= done * MaxScore /\ \A p \in Participants : totals[p] <= done * MaxScore
    BY <2>1 DEF RecalculationKeepsOrder
  <2>4. done * MaxScore = 0
    BY <2>1, <2>2
  <2>5. own = 0
    BY <2>2, <2>3, <2>4
  <2>6. \A p \in Participants : totals[p] = 0
    <3>. TAKE p \in Participants
    <3>1. totals[p] \in Nat /\ totals[p] <= 0
      BY <2>2, <2>3, <2>4
    <3>. QED
      BY <3>1
  <2>. DEFINE f == [i \in 0..0 |-> own]
              g == [i \in 0..0 |-> totals]
  <2>7. /\ f \in [0..0 -> Nat] /\ g \in [0..0 -> [Participants -> Nat]]
        /\ f[0] = own /\ g[0] = totals /\ 1..0 = {}
    BY <2>2
  <2>. HIDE DEF f, g
  <2>8. \A s : Sums(s, 0, own, totals)
    BY <2>5, <2>6, <2>7 DEF Sums
  <2>. QED
    BY <1>2, <2>1, <2>8
<1>5. CASE UNCHANGED <<sub, done, own, totals>> /\ pc = "cases"
  <2>1. Sums(sub, done, own, totals)
    BY <1>5 DEF SumsKnown
  <2>. QED
    BY <1>2, <1>5, <2>1
<1>6. \/ Recalculate \/ \E s \in [1..NumCases -> Verdicts] : Submit(s)
      \/ UNCHANGED <<sub, done, own, totals>> /\ pc = "cases"
  BY DEF Next, vars, RecalculateRaises, RankRelative, RankLowest, RankAbsolute, Ranked, LookUp,
         BeginSearch, Narrow, Interpolate, Again
<1>. QED
  BY <1>3, <1>4, <1>5, <1>6

\* However get_new_rank ends, the ranks are those of the result.
LEMMA RankedGives ==
    ASSUME StandingsInv, SumsKnown, RankRelative \/ RankLowest \/ RankAbsolute
    PROVE  sub \in [1..NumCases -> Verdicts] /\ sub' = sub /\ RankedFor(sub, rank', perfRank')
<1>1. /\ contest \in Contests /\ own \in Nat /\ totals \in [Participants -> Nat]
  BY DEF StandingsInv, TypeOK
<1>2. AbsoluteScore = AbsoluteOf(sub)
  BY DEF AbsoluteScore, AbsoluteOf
<1>3. sub \in [1..NumCases -> Verdicts] /\ sub' = sub
  BY DEF StandingsInv, Submitted, RankRelative, RankLowest, RankAbsolute, Ranked
<1>4. CASE pc = "cases"
  <2>1. /\ contest.kind # "absolute" /\ done = NumCases
        /\ RankRelative \/ (own = 0 /\ Ranked(LastRank, 2 * LastRank))
    BY <1>4 DEF StandingsInv, Submitted, RankRelative, RankLowest, RankAbsolute
  <2>2. Sums(sub, NumCases, own, totals)
    BY <1>4, <2>1 DEF SumsKnown
  <2>3. RankedRelative(own, totals, rank', perfRank')
    BY <2>1 DEF RankedRelative, RankRelative, Ranked
  <2>4. \A p \in Participants : totals[p] > 0 => p \in Scoring
    BY DEF StandingsInv, Earned
  <2>. QED
    BY <1>1, <1>3, <2>1, <2>2, <2>3, <2>4 DEF RankedFor
<1>5. CASE pc = "rank"
  <2>1. contest.kind = "absolute"
    BY <1>5 DEF StandingsInv, Submitted
  <2>2. RankAbsolute \/ (AbsoluteScore = 0 /\ Ranked(LastRank, 2 * LastRank))
    BY <1>5 DEF RankRelative, RankLowest
  <2>3. CASE RankAbsolute
    <3>1. RankedAbsolute(AbsoluteOf(sub), rank', perfRank')
      BY <1>1, <1>2, <2>3, RankAbsoluteGives
    <3>. QED
      BY <1>3, <2>1, <3>1 DEF RankedFor
  <2>4. CASE AbsoluteScore = 0 /\ Ranked(LastRank, 2 * LastRank)
    <3>1. RankedAbsolute(AbsoluteOf(sub), rank', perfRank')
      BY <1>2, <2>4 DEF RankedAbsolute, Ranked
    <3>. QED
      BY <1>3, <2>1, <3>1 DEF RankedFor
  <2>. QED
    BY <2>2, <2>3, <2>4
<1>. QED
  BY <1>4, <1>5 DEF RankRelative, RankLowest, RankAbsolute

\* The ranks stay those of the result until it is placed,
LEMMA RankKnownStep ==
    ASSUME StandingsInv, SumsKnown, RankKnown, [Next]_vars
    PROVE  RankKnown'
<1>. SUFFICES ASSUME pc' \in {"look", "search", "placed"}
              PROVE  (sub \in [1..NumCases -> Verdicts] /\ RankedFor(sub, rank, perfRank))'
  BY DEF RankKnown
<1>1. contest' = contest /\ NumCases' = NumCases
  BY Frozen
<1>2. sub' = sub /\ sub \in [1..NumCases -> Verdicts] /\ RankedFor(sub, rank', perfRank')
  <2>1. CASE RankRelative \/ RankLowest \/ RankAbsolute
    BY <2>1, RankedGives
  <2>2. CASE UNCHANGED <<sub, rank, perfRank>> /\ pc \in {"look", "search", "placed"}
    BY <2>2 DEF RankKnown
  <2>3. \/ RankRelative \/ RankLowest \/ RankAbsolute
        \/ UNCHANGED <<sub, rank, perfRank>> /\ pc \in {"look", "search", "placed"}
    BY DEF Next, vars, Submit, Recalculate, RecalculateRaises, LookUp, BeginSearch, Narrow,
           Interpolate, Again
  <2>. QED
    BY <2>1, <2>2, <2>3
<1>3. PICK s, r, d : s = sub' /\ r = rank' /\ d = perfRank'
  OBVIOUS
<1>4. RankedFor(s, r, d)
  BY <1>2, <1>3
<1>5. RankedFor(s, r, d)'
  BY <1>1, <1>4, FrozenRanked
<1>6. RankedFor(sub, rank, perfRank)'
  BY <1>3, <1>5
<1>. QED
  BY <1>1, <1>2, <1>6

\* the performance is the one of the ranks,
LEMMA PerformanceStep ==
    ASSUME StandingsInv, PerformanceKnown, [Next]_vars
    PROVE  PerformanceKnown'
<1>. SUFFICES ASSUME pc' = "placed" PROVE Given(perfRank, performance)'
  BY DEF PerformanceKnown
<1>1. contest' = contest
  BY Frozen
<1>2. perfRank' = perfRank /\ Given(perfRank, performance')
  <2>1. CASE LookUp
    BY <2>1, LookUpGives DEF LookUp
  <2>2. CASE Interpolate
    BY <2>2, InterpolateGives DEF Interpolate
  <2>3. CASE UNCHANGED vars /\ pc = "placed"
    BY <2>3 DEF PerformanceKnown, vars
  <2>4. LookUp \/ Interpolate \/ (UNCHANGED vars /\ pc = "placed")
    BY DEF Next, vars, Submit, Recalculate, RecalculateRaises, RankRelative, RankLowest,
           RankAbsolute, Ranked, BeginSearch, Narrow, Again
  <2>. QED
    BY <2>1, <2>2, <2>3, <2>4
<1>3. PICK r, v : r = perfRank' /\ v = performance'
  OBVIOUS
<1>4. Given(r, v)
  BY <1>2, <1>3
<1>5. Given(r, v)'
  BY <1>1, <1>4, FrozenGiven
<1>. QED
  BY <1>3, <1>5

\* and what is remembered of the result before is all three.
LEMMA BeforeStep ==
    ASSUME StandingsInv, RankKnown, PerformanceKnown, BeforeKnown, [Next]_vars
    PROVE  BeforeKnown'
<1>. SUFFICES ASSUME before' # NotYet
              PROVE  (/\ before.sub \in [1..NumCases -> Verdicts]
                      /\ \E d \in Int : /\ RankedFor(before.sub, before.rank, d)
                                        /\ Given(d, before.performance))'
  BY DEF BeforeKnown, NotYet
<1>1. contest' = contest /\ NumCases' = NumCases
  BY Frozen
<1>2. /\ before'.sub \in [1..NumCases -> Verdicts]
      /\ \E d \in Int : RankedFor(before'.sub, before'.rank, d) /\ Given(d, before'.performance)
  <2>1. CASE Again /\ pc = "placed"
    <3>1. before'.sub = sub /\ before'.rank = rank /\ before'.performance = performance
      BY <2>1 DEF Again
    <3>2. /\ sub \in [1..NumCases -> Verdicts] /\ RankedFor(sub, rank, perfRank)
          /\ Given(perfRank, performance) /\ perfRank \in Int
      BY <2>1 DEF RankKnown, PerformanceKnown, StandingsInv, TypeOK
    <3>. QED
      BY <3>1, <3>2
  <2>2. CASE before' = before
    BY <2>2 DEF BeforeKnown
  <2>3. before' = before \/ (Again /\ pc = "placed")
    BY DEF Next, vars, Submit, Recalculate, RecalculateRaises, RankRelative, RankLowest,
           RankAbsolute, Ranked, LookUp, BeginSearch, Narrow, Interpolate, Again
  <2>. QED
    BY <2>1, <2>2, <2>3
<1>3. PICK d \in Int : RankedFor(before'.sub, before'.rank, d) /\ Given(d, before'.performance)
  BY <1>2
<1>4. PICK s, r, v : s = before'.sub /\ r = before'.rank /\ v = before'.performance
  OBVIOUS
<1>5. RankedFor(s, r, d) /\ Given(d, v)
  BY <1>3, <1>4
<1>6. RankedFor(s, r, d)' /\ Given(d, v)'
  BY <1>1, <1>5, FrozenRanked, FrozenGiven
<1>7. (RankedFor(before.sub, before.rank, d) /\ Given(d, before.performance))'
  BY <1>4, <1>6
<1>. QED
  BY <1>1, <1>2, <1>7

\* Every placement is that of its own verdicts (get_new_rank, get_performance).
THEOREM StandingsPlacements == Spec => []PlacedInv
<1>1. Init => PlacedInv
  BY DEF Init, PlacedInv, SumsKnown, RankKnown, PerformanceKnown, BeforeKnown
<1>2. StandingsInv /\ RecalculationKeepsOrder /\ PlacedInv /\ [Next]_vars => PlacedInv'
  BY SumsStep, RankKnownStep, PerformanceStep, BeforeStep DEF PlacedInv
<1>. QED
  BY <1>1, <1>2, StandingsInvariant, StandingsRecalculationKeepsOrder, PTL DEF Spec

\* A result at least as good in every case is placed at least as high, in consistent
\* standings of any size and among any cases, although each recalculates the scores of
\* all participants, and whatever performances the standings are paired with
\* (get_new_rank, get_performance).
THEOREM StandingsBetterNeverPlacedWorse == Spec => []BetterNeverPlacedWorse
<1>1. StandingsInv /\ PlacedInv => BetterNeverPlacedWorse
  <2>. SUFFICES ASSUME StandingsInv, PlacedInv, pc = "placed", before # NotYet, Consistent
                PROVE  /\ (\A k \in 1..NumCases : NoWorse(sub[k], before.sub[k])) =>
                             rank <= before.rank /\ performance >= before.performance
                       /\ (\A k \in 1..NumCases : NoWorse(before.sub[k], sub[k])) =>
                             rank >= before.rank /\ performance <= before.performance
    BY DEF BetterNeverPlacedWorse
  <2>1. /\ contest \in Contests
        /\ sub \in [1..NumCases -> Verdicts] /\ RankedFor(sub, rank, perfRank)
        /\ Given(perfRank, performance)
    BY DEF StandingsInv, TypeOK, PlacedInv, RankKnown, PerformanceKnown
  <2>2. before.sub \in [1..NumCases -> Verdicts]
    BY DEF PlacedInv, BeforeKnown
  <2>3. PICK d \in Int : RankedFor(before.sub, before.rank, d) /\ Given(d, before.performance)
    BY DEF PlacedInv, BeforeKnown
  <2>4. ASSUME \A k \in 1..NumCases : NoWorse(sub[k], before.sub[k])
        PROVE  rank <= before.rank /\ performance >= before.performance
    <3>1. perfRank \in Int /\ rank <= before.rank /\ perfRank <= d
      BY <2>1, <2>2, <2>3, <2>4, RankedOrder
    <3>2. performance \in Int /\ before.performance \in Int /\ before.performance <= performance
      BY <2>1, <2>3, <3>1, GivenOrder
    <3>. QED
      BY <3>1, <3>2
  <2>5. ASSUME \A k \in 1..NumCases : NoWorse(before.sub[k], sub[k])
        PROVE  rank >= before.rank /\ performance <= before.performance
    <3>1. perfRank \in Int /\ rank \in Int /\ before.rank \in Int /\ before.rank <= rank
          /\ d <= perfRank
      BY <2>1, <2>2, <2>3, <2>5, RankedOrder
    <3>2. performance <= before.performance
      BY <2>1, <2>3, <3>1, GivenOrder
    <3>. QED
      BY <3>1, <3>2
  <2>. QED
    BY <2>4, <2>5
<1>. QED
  BY <1>1, StandingsInvariant, StandingsPlacements, PTL

\* A placement is between its neighbours of the table of performances, whatever standings
\* it is paired with; of consistent standings of absolute scores; and, where both have the
\* same ranks, between the performances of those above and below it, whatever ties they
\* have (get_new_rank, get_performance).
THEOREM StandingsPlacedBetweenNeighbours == Spec => []PlacedBetweenNeighbours
<1>1. ASSUME StandingsInv, PlacedInv, pc = "placed"
      PROVE  InTable
  <2>1. contest \in Contests /\ perfRank \in Int /\ Given(perfRank, performance)
    BY <1>1 DEF StandingsInv, TypeOK, PlacedInv, PerformanceKnown
  <2>. SUFFICES ASSUME NEW key \in Keys
                PROVE  /\ key <= perfRank => PerformanceAt(key) >= performance
                       /\ key >= perfRank => PerformanceAt(key) <= performance
    BY DEF InTable
  <2>2. PICK h \in KeyRows : KeyOf(h) = key
    BY DEF Keys
  <2>3. PerformanceAt(key) = RowPerf(h) /\ RowPerf(h) \in Int /\ key \in Int
    <3>1. h \in Rows /\ KeyOf(h) \in Int
      BY <2>1, KeyRowFacts
    <3>2. RowPerf(h) \in Int
      BY <2>1, <3>1, RowsFacts
    <3>. QED
      BY <2>1, <2>2, <3>1, <3>2, PerformanceAtKey
  <2>4. /\ performance \in Int
        /\ perfRank <= key => performance >= RowPerf(h)
        /\ key <= perfRank => performance <= RowPerf(h)
    BY <2>1, <2>2, GivenBetween
  <2>. QED
    BY <2>1, <2>3, <2>4
<1>2. ASSUME StandingsInv, PlacedInv, pc = "placed", contest.kind = "absolute"
      PROVE  /\ contest \in Contests /\ AbsoluteScore \in Nat
             /\ RankedAbsolute(AbsoluteScore, rank, perfRank)
  <2>1. /\ contest \in Contests
        /\ sub \in [1..AbsoluteCases -> Verdicts] /\ RankedFor(sub, rank, perfRank)
    BY <1>2 DEF StandingsInv, TypeOK, PlacedInv, RankKnown, NumCases
  <2>2. AbsoluteScore = AbsoluteOf(sub) /\ AbsoluteOf(sub) \in Nat
    BY <2>1, AbsoluteOfFacts DEF AbsoluteScore, AbsoluteOf
  <2>. QED
    BY <1>2, <2>1, <2>2 DEF RankedFor
<1>3. ASSUME StandingsInv, PlacedInv, pc = "placed", contest.kind = "absolute", Consistent
      PROVE  InStandings
  <2>. DEFINE A == AbsoluteScore
  <2>1. contest \in Contests /\ A \in Nat /\ RankedAbsolute(A, rank, perfRank)
    BY <1>2, <1>3
  <2>. HIDE DEF A
  <2>2. \A i \in Places :
           /\ PlaceScore(i) > A => PlaceRank(i) < rank /\ 2 * PlaceRank(i) < perfRank
           /\ PlaceScore(i) = A => rank <= PlaceRank(i)
           /\ PlaceScore(i) < A => rank <= PlaceRank(i) /\ perfRank <= 2 * PlaceRank(i)
    BY <1>3, <2>1, AbsolutePlace
  <2>. QED
    BY <2>2 DEF A, InStandings, Places, LastPlace, PlaceRank, PlaceScore
<1>4. ASSUME StandingsInv, PlacedInv, pc = "placed", contest.kind = "absolute", Consistent,
             SameRanks
      PROVE  AmongPeers
  <2>. DEFINE A == AbsoluteScore
              peers(i) == {RowPerf(j) : j \in {h \in Rows : PlaceScore(h) = PlaceScore(i)}}
  <2>1. /\ contest \in Contests /\ A \in Nat /\ RankedAbsolute(A, rank, perfRank)
        /\ perfRank \in Int /\ Given(perfRank, performance)
    BY <1>2, <1>4 DEF StandingsInv, TypeOK, PlacedInv, PerformanceKnown
  <2>. HIDE DEF A
  <2>2. \A h \in KeyRows : /\ h \in Rows /\ RowPerf(h) \in Int /\ performance \in Int
                           /\ perfRank <= KeyOf(h) => performance >= RowPerf(h)
                           /\ KeyOf(h) <= perfRank => performance <= RowPerf(h)
    <3>. TAKE h \in KeyRows
    <3>1. h \in Rows
      BY <2>1, KeyRowFacts
    <3>2. RowPerf(h) \in Int
      BY <2>1, <3>1, RowsFacts
    <3>. QED
      BY <2>1, <3>1, <3>2, GivenBetween
  <2>3. ASSUME NEW i \in Rows
        PROVE  /\ PlaceScore(i) > A => RowPerf(i) >= performance
               /\ PlaceScore(i) < A => RowPerf(i) <= performance
               /\ PlaceScore(i) = A =>
                     \E p, q \in peers(i) : p <= performance /\ performance <= q
    <3>1. ASSUME PlaceScore(i) > A
          PROVE  RowPerf(i) >= performance
      <4>1. PICK h \in KeyRows : RowPerf(h) = RowPerf(i) /\ KeyOf(h) <= perfRank
        BY <1>4, <2>1, <3>1, AbsolutePeers
      <4>. QED
        BY <2>2, <4>1
    <3>2. ASSUME PlaceScore(i) < A
          PROVE  RowPerf(i) <= performance
      <4>1. PICK h \in KeyRows : RowPerf(h) = RowPerf(i) /\ perfRank <= KeyOf(h)
        BY <1>4, <2>1, <3>2, AbsolutePeers
      <4>. QED
        BY <2>2, <4>1
    <3>3. ASSUME PlaceScore(i) = A
          PROVE  \E p, q \in peers(i) : p <= performance /\ performance <= q
      <4>1. PICK h \in KeyRows, k \in KeyRows :
               /\ PlaceScore(h) = A /\ KeyOf(h) <= perfRank
               /\ PlaceScore(k) = A /\ perfRank <= KeyOf(k)
        BY <1>4, <2>1, <3>3, AbsolutePeers
      <4>2. performance <= RowPerf(h) /\ RowPerf(k) <= performance
        BY <2>2, <4>1
      <4>3. RowPerf(h) \in peers(i) /\ RowPerf(k) \in peers(i)
        BY <2>2, <3>3, <4>1
      <4>. QED
        BY <4>2, <4>3
    <3>. HIDE DEF peers
    <3>. QED
      BY <3>1, <3>2, <3>3
  <2>. QED
    BY <2>3 DEF A, AmongPeers, Rows, LastRow, RowPerf, PlaceScore
<1>5. StandingsInv /\ PlacedInv => PlacedBetweenNeighbours
  BY <1>1, <1>3, <1>4 DEF PlacedBetweenNeighbours
<1>. QED
  BY <1>5, StandingsInvariant, StandingsPlacements, PTL

=============================================================================
