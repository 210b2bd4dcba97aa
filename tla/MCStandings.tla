----------------------------- MODULE MCStandings -----------------------------
(* Values of Standings' constants for TLC.                                 *)
EXTENDS Standings

Absolute(standings, raw, partial) ==
    [kind |-> "absolute", partial |-> partial, standings |-> standings, raw |-> raw,
     cases |-> <<>>]

\* Of the standings of relative scores only the last rank counts.
Relative(kind, last, raw, cases) ==
    [kind |-> kind, partial |-> TRUE, standings |-> <<<<1, 9>>, <<last, 0>>>>, raw |-> raw,
     cases |-> cases]

\* Both tables are those of one contest: ties at the top, in the middle and nowhere; one
\* score with two ranks.
MCAbsolute ==
    {Absolute(<<<<1, 5>>, <<2, 3>>, <<2, 3>>, <<4, 1>>, <<5, 0>>>>,
              <<<<1, 30>>, <<2, 24>>, <<2, 24>>, <<4, 11>>, <<5, 2>>>>, partial) :
        partial \in BOOLEAN}
      \cup {Absolute(<<<<1, 4>>, <<1, 4>>, <<1, 4>>, <<4, 1>>, <<5, 0>>>>,
                     <<<<1, 30>>, <<1, 30>>, <<1, 30>>, <<4, 21>>, <<5, 2>>>>, TRUE),
            Absolute(<<<<1, 4>>, <<2, 3>>, <<3, 3>>, <<4, 2>>, <<5, 0>>>>,
                     <<<<1, 30>>, <<2, 25>>, <<3, 20>>, <<4, 10>>, <<5, 2>>>>, FALSE),
            Absolute(<<<<1, 6>>, <<1, 6>>, <<3, 5>>, <<3, 5>>, <<5, 3>>, <<5, 3>>, <<7, 1>>,
                       <<7, 1>>, <<9, 0>>>>,
                     <<<<1, 40>>, <<1, 40>>, <<3, 33>>, <<3, 33>>, <<5, 30>>, <<5, 30>>, <<7, 12>>,
                       <<7, 12>>, <<9, -3>>>>, TRUE),
            Absolute(<<<<1, 2>>, <<2, 0>>>>, <<<<1, 9>>, <<2, -4>>>>, TRUE)}

\* The standings are others than those of the performances: one row for each rank, ranks
\* left out, more of them than the map has, or fewer; two scores with one rank; nobody
\* but score 0; and a map of one rank.
MCUnpaired ==
    {Absolute(<<<<1, 5>>, <<2, 3>>, <<4, 1>>, <<6, 0>>>>,
              <<<<1, 30>>, <<2, 24>>, <<2, 24>>, <<4, 11>>, <<5, 2>>>>, TRUE),
     Absolute(<<<<1, 5>>, <<3, 3>>, <<3, 3>>, <<8, 1>>, <<9, 0>>>>,
              <<<<1, 30>>, <<2, 24>>, <<4, 24>>, <<7, 11>>>>, TRUE),
     Absolute(<<<<1, 6>>, <<2, 4>>, <<2, 3>>, <<2, 1>>, <<5, 0>>>>,
              <<<<1, 30>>, <<2, 24>>, <<3, 18>>, <<4, 11>>, <<5, 2>>>>, TRUE),
     Absolute(<<<<3, 0>>>>, <<<<1, 30>>, <<2, 24>>, <<4, 11>>>>, TRUE),
     Absolute(<<<<1, 2>>, <<2, 0>>>>, <<<<2, 9>>, <<2, 9>>>>, TRUE)}

MCRaw == {<<<<1, 30>>, <<2, 24>>, <<3, 11>>, <<4, 2>>>>,
          <<<<1, 30>>, <<1, 30>>, <<3, 11>>, <<4, 2>>>>,
          <<<<1, 30>>, <<2, 15>>, <<2, 15>>, <<4, 2>>>>}

\* Scores that tie, cross between the cases, are rejected, or all are 0.
MCCases == {<<<<3, 2, 1>>, <<1, 3, 2>>>>,
            <<<<2, 2, 1>>, <<1, 1, -1>>>>}
MCRelative ==
    {Relative(kind, 4, raw, cases) : kind \in Kinds \ {"absolute"}, raw \in MCRaw,
                                     cases \in MCCases}
      \cup {Relative(kind, 4, <<<<1, 30>>, <<2, 24>>, <<3, 11>>, <<4, 2>>>>,
                     <<<<3, 2, 0>>, <<0, 0, -1>>>>) : kind \in {"max", "min"}}

\* The last rank is below the map's, or above that of some who have a score.
MCUnpairedRelative ==
    {Relative(kind, last, <<<<1, 30>>, <<2, 24>>, <<2, 24>>>>, <<<<3, 2, 1>>, <<1, 3, -1>>>>) :
        kind \in {"min", "rank_max"}, last \in {2, 4}}

MCContests == MCAbsolute \cup MCUnpaired \cup MCRelative \cup MCUnpairedRelative
=============================================================================
