CONSTANTS
    Contests <- MCContests
    CaseScores = {0, 1, 2, 3}
    MaxScore = 7
SPECIFICATION Spec
INVARIANTS RaisesOnlyWhereUndefined BetterNeverPlacedWorse PlacedBetweenNeighbours RecalculationKeepsOrder
