CONSTANTS
    MaxDetections = 3
    MinScore = 4
    NaN = NaN
    Scores <- MCScores
    Counts <- MCCounts
    BoxLengths <- MCBoxLengths
    ClassLengths <- MCClassLengths
SPECIFICATION Spec
INVARIANTS
    TypeOK
    ReplyHoldsTheConfidentDetections
    RowsAreNotMixed
    NoGaps
