SPECIFICATION RuntimeSpec
CONSTANTS
    SingleCall = TRUE
    MaxPromises = 2
    MaxDepth = 3
INVARIANT EarlierResultsKnown
PROPERTY PromisesRunInOrder
PROPERTY RunEnds
CHECK_DEADLOCK FALSE
