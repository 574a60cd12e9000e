SPECIFICATION Spec
CONSTANTS
    MaxReqs = 2
    MaxMade = 2
    MaxBundle = 2
    Chunks = 2
    Conducts <- Unkempt
CHECK_DEADLOCK FALSE
\* One of these at a time: each of them is violated.
INVARIANT EndIsLast
\* INVARIANT ResponsesInOrder
\* INVARIANT EveryRequestEnds
