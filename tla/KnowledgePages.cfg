\* One document, two calls at a time, so that loads overtake each other.
SPECIFICATION FairSpec
CONSTANTS
    Document = {d1}
    Call = {k1, k2}
    MaxRuns = 2
    Faults = {"lost"}
PROPERTIES
    WaitingEnds
    CatchesUp
