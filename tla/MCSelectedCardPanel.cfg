CONSTANTS
    Ids = {1, 2}
    NoId = NoId
    Keys = {"k1", "k2"}
    NoKey = NoKey
    CardBackTries = 2
    MaxGen = 3
SPECIFICATION Spec
INVARIANTS
    TypeOK
    PaintsOnlyTheCurrentFetch
    LoadingMeansPending
PROPERTIES
    NothingAfterDestroy
    LoadingEnds
    ImplementsDisplay
CHECK_DEADLOCK FALSE
