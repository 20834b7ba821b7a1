CONSTANTS
    Ids = {1}
    NoId = NoId
    Keys = {"k1", "k2"}
    NoKey = NoKey
    CardBackTries = 1
    MaxGen = 1
SPECIFICATION SafeSpec
INVARIANTS
    SettledPreviewIsOfTheRecord
CHECK_DEADLOCK FALSE
