CONSTANTS
    Keys = {"card", "asset", "back"}
    UrlKeys = {"back"}
    AssetKeys = {"asset"}
    Unsourced = {}
    Images = {"scan"}
    Torn = Torn
    Negative = Negative
    Nothing = Nothing
    Error = Error
    Workers = {w1, w2}
    kCacheCapacity = 2
    MaxTroubles = 1
SYMMETRY WorkerSymmetry
SPECIFICATION Spec
INVARIANTS
    TypeOK
    ListAndIndexAgree
    VerdictsComeFromUpstream
    UrlsAreNeverNegative
    WriteThrough
PROPERTIES
    EvictsLeastRecentlyUsed
