CONSTANTS
    Regions <- TwoRegions
    SetsOf <- SmallSetsOf
    FirstSet <- SmallFirst
    NoSet = "none"
    Names = {"Pikachu"}
    Blank = "blank"
    Numbers = {1, 2}
    NoNumber = 0
    Listing <- SmallListing
    NewRegion <- West
    MaxEpoch = 1
    MaxEdits = 1
    YgoSets = {"LOB", "RA04"}
    FirstYgoSet = "LOB"
    SetDigits <- SmallDigits
    YgoNumbers <- SmallNumbers
    YgoRarities = {"common", "rare"}
    Printings <- SmallPrintings
    BandaiSets = {"first", "second"}
    FirstBandaiSet = "first"
    Typed = {"", "b1", "B1", "B2"}
    Normal <- SmallNormal
    BandaiRarities = {"Common"}
    BandaiLanguages = {"Japanese"}
    BandaiPrints <- SmallBandaiPrints
    MaxJobs = 2
    DigiSets = {"first", "second"}
    FirstDigiSet = "first"
    DigiPrints <- SmallDigiPrints
SPECIFICATION DialogsSpec
INVARIANT SavedNumberIsThePrints
CHECK_DEADLOCK FALSE
