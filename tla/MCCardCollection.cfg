CONSTANTS
    MaxId = 1
    Titles <- TwoTitles
    IndexBase = 2
    MaxImages = 2
    MaxPictures = 3
    NoCard = NoCard
    MaxAccidents = 1
SPECIFICATION Spec
INVARIANTS
    ImagesShowTheirPictures
    UpgradeKeepsThePictures
    NamesCarryTheId
PROPERTIES
    OnlyItsOwnRecordChanges
