CONSTANTS
    MaxId = 2
    MaxText = 2
    Prints <- TwoPrints
    NoCard = NoCard
    Unknown = Unknown
    MaxTroubles = 1
SPECIFICATION Spec
INVARIANTS
    DetailFollowsTheList
    TableShowsTheCollection
PROPERTIES
    SelectionSurvivesRebuilds
    DeletionSelectsTheRowAbove
