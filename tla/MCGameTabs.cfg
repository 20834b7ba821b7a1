SPECIFICATION Spec
CONSTANTS
  Down = Down
  Bad = Bad
  Missing = Missing
  Torn = Torn
  All = All
  MaxCards <- MCMaxCards
  MaxFaults <- MCMaxFaults
  MaxMoves <- MCMaxMoves
  LegacyAliases <- MCLegacyAliases
  CatalogSets <- MCCatalogSets
  CatalogPrints <- MCCatalogPrints
  Titles = {}
  MissingClassicProducts <- MCMissingClassicProducts
  ChineseIds = {"CS1"}
  NameOverrides <- MCNameOverrides
  CjkNames = {"ja"}
  MissingReprints <- MCMissingReprints
  SetCodes <- MCSetCodes
  SetManifest <- MCSetManifest
  Slugs <- MCSlugs
  PackDates <- MCPackDates
  UpperCase <- MCUpperCase
  Lower <- MCLower
  PrintedNames <- MCPrintedNames
  RarityShortCode <- MCRarityShortCode
  SampleCards <- MCSampleCards
  Contents <- MCContents
  Replies <- MCReplies
  Drafts <- MCDrafts
  Texts <- MCTexts
INVARIANTS
  ChecklistShowsTheCollection
  CountsAreHonest
  PickerIsWhatIsStored
  SetPickerIsEnglish
  DeckIsAccountedFor
  TableDoesWhatItShows
PROPERTIES
  RecordsKeepTheirPlace
