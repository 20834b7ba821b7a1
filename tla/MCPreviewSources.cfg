SPECIFICATION SourcesSpec
CONSTANTS
  Down = Down
  Bad = Bad
  Nothing = Nothing
  MaxRows = 3
  LegacyAliases <- MCLegacyAliases
  RowsOf <- MCRowsOf
  AsksOf <- MCAsksOf
  CatalogPrints <- MCCatalogPrints
  Titles <- MCTitles
  Files <- MCFiles
  RarityCodes <- MCRarityCodes
  Reissues <- MCReissues
  YgoCatalogs <- MCYgoCatalogs
INVARIANTS
  MissesAreConfirmed
  NoBorrowedArt
  NumbersAreTheAskedOnes
  PrintsAreDistinct
