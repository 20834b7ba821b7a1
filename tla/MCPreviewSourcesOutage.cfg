SPECIFICATION SourcesSpec
CONSTANTS
  Down = Down
  Bad = Bad
  Nothing = Nothing
  MaxRows = 2
  LegacyAliases <- MCLegacyAliases
  RowsOf <- MCRowsOf
  AsksOf <- MCAsksOf
  CatalogPrints <- MCCatalogPrints
  Titles <- MCTitles
  Files <- MCFiles
  RarityCodes <- MCRarityCodes
  Reissues <- MCReissues
  YgoCatalogs <- MCYgoCatalogs
INVARIANT UnansweredIsTransient
