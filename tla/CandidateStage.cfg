SPECIFICATION Spec
CONSTANTS
  Token <- MCToken
  Letter <- MCLetter
  Spelling <- MCSpelling
  Word <- MCWord
  Keyed <- MCKeyed
  Suffix <- MCSuffix
  Stop = {"of", "the"}
  Parts <- MCParts
  Record <- MCRecord
  Words <- MCWords
  Commas <- MCCommas
  Closures <- MCClosures
  Places <- MCPlaces
  BrandOf <- MCBrandOf
  KeyOrder <- MCKeyOrder
  Alike <- MCAlike
  MinTokenLen = 4
  MaxDocFreq = 2
  AcronymMin = 2
  AcronymMax = 3
  MaxRuns = 6
  NoFeatures = NoFeatures
  NoPrediction = NoPrediction
INVARIANTS
  OneOrgPerBrand
  RowsTrue
  ReasonsExact
  
  PointsHome
