CONSTANTS
  a = a
  b = b
  c = c
  wire = wire
  daily = daily
  r1 = r1
  r2 = r2
  None = None
  Items <- ThreeItems
  Sources <- TwoSources
  Runs <- TwoRuns
  Feed <- MCFeed
  Url <- MCUrl
  Text <- MCText
  Story <- MCStory
  Short <- Nothing
  Broken <- Nothing
  Mortal <- SecondRun
  MaxSources = 2
  MaxItems = 1
  SimhashColumn = "text"
SPECIFICATION FairSpec
CHECK_DEADLOCK FALSE
INVARIANTS IngestionInv UrlStoredOnce AllOrNothing
PROPERTY RunsEnd
