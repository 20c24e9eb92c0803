CONSTANTS
  a1 = a1
  a2 = a2
  a3 = a3
  a4 = a4
  press = press
  wire = wire
  en = en
  hi = hi
  sport = sport
  trade = trade
  All = All
  Articles <- FourArticles
  Ingestible <- MCIngestible
  PublishedAt <- MCPublishedAt
  Latest = 3
  TagPillars <- MCTagPillars
  Source <- MCSource
  Topic <- MCTopic
  Pillar <- MCPillar
  Pillars <- OnePillar
  Trending <- OneTrending
  Limit = 3
  EveryN = 2
  MaxPerSource = 2
  MaxPerTopic = 2
  None = None
  ExploreN <- ColdOrNot
  c1 = c1
  c2 = c2
  Calls <- TwoCalls
CHECK_DEADLOCK FALSE
SPECIFICATION FairSpec
INVARIANTS FeedInv CapsKept ListedWell
PROPERTIES CursorDescends ScrollEnds
