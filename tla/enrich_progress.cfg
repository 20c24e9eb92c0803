CONSTANTS
  a1 = a1
  a2 = a2
  a3 = a3
  b1 = b1
  b2 = b2
  Articles <- ThreeArticles
  Published <- OneAfterAnother
  Batches <- OneBatch
  Text <- OwnText
  Answers <- FirstSkips
  Limit = 2
  Gemini <- Limited
  Groq <- Unsure
  Mortal <- NoBatch
CHECK_DEADLOCK FALSE
SPECIFICATION FairSpec
PROPERTY GoodIsEnriched
