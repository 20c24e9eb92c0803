CONSTANTS
  a1 = a1
  a2 = a2
  a3 = a3
  b1 = b1
  b2 = b2
  Articles <- TwoArticles
  Published <- OneAfterAnother
  Batches <- TwoBatches
  Text <- OneText
  Answers <- AllKinds
  Limit = 2
  Gemini <- Shaky
  Groq <- Unsure
  Mortal <- TwoBatches
CHECK_DEADLOCK FALSE
SPECIFICATION Spec
SYMMETRY Symmetric
INVARIANTS EnrichmentInv AskedOnce TagsHaveTheirSource
