CONSTANTS
  t1 = t1
  t2 = t2
  s1 = s1
  r1 = r1
  r2 = r2
  Slugs <- TwoSlugs
  Taxonomy <- OneSlug
  Sources <- OneSource
  MinSlugs = 1
  Requests <- TwoRequests
  Signals <- Middling
  Lengths <- FewAndMany
  NoVector = NoVector
SPECIFICATION OnboardingSpec
INVARIANTS OnboardingInv RequestsInTurn
PROPERTIES StaysComplete RanksSettle
