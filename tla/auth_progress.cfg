CONSTANTS
  u1 = u1
  u2 = u2
  t1 = t1
  t2 = t2
  t3 = t3
  t4 = t4
  r1 = r1
  r2 = r2
  None = None
  Users <- OneUser
  Tokens <- ThreeTokens
  Requests <- TwoRequests
  ReplyFirst = TRUE
SPECIFICATION FairSpec
PROPERTIES RequestsEnd ImplementsTokens
