CONSTANTS
  left = left
  c1 = c1
  c2 = c2
  p1 = p1
  p2 = p2
  p3 = p3
  p4 = p4
  None = None
  Tabs <- OneTab
  Calls <- TwoCalls
  Pairs <- FourPairs
SPECIFICATION FairSpec
CHECK_DEADLOCK FALSE
INVARIANT ClientInv
PROPERTIES ForgottenForCause CallsEnd
