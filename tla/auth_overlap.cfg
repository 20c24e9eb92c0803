CONSTANTS
  u1 = u1
  u2 = u2
  t1 = t1
  t2 = t2
  t3 = t3
  t4 = t4
  r1 = r1
  r2 = r2
  None = None
  Users <- TwoUsers
  Tokens <- FourTokens
  Requests <- TwoRequests
  ReplyFirst = FALSE
SPECIFICATION Spec
SYMMETRY Symmetric
INVARIANTS TypeOK ExchangedIsRevoked FanOutBounded ClientsServed AccountsKept
