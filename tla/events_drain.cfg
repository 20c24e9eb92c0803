CONSTANTS
  e1 = e1
  e2 = e2
  e3 = e3
  e4 = e4
  loop = loop
  cron = cron
  Events <- FourEvents
  Invalid <- BadEvent
  Unstorable <- LateEvent
  Continuous <- OneLoop
  Cron <- OneCron
  MaxBatch = 2
  DrainBatch = 2
  MaxStream = 3
  MaxFaults = 2
SPECIFICATION FairSpec
INVARIANTS EventsInv AtMostOnce
PROPERTIES ImplementsDelivery PublishedSettles
