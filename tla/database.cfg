CONSTANTS
  t1 = t1
  t2 = t2
  Transactions <- Two
  Editions <- AllEditions
  None = None
SPECIFICATION Spec
INVARIANTS SchemaInv AloneNotRefused SeededOnce EditionApplied
PROPERTY ProgramsEnd
