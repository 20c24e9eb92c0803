CONSTANTS
  a1 = a1
  a2 = a2
  t1 = t1
  login = login
  register = register
  s1 = s1
  s2 = s2
  Articles <- TwoArticles
  Marked <- OneMarked
  MaxTimers = 1
  None = None
  Topics <- OneTopic
  MinTopics = 1
  Startup = Startup
  Forms <- BothForms
  Submits <- TwoSubmits
  MaxBusy = 2
SPECIFICATION Spec
SYMMETRY Symmetric
INVARIANTS ShellInv ReadingInv TopicsSent
PROPERTY HiddenStaysHidden
