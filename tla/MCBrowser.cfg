SPECIFICATION PartSpec
CONSTANTS
  Children = {c1, c2}
  Causes = {Outer}
  None = None
  a = a  b = b  browser = browser  page = page
  Commands = {a, b}
  Sessions = {browser, page}
  SessionOf <- OneEach
  ChannelCapacity = 1
  Loaders = {l1, l2}
  FrameOf <- OneFrame
  EventCapacity = 2
  Faults = {"Missing", "Obscured"}
  Installers = {p, q}
  Cleaners = {sweeper}
INVARIANTS
  HealthyWinner
  NothingHidden
  AnswersHonest
  PageHonest
  ChromeOwned
  InstallWhole
PROPERTIES
  BrowserEnds
CHECK_DEADLOCK FALSE
