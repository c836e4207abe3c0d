\* Every list of up to three of three plugins, all dependencies between them,
\* and up to one version that does not match; then two of the plugins, the
\* second slow to set up, and three operations at a time.
SPECIFICATION LoadingSpec
CONSTANTS
  auth = auth
  dialectizer = dialectizer
  urls = urls
  Name = {auth, dialectizer}
  Generation = {1, 2, 3}
  Op = {p1, p2, p3}
  None = None
  DependsOn <- Deps
  Boot <- BootOrder
  SlowSetup = {dialectizer}
  SlowDeactivate = {}
  Registers <- Registered
  GivesUp = {}
  Found = {auth, dialectizer, urls}
  MaxList = 3
\* The bot stops for good at a shutdown, and a list may be left at its order.
CHECK_DEADLOCK FALSE
SYMMETRY Symmetric
INVARIANTS
  LoadedKeepsRegistrations
  TableIsExact
  DependenciesComeFirst
  FindsAllLoadable
