\* One irc protocol, two Factory objects: liveness and the abstract view.
SPECIFICATION FairSpec
CONSTANTS
  irc = irc
  mumble = mumble
  Name = {irc}
  Generation = {g1, g2}
  NoFactory = NoFactory
  Configured = {irc}
  MumbleNames = {}
  Options <- OneNetwork
  GlobalReset = TRUE
  AttemptCap = 3
CHECK_DEADLOCK FALSE
PROPERTIES
  ImplementsSupervisor
  RetryHappens
  NoEndlessRetries
