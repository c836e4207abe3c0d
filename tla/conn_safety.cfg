\* An irc and a mumble protocol, two Factory objects each.
SPECIFICATION Spec
CONSTANTS
  irc = irc
  mumble = mumble
  Name = {irc, mumble}
  Generation = {g1, g2}
  NoFactory = NoFactory
  Configured = {irc, mumble}
  MumbleNames = {mumble}
  Options <- TwoNetworks
  GlobalReset = TRUE
  AttemptCap = 2
SYMMETRY Symmetric
\* The bot stops for good once its reactor has.
CHECK_DEADLOCK FALSE
INVARIANTS
  RetryIsSafe
  NeverStranded
  TableIsCurrent
PROPERTIES
  RetiredStaysDown
