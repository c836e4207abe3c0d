CONSTANTS
  default = default
  staff = staff
  ops = ops
  alice = alice
  bob = bob
  irc = irc
  mumble = mumble
  chan = chan
  everywhere = everywhere
  none = none
  Perm <- MCPerm
  Node <- MCNode
  Group <- MCGroup
  Default = default
  DefaultNodes <- MCDefaultNodes
  Account = {alice, bob}
  Protocol = {irc, mumble}
  Source = {chan}
  Everywhere = everywhere
  Nothing = none
  Files <- MCFiles
  Ranks <- MCRanks
  InName <- MCInName
  UseSuperuser = TRUE
  MaxEdits = 2
SPECIFICATION Spec
INVARIANTS
  AnswersFollowTheGraph
PROPERTIES
  EditsAreMonotone
CHECK_DEADLOCK FALSE
