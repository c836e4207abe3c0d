\* Two connections to IRC, one channel with a key and one not in the list.
SPECIFICATION Spec
CONSTANTS
  main = main
  locked = locked
  other = other
  Channel = {main, locked, other}
  Listed <- BothListed
  Keyed = {locked}
  NoChannel = NoChannel
  MaxConns = 2
  MaxAsked = 2
  CtcpTime = 3
  CtcpCount = 2
  MaxFrames = 3
\* Connections, frames and what is asked of the bot are bounded.
CHECK_DEADLOCK FALSE
INVARIANTS
  OnlyWherePut
  
  FramesAreHandledOnce
PROPERTIES
  SettlesIn
