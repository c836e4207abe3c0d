\* Two plugins, one depending on the other and slow to set up,
\* the other slow to deactivate and apt to give up; with fairness.
SPECIFICATION FairSpec
CONSTANTS
  auth = auth
  control = control
  Name = {auth, control}
  Generation = {1, 2}
  Op = {p1, p2}
  None = None
  DependsOn <- Deps
  Boot <- BootOrder
  SlowSetup = {control}
  SlowDeactivate = {auth}
  Registers <- Registered
  GivesUp = {auth}
\* The bot stops for good at a shutdown.
CHECK_DEADLOCK FALSE
INVARIANTS
  UnloadedOwnsNothing
PROPERTIES
  ShutdownStops
