\* Two people and two channels; no WHO is answered after the bot has left.
SPECIFICATION TrackingSpec
CONSTANTS
  bot = bot
  alice = alice
  bob = bob
  nbot = nbot
  na = na
  nx = nx
  Person = {bot, alice, bob}
  Self = bot
  Nick = {nbot, na, nx}
  Chan = {c, d}
  Off = Off
  MayUse <- Nicks
  Obj = {1, 2, 3, 4}
  Nobody = Nobody
  NoChan = NoChan
  LateWho = FALSE
VIEW Relevant
SYMMETRY Symmetric
CONSTRAINT OneAtATime
INVARIANTS
  MembersAreExact
