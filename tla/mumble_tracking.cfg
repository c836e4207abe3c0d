\* One protocol that connects again and may be reloaded.
SPECIFICATION Spec
CONSTANTS
  bot = bot
  alice = alice
  bob = bob
  root = root
  lobby = lobby
  Conn = {mumble}
  Session = {s1, s2, s3}
  Chan = {root, lobby}
  Root = root
  Person = {bot, alice, bob}
  Bot = bot
  Class = {1, 2}
  None = None
VIEW Relevant
SYMMETRY Symmetric
INVARIANTS
  MembersAgree
  UsersAreExact
PROPERTY ChannelsAreFound
