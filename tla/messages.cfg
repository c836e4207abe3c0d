\* Five plugins, an irc and a mumble protocol with two channels each.
SPECIFICATION Spec
CONSTANTS
  irc = irc
  mumble = mumble
  c = c
  d = d
  private = private
  anywhere = anywhere
  auth = auth
  bridge = bridge
  urls = urls
  chat = chat
  filter = filter
  none = none
  Irc = {irc}
  Mumble = {mumble}
  Chan = {c, d}
  Private = private
  Anywhere = anywhere
  Plugin = {auth, bridge, urls, chat, filter}
  Hooks <- MCHooks
  TakesCancelled = {}
  ChannelsOnly = {urls}
  Canceller = {filter}
  Answerer = {chat}
  Rank <- MCRank
  Commands <- MCCommands
  AliasesOf <- MCAliases
  Restricted = {"login", "note", "ban"}
  OpenByDefault = {"login"}
  MayRaise = {chat}
  MayGiveUp = {auth}
  Bridge = bridge
  Auth = auth
  Rule <- MCRules
  Unreachable <- MCUnreachable
  None = none
INVARIANTS
  HeardOnceOrConsumed
  RegistryIsExact
  RelayedOnce
