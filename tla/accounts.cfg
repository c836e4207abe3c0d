\* The default account and one more, two passwords, two people.
SPECIFICATION Spec
CONSTANTS
  Account = {superadmin, alice}
  Superadmin = superadmin
  Password = {x, y}
  Generated = Generated
  Person = {p, q}
  Nobody = Nobody
  NDefaults = 2
SYMMETRY Symmetric
INVARIANTS
  ConfirmedPasswordsWork
  FilesAgree
  SessionsAreExact
PROPERTY ChannelPasswordsAreRefused
