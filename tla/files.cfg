\* Two plugins share files of both formats; four packages with requirements.
SPECIFICATION Spec
CONSTANTS
  base = base
  tools = tools
  extra = extra
  circle = circle
  old = old
  common = common
  tool = tool
  DataFile = {accounts, lists}
  ConfigFile = {settings}
  JSON = {lists}
  User = {auth, urls}
  Nobody = Nobody
  MaxChanges = 2
  MaxObjects = 3
  MaxIds = 2
  MaxReports = 2
  Package = {base, tools, extra, circle}
  Unlisted = {old}
  Path = {common, tool}
  Files <- FileLists
  Requires <- Requirements
  MaxVersions = 2
  MaxDepth = 3
  blog = blog
  shop = shop
  onion = onion
  forum = forum
  bank = bank
  Site = {blog, shop, onion, forum, bank}
  JarOf <- JarsOfSites
  NoJar = "none"
  Proxied = {onion}
  Fleeting = {shop}
  MaxCookies = 2
  MaxFetches = 2
  MaxJars = 4
  MaxOps = 5
  MaxMixed = 2
SYMMETRY Symmetric
\* The bot is not always used.
CHECK_DEADLOCK FALSE
INVARIANTS
  SharedIsOnDisk
  SiteKnows
  SkippedIsCurrent
PROPERTIES
  RequirementsComeFirst
  CookiesAreKept
