\* One factoid in three places, and one channel with links.
SPECIFICATION ChatSpec
CONSTANTS
  page = page
  loop = loop
  title = title
  other = other
  tinyurl = tinyurl
  mine = mine
  Key = {k}
  Spot <- Spots
  Users <- Person
  MaxTasks = 2
  Url = {page, loop}
  Redirects = {loop}
  Leads <- LeadsTo
  MaxRedirects = 2
  Blacklisted = {loop}
  UrlChan <- LinkedIn
  InPrivate <- Person
  Handler = {title, other}
  Website = title
  Priority <- Order
  Shortener = {tinyurl, mine}
  Tinyurl = tinyurl
  MaxShorten = 3
  MaxRuns = 2
  NoUrl = NoUrl
  MaxInputs = 3
  MaxMixed = 2
\* Messages end.
CHECK_DEADLOCK FALSE
INVARIANTS
  ChangesTakeEffect
  AnswersAreVisible
  ShortOnce
PROPERTIES
  EveryMessageEnds
