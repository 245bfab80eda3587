SPECIFICATION FeedSpec
CONSTANTS
  home = home
  global = global
  alice = alice
  bob = bob
  quote = quote
  None = None
  Posts = {home, global}
  Addressed = {}
  Replies = {}
  Reactions = {}
  Tags <- Nothing
  ATag <- Nothing
  ReactsTo <- Nothing
  Age <- Nothing
  MaxNodes = 1
  Wants <- RelayWants
  Late = {}
  Earlier = {home, global}
  MaxDrops = 1
  Authors = {alice, bob}
  Embeds = {quote}
  QuotedBy <- MCQuotedBy
  ProfileBudget = 1
  EmbedBudget = 1
  MaxRefreshes = 1
  MaxReplies = 1
  MaxReactions = 1
  MaxDepth = 1
  LevelIds = 1
  Sourced = {home}
  Wishes = {{}}
  MaxMisses = 2
  MaxHops = 1
INVARIANTS
  TypeOK
  NothingIsForgotten
  PausedIsQuiet
PROPERTIES
  StopReleases
  AuthorsServed
CHECK_DEADLOCK FALSE
