SPECIFICATION PostSpec
CONSTANTS
  note = note
  article = article
  r1 = r1
  r2 = r2
  r3 = r3
  r4 = r4
  a1 = a1
  x1 = x1
  None = None
  Posts = {note, article}
  Addressed = {article}
  Replies = {r1, r2, r3, r4, a1}
  Reactions = {x1}
  Tags <- MCTags
  ATag <- MCATag
  ReactsTo <- MCReactsTo
  Age <- MCAge
  MaxNodes = 2
  Wants <- RelayWants
  Late = {a1}
  Earlier = {note, article, r1, r2, r3, r4, x1}
  MaxDrops = 1
  Authors = {}
  Embeds = {}
  QuotedBy <- NoQuotes
  ProfileBudget = 1
  EmbedBudget = 1
  MaxRefreshes = 0
  MaxReplies = 3
  MaxReactions = 1
  MaxDepth = 3
  LevelIds = 2
  Sourced = {}
  Wishes <- MCWishes
  MaxMisses = 1
  MaxHops = 1
INVARIANTS
  WatchesOfThePost
  SubscriptionBudget
  ThreadComplete
  TreeAddsUp
CHECK_DEADLOCK FALSE
