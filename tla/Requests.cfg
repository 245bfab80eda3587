\* Both clients, one subscription id used twice, one publication.
CONSTANTS
  c1 = c1
  local = local
  s1 = s1
  s2 = s2
  e1 = e1
  e2 = e2
  fAll = fAll
  fIds = fIds
  Eose = Eose
  Local = local
  Clients <- MCBothClients
  SubscriptionIds <- MCOneSub
  Events <- MCOneEvent
  Filters <- MCOneFilter
  IdFilters <- MCIdFilters
  Match <- MCMatch
  UpIds <- MCUpIds
  HasUpstream = TRUE
  HasFreshness = TRUE
  MaxSubscriptions = 2
  MaxUp = 2
  MaxReqs = 2
  MaxPubs = 1
  MaxSentIds = 3
  MaxQueue = 1
  MaxOut = 1
SPECIFICATION Spec
INVARIANTS
  EoseOncePerReq
  NoGap
  TransportInStep
PROPERTIES
  UpstreamAddsUnpublishedNews
CHECK_DEADLOCK FALSE
