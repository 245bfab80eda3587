\* A transport client, two subscription ids, a limit of one, relays that may never answer.
CONSTANTS
  c1 = c1
  local = local
  s1 = s1
  s2 = s2
  e1 = e1
  e2 = e2
  fAll = fAll
  fIds = fIds
  Eose = Eose
  Local = local
  Clients <- MCTransportOnly
  SubscriptionIds <- MCTwoSubs
  Events <- MCOneEvent
  Filters <- MCTwoFilters
  IdFilters <- MCIdFilters
  Match <- MCMatch
  UpIds <- MCUpIds
  HasUpstream = TRUE
  HasFreshness = FALSE
  MaxSubscriptions = 1
  MaxUp = 2
  MaxReqs = 2
  MaxPubs = 0
  MaxSentIds = 3
  MaxQueue = 1
  MaxOut = 1
SPECIFICATION FairSpec
INVARIANTS
  TablesInOrder
PROPERTIES
  EveryReqAnswered
CHECK_DEADLOCK FALSE
