\* A CLOSE or disconnect arrives while the REQ awaits the storage.
CONSTANTS
  c1 = c1
  local = local
  s1 = s1
  s2 = s2
  e1 = e1
  e2 = e2
  fAll = fAll
  fIds = fIds
  Eose = Eose
  Local = local
  Clients <- MCTransportOnly
  SubscriptionIds <- MCOneSub
  Events <- MCOneEvent
  Filters <- MCOneFilter
  IdFilters <- MCIdFilters
  Match <- MCMatch
  UpIds <- MCUpIds
  HasUpstream = TRUE
  HasFreshness = FALSE
  MaxSubscriptions = 3
  MaxUp = 1
  MaxReqs = 1
  MaxPubs = 0
  MaxSentIds = 3
  MaxQueue = 2
  MaxOut = 2
SPECIFICATION Spec
INVARIANTS
  UpstreamHasSubscriber
CHECK_DEADLOCK FALSE
