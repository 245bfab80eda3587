\* Two clients with one subscription each, two events, a dedup set of one id.
CONSTANTS
  c1 = c1
  c2 = c2
  s1 = s1
  e1 = e1
  e2 = e2
  Eose = Eose
  Clients <- MCTwoClients
  SubscriptionIds <- MCSubscriptionIds
  Events <- MCTwoEvents
  UpIds <- MCUpIds
  MaxSentIds = 1
  MaxUp = 2
  MaxQueue = 2
  MaxOut = 1
SPECIFICATION CoordSpec
SYMMETRY MCSymmetry
INVARIANTS
  CoordTypeOK
  NothingLeaks
  EoseOnceAfterBackfill
PROPERTIES
  DeliversOnlyNews
