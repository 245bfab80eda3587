\* Two relays, two ids opened twice between them, three losses.
CONSTANTS
  r1 = r1
  r2 = r2
  u1 = u1
  u2 = u2
  Relays <- MCRelays
  UpIds <- MCUpIds
  MaxOpens = 2
  MaxDrops = 3
SPECIFICATION FairSpec
INVARIANTS
  TypeOK
  NobodyWaitsInVain
  EoseHonest
  LinksTended
PROPERTIES
  ImplementsPromise
  NobodyPendingFires
