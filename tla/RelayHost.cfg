\* Three widgets and two sockets.
CONSTANTS
  h1 = h1
  h2 = h2
  h3 = h3
  w1 = w1
  w2 = w2
  Native = Native
  None = None
  Emulators <- MCCallers
  Sockets <- MCSockets
SPECIFICATION FairSpec
INVARIANTS
  TypeOK
  PageAndRelayAgree
  HoldersServed
  CountDecides
PROPERTY AcquireSettles
CHECK_DEADLOCK FALSE
