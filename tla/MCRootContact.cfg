SPECIFICATION FairSpec
CONSTANTS
  r1 = r1
  r2 = r2
  r3 = r3
  r4 = r4
  RootNodes <- FourNodes
  Up = {r3, r4}
  Lagging = {r3}
  HandshakeNodes = 3
  NofRootNodes = 2
PROPERTIES
  ContactRestored
  RequestArrives
