CONSTANTS
  d1 = d1
  d2 = d2
  d3 = d3
  Drones <- ThreeDrones
  Nobody = Nobody
  MAX_NODES = 2
  SocketRoom = 1
  MaxMessages <- ThreeMessages
  MaxLeaves = 1
SPECIFICATION FairSpec
INVARIANTS TypeOK NodesRegistered SameBase BaseFirst
PROPERTIES RelaySpec EverySentIsHeard
CHECK_DEADLOCK FALSE
