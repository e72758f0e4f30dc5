CONSTANTS
  d1 = d1
  d2 = d2
  d3 = d3
  Drones <- ThreeDrones
  Nobody = Nobody
  MAX_NODES = 2
  SocketRoom = 1
  MaxMessages <- NoMessages
  MaxLeaves = 0
SPECIFICATION Spec
INVARIANT RefusedDroneExits
CHECK_DEADLOCK FALSE
