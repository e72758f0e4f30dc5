SPECIFICATION Spec
CONSTANTS
  a = a
  b = b
  c = c
  Drones = {a, b, c}
  NULL_ADDR = NULL_ADDR
  RANGING_LIST_SIZE = 3
  RANGING_BUFFER_SIZE = 1
  OrderedMayFail = FALSE
  TABLE_SET_NEIGHBOR_NUM = 2
  MESSAGE_BODY_UNIT_SIZE = 2
  MESSAGE_HEAD_TX_SIZE = 1
  MESSAGE_BODY_RX_SIZE = 1
  MAX_INITIAL_CALCULATION = 1
  QUEUE_TASK_LENGTH = 1
  MaxSeq = 4
  MaxUnderWay = 2
  MaxConsecutiveLoss = 0
PROPERTIES
  InitialAverage
