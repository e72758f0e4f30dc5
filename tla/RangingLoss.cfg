SPECIFICATION Spec
CONSTANTS
  a = a
  b = b
  c = c
  Drones = {a, b}
  NULL_ADDR = NULL_ADDR
  RANGING_LIST_SIZE = 3
  RANGING_BUFFER_SIZE = 2
  OrderedMayFail = FALSE
  TABLE_SET_NEIGHBOR_NUM = 1
  MESSAGE_BODY_UNIT_SIZE = 1
  MESSAGE_HEAD_TX_SIZE = 2
  MESSAGE_BODY_RX_SIZE = 2
  MAX_INITIAL_CALCULATION = 2
  QUEUE_TASK_LENGTH = 1
  MaxSeq = 4
  MaxUnderWay = 2
  MaxConsecutiveLoss = 1
SYMMETRY Symmetric
INVARIANTS
  TypeOK
  SendRowsTrue
  ReceiveRowsTrue
  RecordsTrue
  InitOrdered
  FinishTogether
  HeaderRedundancy
