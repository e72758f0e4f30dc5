SPECIFICATION Spec
CONSTANTS
  a = a
  b = b
  c = c
  d = d
  e = e
  Addresses = {a, b, c, d, e}
  NULL_ADDR = NULL_ADDR
  TABLE_SET_NEIGHBOR_NUM = 4
  MESSAGE_BODY_UNIT_SIZE = 3
SYMMETRY Symmetric
INVARIANTS
  TypeOK
  QueueValid
  OneTableEach
  RefusedForEver
PROPERTY EarlierMovesToTail
