SPECIFICATION Spec
CONSTANTS
  Addresses = {a, b, c, d, e}
  NULL_ADDR = NULL_ADDR
  TABLE_SET_NEIGHBOR_NUM = 2
  MESSAGE_BODY_UNIT_SIZE = 3
  a = a
  b = b
  c = c
  d = d
  e = e
PROPERTY MovesToTail
