\* Two threads and four calls: two that overlap, and one before and after them.
\* A drone flies steps of one or two; the area reaches from 6 to 9.
CONSTANTS
  Threads = {main, receive}
  Main = main
  MaxClock = 2
  MaxCalls = 4
  Low = 6
  High = 9
  Velocity = 2
  Period = 1
  CoordinateRange = 16
  MaxFailedSends = 2

SPECIFICATION FairSpec

INVARIANTS
  TypeOK
  SerialCallsIncrease
  AheadOfClock
  WithinReach
PROPERTIES
  EveryCallReturns
  ComesBack
