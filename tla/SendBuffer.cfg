\* Four rounds of a ring of three, and sequence numbers that wrap twice.
CONSTANTS
  LOCAL_SEND_BUFFER_SIZE = 3
  SeqRange = 5
  MaxMessages = 12

SPECIFICATION Spec

\* After the last message the process thread still looks up reports.
INVARIANTS
  TypeOK
  KeptEntryTrue
  KeptEntryFound
