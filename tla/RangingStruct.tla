--------------------------- MODULE RangingStruct ---------------------------
(***************************************************************************)
(* The ranging list and the ranging buffer (ranging_struct.c) as values    *)
(* and operators on them.                                                  *)
(*                                                                         *)
(* A list row is one communication: when the message left its sender, when *)
(* it arrived, its sequence number, and remoteSeq, which is set once both  *)
(* times are known.  A buffer record is a pair of communications, the row  *)
(* "send" and the row "receive", with the sum of their times of flight.    *)
(* The code writes every case twice, for the SENDER and for the RECEIVER;  *)
(* the statuses are the names of the two halves, so that one case is left. *)
(*                                                                         *)
(* Timestamps are readings of the clock of the drone they were taken at:   *)
(* only their order is kept, and each drone has a clock of its own.        *)
(* Coordinates, which only go to the log, are left out.                    *)
(***************************************************************************)
EXTENDS Integers

CONSTANTS
  RANGING_LIST_SIZE,
  RANGING_BUFFER_SIZE,
  OrderedMayFail   \* may a pair of ordered communications give a distance
                   \* out of range, the sum it starts from being inexact?

ASSUME StructAssumption ==
  /\ RANGING_LIST_SIZE \in Nat \ {0}
  /\ RANGING_BUFFER_SIZE \in Nat \ {0}
  /\ OrderedMayFail \in BOOLEAN

NULL_INDEX      == -1
NULL_DONE_INDEX == -2
NULL_SEQ        == 0
NULL_TIMESTAMP  == 0
SENDER          == "send"
RECEIVER        == "receive"
Opposite(status) == IF status = SENDER THEN RECEIVER ELSE SENDER

Rows    == 0..RANGING_LIST_SIZE - 1
Records == 0..RANGING_BUFFER_SIZE - 1

\* How many steps back from top slot i of a ring is.
Back(top, i, size) == (top - i + size) % size

\* The slot of S that a scan back from top meets first.
Nearest(S, top, size) ==
  CHOOSE i \in S : \A j \in S : Back(top, i, size) <= Back(top, j, size)

\* The slot whose key is greatest, the one met first when there are several.
Greatest(S, key, top, size) ==
  IF S = {} THEN NULL_INDEX
  ELSE Nearest({i \in S : \A j \in S : key[j] <= key[i]}, top, size)
-----------------------------------------------------------------------------
(* Ranging list.                                                           *)

NullRow == [tx |-> NULL_TIMESTAMP, rx |-> NULL_TIMESTAMP,
            localSeq |-> NULL_SEQ, remoteSeq |-> NULL_SEQ]

RowType  == [tx : Nat, rx : Nat, localSeq : Nat, remoteSeq : Nat]
ListType == [top : Rows \cup {NULL_INDEX}, row : [Rows -> RowType]]

\* initRangingList
EmptyList == [top |-> NULL_INDEX, row |-> [i \in Rows |-> NullRow]]

\* Mutant: remoteSeq keeps its value.
AddArrivalDone(list, seq, rx) ==
  LET i == (list.top + 1) % RANGING_LIST_SIZE
  IN  [top |-> i, row |-> [list.row EXCEPT ![i] = [@ EXCEPT !.rx = rx, !.localSeq = seq]]]

\* addRangingList(RECEIVER, NULL_INDEX): a message has arrived.  The slot keeps
\* the Tx timestamp of the row it held before.
AddArrival(list, seq, rx) ==
  LET i == (list.top + 1) % RANGING_LIST_SIZE
  IN  [top |-> i,
       row |-> [list.row EXCEPT ![i] = [tx |-> @.tx, rx |-> rx,
                                        localSeq |-> seq, remoteSeq |-> NULL_SEQ]]]

\* Mutant: the row of the last arrival is filled, not that of message seq.
FillLast(list, i, seq, tx) ==
  [list EXCEPT !.row[list.top] = [@ EXCEPT !.tx = tx, !.remoteSeq = seq]]

\* addRangingList(RECEIVER, i): the sender has told when the message left.
FillDeparture(list, i, seq, tx) ==
  [list EXCEPT !.row[i] = [@ EXCEPT !.tx = tx, !.remoteSeq = seq]]

\* addRangingList(SENDER): a receiver has told when the message arrived.
AddFull(list, seq, tx, rx) ==
  LET i == (list.top + 1) % RANGING_LIST_SIZE
  IN  [top |-> i,
       row |-> [list.row EXCEPT ![i] = [tx |-> tx, rx |-> rx,
                                        localSeq |-> seq, remoteSeq |-> seq]]]

\* "Rx, Tx is full"
IsFull(row) == row.tx # NULL_TIMESTAMP /\ row.rx # NULL_TIMESTAMP

\* The full row whose Rx (SENDER) or Tx (RECEIVER) is the last before time.
searchRangingList(list, time, status) ==
  LET key == [i \in Rows |-> IF status = SENDER THEN list.row[i].rx ELSE list.row[i].tx]
  IN  Greatest({i \in Rows : IsFull(list.row[i]) /\ key[i] < time},
               key, list.top, RANGING_LIST_SIZE)

\* Mutant: a row whose times are both known is found again.
findDoneAgain(list, seq) ==
  LET found == {i \in Rows : seq \in {list.row[i].localSeq, list.row[i].remoteSeq}}
  IN  IF list.top = NULL_INDEX \/ found = {} THEN NULL_INDEX
      ELSE Nearest(found, list.top, RANGING_LIST_SIZE)

\* The row of message seq: NULL_DONE_INDEX once its remoteSeq is set.
findLocalSeqIndex(list, seq) ==
  LET found == {i \in Rows : seq \in {list.row[i].localSeq, list.row[i].remoteSeq}}
      i     == Nearest(found, list.top, RANGING_LIST_SIZE)
  IN  IF list.top = NULL_INDEX \/ found = {} THEN NULL_INDEX
      ELSE IF list.row[i].remoteSeq = seq THEN NULL_DONE_INDEX ELSE i
-----------------------------------------------------------------------------
(* Ranging buffer.  A sum of times of flight is known by what it was       *)
(* computed from: kind "classic" or "modified" and the two messages, or    *)
(* kind "initial", the average that ends the initialization.               *)

InitialSum == [kind |-> "initial", TxSeq |-> NULL_SEQ, RxSeq |-> NULL_SEQ]

\* Mutant: the time of arrival is taken for both.
HalfRx(row) == [tx |-> row.rx, rx |-> row.rx, localSeq |-> row.localSeq]

\* What a record keeps of a row.
Half(row) == [tx |-> row.tx, rx |-> row.rx, localSeq |-> row.localSeq]

\* The record of row own, sent or received by status, and the opposite row, with
\* the sum of the flight times of own and of the opposite row summed.
Record(status, own, opposite, kind, summed) ==
  [send    |-> Half(IF status = SENDER THEN own ELSE opposite),
   receive |-> Half(IF status = SENDER THEN opposite ELSE own),
   sumTof  |-> [kind  |-> kind,
                TxSeq |-> IF status = SENDER THEN own.localSeq ELSE summed.localSeq,
                RxSeq |-> IF status = SENDER THEN summed.localSeq ELSE own.localSeq]]

HalfType   == [tx : Nat, rx : Nat, localSeq : Nat]
SumType    == [kind : {"classic", "modified", "initial"}, TxSeq : Nat, RxSeq : Nat]
RecordType == [send : HalfType, receive : HalfType, sumTof : SumType]
RingType   == [top : Records \cup {NULL_INDEX}, length : 0..RANGING_BUFFER_SIZE,
               rec : [Records -> RecordType]]
BufferType == [send : RingType, receive : RingType]

NullRecord == [send |-> Half(NullRow), receive |-> Half(NullRow), sumTof |-> InitialSum]

\* initRangingBuffer, initRangingBufferNode
EmptyRing   == [top |-> NULL_INDEX, length |-> 0, rec |-> [i \in Records |-> NullRecord]]
EmptyBuffer == [send |-> EmptyRing, receive |-> EmptyRing]

\* Mutant: the length is not limited to the size of the ring.
AddRecordUncapped(ring, record) ==
  LET i == (ring.top + 1) % RANGING_BUFFER_SIZE
  IN  [top |-> i, length |-> ring.length + 1, rec |-> [ring.rec EXCEPT ![i] = record]]

\* addRangingBuffer, to one of the two rings.
AddRecord(ring, record) ==
  LET i == (ring.top + 1) % RANGING_BUFFER_SIZE
  IN  [top    |-> i,
       length |-> IF ring.length < RANGING_BUFFER_SIZE THEN ring.length + 1
                  ELSE RANGING_BUFFER_SIZE,
       rec    |-> [ring.rec EXCEPT ![i] = record]]

\* The slots of a ring that hold records.
Held(ring) ==
  {i \in Records : Back(ring.top, i, RANGING_BUFFER_SIZE) < ring.length}

\* The record closest below seq: of receiveBuffer by TxSeq for the SENDER, of
\* sendBuffer by RxSeq for the RECEIVER.
searchRangingBuffer(buffer, seq, status) ==
  LET ring == buffer[Opposite(status)]
      key  == [i \in Records |-> ring.rec[i][status].localSeq]
  IN  Greatest({i \in Held(ring) : key[i] < seq}, key, ring.top, RANGING_BUFFER_SIZE)
-----------------------------------------------------------------------------
\* Mutant: a negative classicTof is not refused.
NeverNegative(A3, B2, A1) == FALSE

(***************************************************************************)
(* classicTof < 0, for the communications A3, B2 and A1.  An interval that *)
(* is negative at the remote drone is taken modulo UWB_MAX_TIMESTAMP       *)
(* (2^40): one of Da and Db, never both by the way the rows are found, is  *)
(* then about 2^40, the numerator Ra*Rb - Da*Db is dominated by Da*Db and  *)
(* classicTof is negative.  With no such interval Ra >= Db and Rb >= Da,   *)
(* so that it is not.                                                      *)
(***************************************************************************)
Negative(A3, B2, A1) == A1.tx < B2.rx \/ B2.tx < A3.rx

\* Mutant: only the record of the direction of A1 is added.
AddOne(buffer, status, A3, B2, A1) ==
  [buffer EXCEPT ![status] = AddRecord(@, Record(status, A1, B2, "classic", B2))]

\* A record is added in each direction: A1 with B2, and A3 with B2.
AddPair(buffer, status, A3, B2, A1) ==
  [h \in {SENDER, RECEIVER} |->
     AddRecord(buffer[h],
               Record(status, IF h = status THEN A1 ELSE A3, B2, "classic", B2))]

\* initializeCalculateTof: from row A1 of listA back to B2 of listB and on to A3
\* of listA.
initializeCalculateTof(listA, listB, indexA, buffer, status) ==
  LET A1 == listA.row[indexA]
      b2 == searchRangingList(listB, IF status = SENDER THEN A1.tx ELSE A1.rx, status)
      B2 == listB.row[b2]
      a3 == searchRangingList(listA, IF status = SENDER THEN B2.rx ELSE B2.tx,
                              Opposite(status))
      A3 == listA.row[a3]
      unchanged == [buffer |-> buffer, added |-> FALSE]
  IN  IF indexA = NULL_INDEX THEN unchanged
      ELSE IF ~IsFull(A1) \/ b2 = NULL_INDEX THEN unchanged
      ELSE IF a3 = NULL_INDEX THEN unchanged
      ELSE IF Negative(A3, B2, A1) THEN unchanged
      ELSE [buffer |-> AddPair(buffer, status, A3, B2, A1), added |-> TRUE]

(***************************************************************************)
(* The range check of calculateTof on T23, computed from a record and the  *)
(* row that follows it.  When just one of Da and Db is negative, and so    *)
(* about 2^40, T23 is about minus the other one and is refused.  Ordered   *)
(* communications pass, unless the sum they start from is inexact.  In the *)
(* other cases (Ra or Rb about 2^40, an overflow of Da*Db) nothing is known*)
(***************************************************************************)
RangeCheck(own, opposite, row) ==
  LET Ra == opposite.rx - own.tx
      Db == opposite.tx - own.rx
      Rb == row.rx - opposite.tx
      Da == row.tx - opposite.rx
  IN  IF Ra <= 0 \/ Rb <= 0 \/ (Da < 0 /\ Db < 0) THEN BOOLEAN
      ELSE IF Da < 0 \/ Db < 0 THEN {FALSE}
      ELSE IF OrderedMayFail THEN BOOLEAN ELSE {TRUE}

\* calculateTof, the set of its outcomes.  When the record closest below the row
\* gives a distance out of range, the next one is tried, once.
calculateTof(buffer, row, status) ==
  LET rec   == buffer[Opposite(status)].rec
      last  == searchRangingBuffer(buffer, row.localSeq, status)
      retry == searchRangingBuffer(buffer, rec[last][status].localSeq, status)
      InRange(i) == RangeCheck(rec[i][status], rec[i][Opposite(status)], row)
      Stored(i) ==
        [added  |-> TRUE,
         buffer |-> [buffer EXCEPT ![status] =
           AddRecord(@, Record(status, row,
                               rec[last][Opposite(status)],
                               "modified", rec[i][Opposite(status)]))]]
      failed == [buffer |-> buffer, added |-> FALSE]
  IN  IF last = NULL_INDEX THEN {failed}
      ELSE (IF TRUE \in InRange(last) THEN {Stored(last)} ELSE {})
           \cup (IF FALSE \notin InRange(last) THEN {}
                 ELSE IF retry = NULL_INDEX THEN {failed}
                 ELSE {IF ok THEN Stored(retry) ELSE failed : ok \in InRange(retry)})
=============================================================================
